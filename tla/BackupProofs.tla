----------------------------- MODULE BackupProofs -----------------------------
(***************************************************************************)
(* Proofs about Split and Backup, for every field, every number of shares, *)
(* all random values and all jobs whose group threshold is not 0 and whose *)
(* exponent fits a mnemonic.  (The command line lets both through, and     *)
(* both end in a failed assert.)                                           *)
(***************************************************************************)
EXTENDS Backup, Induction

------------------------------------------------------------------------------
(***************************************************************************)
(* GF(2^Width): multiplication as gf256_mul does it makes a ring of bytes, *)
(* for every width and polynomial.                                         *)
(***************************************************************************)

(* Addition is exclusive or. *)
LEMMA AddLaws ==
  /\ \A a, b \in Byte : gf256_add(a, b) \in Byte /\ gf256_add(a, b) = gf256_add(b, a)
  /\ \A a, b, c \in Byte : gf256_add(gf256_add(a, b), c) = gf256_add(a, gf256_add(b, c))
  /\ \A a \in Byte : gf256_add(a, {}) = a /\ gf256_add({}, a) = a /\ gf256_add(a, a) = {}
  /\ {} \in Byte /\ One \in Byte
<1>1. \A a, b \in Byte : gf256_add(a, b) \in Byte /\ gf256_add(a, b) = gf256_add(b, a)
  BY DEF gf256_add, Byte
<1>2. ASSUME NEW a \in Byte, NEW b \in Byte, NEW c \in Byte
      PROVE  gf256_add(gf256_add(a, b), c) = gf256_add(a, gf256_add(b, c))
  BY DEF gf256_add
<1>3. \A a \in Byte : gf256_add(a, {}) = a /\ gf256_add({}, a) = a /\ gf256_add(a, a) = {}
  BY DEF gf256_add, Byte
<1>4. {} \in Byte /\ One \in Byte
  BY FieldAssumption DEF Byte, Bits, One
<1> QED BY <1>1, <1>2, <1>3, <1>4

(* Doubling is a linear map. *)
LEMMA DoubleLaws ==
  /\ \A a \in Byte : Double(a) \in Byte
  /\ \A a, b \in Byte : Double(gf256_add(a, b)) = gf256_add(Double(a), Double(b))
  /\ Double({}) = {}
<1>0. Pol \in Byte /\ Width \in Nat \ {0}
  BY FieldAssumption
<1>1. ASSUME NEW a \in Byte PROVE ShiftLeft(a) \in Byte
  BY DEF Byte, ShiftLeft
<1>2. ASSUME NEW a \in Byte PROVE Double(a) \in Byte
  BY <1>0, <1>1, AddLaws DEF Double
<1>3. ASSUME NEW a \in Byte, NEW b \in Byte
      PROVE  Double(gf256_add(a, b)) = gf256_add(Double(a), Double(b))
  <2>1. ShiftLeft(gf256_add(a, b)) = gf256_add(ShiftLeft(a), ShiftLeft(b))
    BY DEF ShiftLeft, gf256_add
  <2>2. Width - 1 \in gf256_add(a, b) <=> ~(Width - 1 \in a <=> Width - 1 \in b)
    BY DEF gf256_add
  <2> DEFINE T(x) == IF Width - 1 \in x THEN Pol ELSE {}
  <2>3. T(gf256_add(a, b)) = gf256_add(T(a), T(b)) /\ T(a) \in Byte /\ T(b) \in Byte
    BY <1>0, <2>2, AddLaws
  <2>4. \A u, v, w, z \in Byte : gf256_add(gf256_add(u, v), gf256_add(w, z))
                              = gf256_add(gf256_add(u, w), gf256_add(v, z))
    BY DEF gf256_add
  <2>5. \A x : Double(x) = gf256_add(ShiftLeft(x), T(x))
    BY DEF Double
  <2> HIDE DEF T
  <2>6. ShiftLeft(a) \in Byte /\ ShiftLeft(b) \in Byte
    BY <1>1
  <2> QED BY ONLY <2>1, <2>3, <2>4, <2>5, <2>6
<1>4. Double({}) = {}
  BY DEF Double, ShiftLeft, gf256_add
<1> QED BY <1>2, <1>3, <1>4

(* What the loop of gf256_mul goes through: the first factor doubled, and  *)
(* the sum over the one bits of the second.                                *)
Runs(a, b, A, S) ==
  /\ A \in [0 .. Width - 1 -> Byte] /\ S \in [0 .. Width - 1 -> Byte]
  /\ A[0] = a /\ S[0] = IF 0 \in b THEN a ELSE {}
  /\ \A k \in 0 .. (Width - 1) - 1 :
       /\ A[k + 1] = Double(A[k])
       /\ S[k + 1] = IF k + 1 \in b THEN gf256_add(S[k], A[k + 1]) ELSE S[k]

LEMMA MulRuns ==
  ASSUME NEW a0 \in Byte, NEW b0 \in Byte
  PROVE  \E A, S : Runs(a0, b0, A, S) /\ gf256_mul(a0, b0) = S[Width - 1]
<1> DEFINE N == Width - 1
           States == [a : Byte, b : Byte, res : Byte]
           Entry(v) == [v EXCEPT !.res = IF 0 \in v.b THEN gf256_add(v.res, v.a) ELSE v.res]
           Shift(v) == [v EXCEPT !.a = Double(v.a), !.b = ShiftRight(v.b)]
           first == Entry([a |-> a0, b |-> b0, res |-> {}])
           step == [v \in States |-> Entry(Shift(v))]
           Loop(f) == f = [k \in 0 .. N |-> IF k = 0 THEN first ELSE Entry(Shift(f[k - 1]))]
           loop == CHOOSE f : Loop(f)
<1>0. N \in Nat /\ Width \in Nat /\ Width = N + 1
  BY FieldAssumption
<1>1. \A v \in States : Entry(v) \in States
  BY AddLaws
<1>2. \A v \in States : Shift(v) \in States
  <2>1. \A b \in Byte : ShiftRight(b) \in Byte
    BY DEF ShiftRight, Byte
  <2> QED BY <2>1, DoubleLaws
<1>3. first \in States
  <2>1. [a |-> a0, b |-> b0, res |-> {}] \in States
    BY AddLaws
  <2> HIDE DEF Entry, States
  <2> QED BY <1>1, <2>1
<1>4. step \in [States -> States]
  <2> HIDE DEF Entry, Shift, States
  <2> QED BY <1>1, <1>2
<1>5. PICK f : RecursesTo(f, N, States, first, step)
  <2> HIDE DEF first, step, States, N
  <2> QED BY ONLY <1>0, <1>3, <1>4, RecursionTo
<1>6. f \in [0 .. N -> States] /\ f[0] = first /\ \A k \in 0 .. N - 1 : f[k + 1] = step[f[k]]
  BY ONLY <1>5 DEF RecursesTo
<1>7. Loop(f)
  <2> HIDE DEF first, Entry, Shift, States, N
  <2>1. ASSUME NEW k \in 0 .. N PROVE f[k] = IF k = 0 THEN first ELSE Entry(Shift(f[k - 1]))
    <3>1. CASE k # 0
      <4>1. k - 1 \in 0 .. N - 1 /\ (k - 1) + 1 = k /\ k - 1 \in 0 .. N
        BY <3>1, <1>0
      <4>2. f[k] = step[f[k - 1]] /\ f[k - 1] \in States
        BY <1>6, <4>1
      <4> QED BY <3>1, <4>2
    <3> QED BY <3>1, <1>6
  <2> QED BY <1>6, <2>1
<1>8. Loop(loop)
  <2> HIDE DEF Loop
  <2> QED BY <1>7
<1>9. gf256_mul(a0, b0) = loop[Width - 1].res
  BY DEF gf256_mul
<1>10. /\ loop[0] = first
       /\ \A k \in 0 .. N - 1 : loop[k + 1] = Entry(Shift(loop[k]))
  <2> HIDE DEF first, Entry, Shift, N, loop
  <2>1. loop[0] = first
    BY <1>0, <1>8
  <2>2. ASSUME NEW k \in 0 .. N - 1 PROVE loop[k + 1] = Entry(Shift(loop[k]))
    <3>1. k + 1 \in 0 .. N /\ k + 1 # 0 /\ (k + 1) - 1 = k
      BY <1>0
    <3> QED BY <1>8, <3>1
  <2> QED BY <2>1, <2>2
<1>11. \A k \in 0 .. N : loop[k] \in States
  <2> DEFINE Yes == {k \in 0 .. N : loop[k] \in States}
  <2> HIDE DEF first, Entry, Shift, N, loop, States
  <2>1. 0 \in Yes
    BY <1>0, <1>3, <1>10
  <2>2. \A k \in 0 .. N - 1 : k \in Yes => k + 1 \in Yes
    BY <1>0, <1>1, <1>2, <1>10
  <2> HIDE DEF Yes
  <2>3. \A k \in 0 .. N : k \in Yes
    BY ONLY <1>0, <2>1, <2>2, InductTo
  <2> QED BY <2>3 DEF Yes
<1> HIDE DEF loop
<1>12. \A k \in 0 .. N - 1 :
         /\ loop[k + 1].a = Double(loop[k].a) /\ loop[k + 1].b = ShiftRight(loop[k].b)
         /\ loop[k + 1].res = IF 0 \in loop[k + 1].b THEN gf256_add(loop[k].res, loop[k + 1].a)
                                                    ELSE loop[k].res
  <2> SUFFICES ASSUME NEW k \in 0 .. N - 1
               PROVE  /\ loop[k + 1].a = Double(loop[k].a) /\ loop[k + 1].b = ShiftRight(loop[k].b)
                      /\ loop[k + 1].res = IF 0 \in loop[k + 1].b THEN gf256_add(loop[k].res, loop[k + 1].a)
                                                                 ELSE loop[k].res
    OBVIOUS
  <2>1. k \in 0 .. N /\ loop[k] \in States
    BY <1>0, <1>11
  <2>2. PICK v \in States : v = loop[k]
    BY <2>1
  <2>3. loop[k + 1] = Entry(Shift(v))
    BY <1>10, <2>2
  <2>4. Shift(v).a = Double(v.a) /\ Shift(v).b = ShiftRight(v.b) /\ Shift(v).res = v.res /\ Shift(v) \in States
    BY <1>2
  <2>5. \A w \in States : /\ Entry(w).a = w.a /\ Entry(w).b = w.b
                          /\ Entry(w).res = IF 0 \in w.b THEN gf256_add(w.res, w.a) ELSE w.res
    OBVIOUS
  <2> HIDE DEF Entry, Shift, States
  <2> QED BY <2>2, <2>3, <2>4, <2>5
<1>13. \A k \in 0 .. N : \A j \in Bits : j \in loop[k].b <=> j + k \in b0
  <2> DEFINE Yes == {k \in 0 .. N : \A j \in Bits : j \in loop[k].b <=> j + k \in b0}
  <2>1. 0 \in Yes
    <3>1. first.b = b0
      OBVIOUS
    <3>2. loop[0].b = b0
      BY ONLY <1>10, <3>1
    <3>3. \A j \in Bits : j + 0 = j
      BY FieldAssumption DEF Bits
    <3>4. 0 \in 0 .. N
      BY <1>0
    <3> QED BY <3>2, <3>3, <3>4
  <2>2. ASSUME NEW k \in 0 .. N - 1, k \in Yes PROVE k + 1 \in Yes
    <3>1. loop[k + 1].b = ShiftRight(loop[k].b) /\ k + 1 \in 0 .. N /\ k \in 0 .. N
      BY <1>0, <1>12
    <3>2. ASSUME NEW j \in Bits PROVE j \in loop[k + 1].b <=> j + (k + 1) \in b0
      <4>1. j \in loop[k + 1].b <=> j + 1 \in loop[k].b
        BY <3>1 DEF ShiftRight
      <4>2. CASE j + 1 \in Bits
        <5>1. j + 1 \in loop[k].b <=> (j + 1) + k \in b0
          BY <2>2, <4>2
        <5>2. (j + 1) + k = j + (k + 1)
          BY <1>0 DEF Bits
        <5> QED BY <4>1, <5>1, <5>2
      <4>3. CASE j + 1 \notin Bits
        <5>1. loop[k].b \in Byte
          BY <1>11, <3>1
        <5>2. j + (k + 1) \notin Bits
          BY <1>0, <4>3 DEF Bits
        <5> QED BY <4>1, <4>3, <5>1, <5>2 DEF Byte
      <4> QED BY <4>2, <4>3
    <3> QED BY <3>1, <3>2
  <2> HIDE DEF Yes
  <2>3. \A k \in 0 .. N : k \in Yes
    BY ONLY <1>0, <2>1, <2>2, InductTo
  <2> QED BY <2>3 DEF Yes
<1> DEFINE A == [k \in 0 .. Width - 1 |-> loop[k].a]
           S == [k \in 0 .. Width - 1 |-> loop[k].res]
<1>14. A \in [0 .. Width - 1 -> Byte] /\ S \in [0 .. Width - 1 -> Byte]
  BY <1>11
<1>15. A[0] = a0 /\ S[0] = IF 0 \in b0 THEN a0 ELSE {}
  <2>1. first.a = a0 /\ first.res = IF 0 \in b0 THEN a0 ELSE {}
    BY AddLaws
  <2>2. loop[0] = first
    BY ONLY <1>10
  <2>3. loop[0].a = a0 /\ loop[0].res = IF 0 \in b0 THEN a0 ELSE {}
    BY ONLY <2>1, <2>2
  <2>4. 0 \in 0 .. Width - 1
    BY FieldAssumption
  <2> QED BY <2>3, <2>4
<1>16. ASSUME NEW k \in 0 .. (Width - 1) - 1
       PROVE  /\ A[k + 1] = Double(A[k])
              /\ S[k + 1] = IF k + 1 \in b0 THEN gf256_add(S[k], A[k + 1]) ELSE S[k]
  <2>1. k \in 0 .. N - 1 /\ k + 1 \in 0 .. N /\ k \in 0 .. N /\ 0 \in Bits /\ 0 + (k + 1) = k + 1
    BY <1>0 DEF Bits
  <2>2. 0 \in loop[k + 1].b <=> k + 1 \in b0
    BY <1>13, <2>1
  <2> QED BY <1>12, <2>1, <2>2
<1>17. Runs(a0, b0, A, S)
  <2> HIDE DEF A, S
  <2> QED BY <1>14, <1>15, <1>16 DEF Runs
<1>18. gf256_mul(a0, b0) = S[Width - 1]
  BY <1>0, <1>9
<1> HIDE DEF A, S
<1> QED BY <1>17, <1>18

LEMMA WidthIs ==
  /\ Width \in Nat /\ Width - 1 \in Nat /\ Width - 1 \in 0 .. Width - 1 /\ 0 \in 0 .. Width - 1
  /\ Bits = 0 .. Width - 1 /\ IsFiniteSet(Bits)
  /\ \A k \in 0 .. (Width - 1) - 1 : k \in 0 .. Width - 1 /\ k + 1 \in 0 .. Width - 1
<1>1. Width \in Nat \ {0} /\ Bits = 0 .. Width - 1
  BY FieldAssumption DEF Bits
<1>2. IsFiniteSet(Bits)
  BY <1>1, FS_Interval
<1> QED BY <1>1, <1>2

LEMMA MulType ==
  ASSUME NEW a \in Byte, NEW b \in Byte
  PROVE  gf256_mul(a, b) \in Byte
<1>1. PICK A, S : Runs(a, b, A, S) /\ gf256_mul(a, b) = S[Width - 1]
  BY MulRuns
<1> QED BY <1>1, WidthIs DEF Runs

(* Doubling the first factor doubles the product. *)
LEMMA MulDouble ==
  ASSUME NEW a \in Byte, NEW b \in Byte
  PROVE  gf256_mul(Double(a), b) = Double(gf256_mul(a, b))
<1>0. Double(a) \in Byte
  BY DoubleLaws
<1>1. PICK A, S : Runs(a, b, A, S) /\ gf256_mul(a, b) = S[Width - 1]
  BY MulRuns
<1>2. PICK B, T : Runs(Double(a), b, B, T) /\ gf256_mul(Double(a), b) = T[Width - 1]
  BY <1>0, MulRuns
<1> DEFINE Yes == {k \in 0 .. Width - 1 : B[k] = Double(A[k]) /\ T[k] = Double(S[k])}
<1>3. 0 \in Yes
  BY <1>1, <1>2, DoubleLaws, WidthIs DEF Runs
<1>4. ASSUME NEW k \in 0 .. (Width - 1) - 1, k \in Yes PROVE k + 1 \in Yes
  <2>1. k \in 0 .. Width - 1 /\ k + 1 \in 0 .. Width - 1
    BY WidthIs
  <2>2. /\ A[k + 1] = Double(A[k]) /\ B[k + 1] = Double(B[k])
        /\ S[k + 1] = IF k + 1 \in b THEN gf256_add(S[k], A[k + 1]) ELSE S[k]
        /\ T[k + 1] = IF k + 1 \in b THEN gf256_add(T[k], B[k + 1]) ELSE T[k]
    BY <1>1, <1>2 DEF Runs
  <2>3. S[k] \in Byte /\ A[k + 1] \in Byte
    BY <1>1, <2>1 DEF Runs
  <2>4. B[k] = Double(A[k]) /\ T[k] = Double(S[k])
    BY <1>4
  <2>5. Double(gf256_add(S[k], A[k + 1])) = gf256_add(Double(S[k]), Double(A[k + 1]))
    BY <2>3, DoubleLaws
  <2> QED BY ONLY <2>1, <2>2, <2>4, <2>5
<1> HIDE DEF Yes
<1>5. \A k \in 0 .. Width - 1 : k \in Yes
  BY ONLY <1>3, <1>4, InductTo, WidthIs
<1> QED BY <1>1, <1>2, <1>5, WidthIs DEF Yes

LEMMA Shuffle ==
  \A u, v, w, z \in Byte : gf256_add(gf256_add(u, v), gf256_add(w, z))
                        = gf256_add(gf256_add(u, w), gf256_add(v, z))
BY DEF gf256_add

(* Multiplication distributes over addition, on either side. *)
LEMMA MulLeft ==
  ASSUME NEW a1 \in Byte, NEW a2 \in Byte, NEW b \in Byte
  PROVE  gf256_mul(gf256_add(a1, a2), b) = gf256_add(gf256_mul(a1, b), gf256_mul(a2, b))
<1>0. gf256_add(a1, a2) \in Byte
  BY AddLaws
<1>1. PICK A, S : Runs(a1, b, A, S) /\ gf256_mul(a1, b) = S[Width - 1]
  BY MulRuns
<1>2. PICK B, T : Runs(a2, b, B, T) /\ gf256_mul(a2, b) = T[Width - 1]
  BY MulRuns
<1>3. PICK C, U : Runs(gf256_add(a1, a2), b, C, U) /\ gf256_mul(gf256_add(a1, a2), b) = U[Width - 1]
  BY <1>0, MulRuns
<1> DEFINE Yes == {k \in 0 .. Width - 1 : /\ C[k] = gf256_add(A[k], B[k])
                                         /\ U[k] = gf256_add(S[k], T[k])}
<1>4. 0 \in Yes
  <2>1. {} = gf256_add({}, {})
    BY AddLaws
  <2> QED BY <1>1, <1>2, <1>3, <2>1, WidthIs DEF Runs
<1>5. ASSUME NEW k \in 0 .. (Width - 1) - 1, k \in Yes PROVE k + 1 \in Yes
  <2>1. k \in 0 .. Width - 1 /\ k + 1 \in 0 .. Width - 1
    BY WidthIs
  <2>2. /\ A[k + 1] = Double(A[k]) /\ B[k + 1] = Double(B[k]) /\ C[k + 1] = Double(C[k])
        /\ S[k + 1] = IF k + 1 \in b THEN gf256_add(S[k], A[k + 1]) ELSE S[k]
        /\ T[k + 1] = IF k + 1 \in b THEN gf256_add(T[k], B[k + 1]) ELSE T[k]
        /\ U[k + 1] = IF k + 1 \in b THEN gf256_add(U[k], C[k + 1]) ELSE U[k]
    BY <1>1, <1>2, <1>3 DEF Runs
  <2>3. /\ S[k] \in Byte /\ A[k + 1] \in Byte /\ A[k] \in Byte
        /\ T[k] \in Byte /\ B[k + 1] \in Byte /\ B[k] \in Byte
    BY <1>1, <1>2, <2>1 DEF Runs
  <2>4. C[k] = gf256_add(A[k], B[k]) /\ U[k] = gf256_add(S[k], T[k])
    BY <1>5
  <2>5. C[k + 1] = gf256_add(A[k + 1], B[k + 1])
    BY <2>2, <2>3, <2>4, DoubleLaws
  <2>6. U[k + 1] = gf256_add(S[k + 1], T[k + 1])
    BY ONLY <2>2, <2>3, <2>4, <2>5, Shuffle
  <2> QED BY ONLY <2>1, <2>5, <2>6
<1> HIDE DEF Yes
<1>6. \A k \in 0 .. Width - 1 : k \in Yes
  BY ONLY <1>4, <1>5, InductTo, WidthIs
<1> QED BY <1>1, <1>2, <1>3, <1>6, WidthIs DEF Yes

LEMMA MulRight ==
  ASSUME NEW a \in Byte, NEW b1 \in Byte, NEW b2 \in Byte
  PROVE  gf256_mul(a, gf256_add(b1, b2)) = gf256_add(gf256_mul(a, b1), gf256_mul(a, b2))
<1>0. gf256_add(b1, b2) \in Byte
  BY AddLaws
<1>1. PICK A, S : Runs(a, b1, A, S) /\ gf256_mul(a, b1) = S[Width - 1]
  BY MulRuns
<1>2. PICK B, T : Runs(a, b2, B, T) /\ gf256_mul(a, b2) = T[Width - 1]
  BY MulRuns
<1>3. PICK C, U : Runs(a, gf256_add(b1, b2), C, U) /\ gf256_mul(a, gf256_add(b1, b2)) = U[Width - 1]
  BY <1>0, MulRuns
<1> DEFINE Yes == {k \in 0 .. Width - 1 : A[k] = B[k] /\ A[k] = C[k] /\ U[k] = gf256_add(S[k], T[k])}
<1>9. \A k : k \in gf256_add(b1, b2) <=> ~(k \in b1 <=> k \in b2)
  BY DEF gf256_add
<1>4. 0 \in Yes
  <2>1. {} = gf256_add({}, {}) /\ a = gf256_add({}, a) /\ a = gf256_add(a, {}) /\ {} = gf256_add(a, a)
    BY AddLaws
  <2>2. /\ A[0] = a /\ S[0] = IF 0 \in b1 THEN a ELSE {}
        /\ B[0] = a /\ T[0] = IF 0 \in b2 THEN a ELSE {}
        /\ C[0] = a /\ U[0] = IF 0 \in gf256_add(b1, b2) THEN a ELSE {}
    BY <1>1, <1>2, <1>3 DEF Runs
  <2> QED BY <1>9, <2>1, <2>2, WidthIs
<1>5. ASSUME NEW k \in 0 .. (Width - 1) - 1, k \in Yes PROVE k + 1 \in Yes
  <2>1. k \in 0 .. Width - 1 /\ k + 1 \in 0 .. Width - 1
    BY WidthIs
  <2>2. /\ A[k + 1] = Double(A[k]) /\ B[k + 1] = Double(B[k]) /\ C[k + 1] = Double(C[k])
        /\ S[k + 1] = IF k + 1 \in b1 THEN gf256_add(S[k], A[k + 1]) ELSE S[k]
        /\ T[k + 1] = IF k + 1 \in b2 THEN gf256_add(T[k], B[k + 1]) ELSE T[k]
        /\ U[k + 1] = IF k + 1 \in gf256_add(b1, b2) THEN gf256_add(U[k], C[k + 1]) ELSE U[k]
    BY <1>1, <1>2, <1>3 DEF Runs
  <2>3. S[k] \in Byte /\ T[k] \in Byte /\ A[k + 1] \in Byte
    BY <1>1, <1>2, <2>1 DEF Runs
  <2>4. A[k] = B[k] /\ A[k] = C[k] /\ U[k] = gf256_add(S[k], T[k])
    BY <1>5
  <2>5. \A u, v, w \in Byte :
          /\ gf256_add(gf256_add(u, v), w) = gf256_add(gf256_add(u, w), v)
          /\ gf256_add(gf256_add(u, v), w) = gf256_add(u, gf256_add(v, w))
          /\ gf256_add(gf256_add(u, w), gf256_add(v, w)) = gf256_add(u, v)
    BY DEF gf256_add
  <2>6. A[k + 1] = B[k + 1] /\ A[k + 1] = C[k + 1]
    BY <2>2, <2>4
  <2>7. U[k + 1] = gf256_add(S[k + 1], T[k + 1])
    <3>1. PICK u \in Byte, v \in Byte, w \in Byte : u = S[k] /\ v = T[k] /\ w = A[k + 1]
      BY <2>3
    <3>2. CASE k + 1 \in b1 /\ k + 1 \in b2
      BY ONLY <3>1, <3>2, <1>9, <2>2, <2>4, <2>5, <2>6
    <3>3. CASE k + 1 \in b1 /\ k + 1 \notin b2
      BY ONLY <3>1, <3>3, <1>9, <2>2, <2>4, <2>5, <2>6
    <3>4. CASE k + 1 \notin b1 /\ k + 1 \in b2
      BY ONLY <3>1, <3>4, <1>9, <2>2, <2>4, <2>5, <2>6
    <3>5. CASE k + 1 \notin b1 /\ k + 1 \notin b2
      BY ONLY <3>1, <3>5, <1>9, <2>2, <2>4, <2>5, <2>6
    <3> QED BY <3>2, <3>3, <3>4, <3>5
  <2> QED BY ONLY <2>1, <2>6, <2>7
<1> HIDE DEF Yes
<1>6. \A k \in 0 .. Width - 1 : k \in Yes
  BY ONLY <1>4, <1>5, InductTo, WidthIs
<1> QED BY <1>1, <1>2, <1>3, <1>6, WidthIs DEF Yes

(* The factors with no bit and with one bit. *)
LEMMA MulZero ==
  ASSUME NEW a \in Byte
  PROVE  gf256_mul(a, {}) = {} /\ gf256_mul({}, a) = {}
<1>1. {} \in Byte /\ gf256_add({}, {}) = {} /\ \A m \in Byte : gf256_add(m, m) = {}
  BY AddLaws
<1>2. gf256_mul(a, {}) \in Byte /\ gf256_mul({}, a) \in Byte
  BY <1>1, MulType
<1>3. gf256_mul(a, gf256_add({}, {})) = gf256_add(gf256_mul(a, {}), gf256_mul(a, {}))
  BY <1>1, MulRight
<1>4. gf256_mul(gf256_add({}, {}), a) = gf256_add(gf256_mul({}, a), gf256_mul({}, a))
  BY <1>1, MulLeft
<1> QED BY ONLY <1>1, <1>2, <1>3, <1>4

LEMMA OneBit ==
  /\ \A j \in Bits : {j} \in Byte
  /\ \A k \in 0 .. (Width - 1) - 1 : Double({k}) = {k + 1}
<1>1. \A j \in Bits : {j} \in Byte
  BY DEF Byte
<1>2. ASSUME NEW k \in 0 .. (Width - 1) - 1 PROVE Double({k}) = {k + 1}
  <2>1. k \in Int /\ k # Width - 1 /\ k + 1 \in Bits /\ Bits \subseteq Int
    BY WidthIs
  <2>2. ShiftLeft({k}) = {k + 1}
    BY <2>1 DEF ShiftLeft
  <2>3. {k + 1} \in Byte
    BY <1>1, <2>1
  <2> QED BY <2>1, <2>2, <2>3, AddLaws DEF Double
<1> QED BY <1>1, <1>2

(* One is neutral. *)
LEMMA MulOne ==
  ASSUME NEW b \in Byte
  PROVE  gf256_mul(One, b) = b
<1>0. One \in Byte
  BY AddLaws
<1>1. PICK A, S : Runs(One, b, A, S) /\ gf256_mul(One, b) = S[Width - 1]
  BY <1>0, MulRuns
<1> DEFINE Yes == {k \in 0 .. Width - 1 : A[k] = {k} /\ S[k] = b \cap (0 .. k)}
<1>2. 0 \in Yes
  <2>1. A[0] = {0} /\ S[0] = IF 0 \in b THEN {0} ELSE {}
    BY <1>1 DEF Runs, One
  <2>2. 0 .. 0 = {0}
    OBVIOUS
  <2> QED BY <2>1, <2>2, WidthIs
<1>3. ASSUME NEW k \in 0 .. (Width - 1) - 1, k \in Yes PROVE k + 1 \in Yes
  <2>1. k \in 0 .. Width - 1 /\ k + 1 \in 0 .. Width - 1
    BY WidthIs
  <2>2. /\ A[k + 1] = Double(A[k])
        /\ S[k + 1] = IF k + 1 \in b THEN gf256_add(S[k], A[k + 1]) ELSE S[k]
    BY <1>1 DEF Runs
  <2>3. A[k + 1] = {k + 1} /\ S[k] = b \cap (0 .. k)
    BY <1>3, <2>2, OneBit
  <2>4. 0 .. k + 1 = (0 .. k) \cup {k + 1} /\ k + 1 \notin 0 .. k
    BY <2>1
  <2>5. S[k + 1] = b \cap (0 .. k + 1)
    BY <2>2, <2>3, <2>4 DEF gf256_add
  <2> QED BY <2>1, <2>3, <2>5
<1> HIDE DEF Yes
<1>4. \A k \in 0 .. Width - 1 : k \in Yes
  BY ONLY <1>2, <1>3, InductTo, WidthIs
<1>5. S[Width - 1] = b \cap Bits
  BY <1>4, WidthIs DEF Yes
<1> QED BY <1>1, <1>5 DEF Byte

(* Multiplying by one bit is doubling so many times, on either side. *)
LEMMA MulBit ==
  ASSUME NEW a \in Byte, NEW j \in Bits
  PROVE  gf256_mul(a, {j}) = gf256_mul({j}, a)
<1>0. j \in 0 .. Width - 1 /\ {j} \in Byte
  BY OneBit, WidthIs
<1>1. PICK A, S : Runs(a, {j}, A, S) /\ gf256_mul(a, {j}) = S[Width - 1]
  BY <1>0, MulRuns
<1> DEFINE Left  == {k \in 0 .. Width - 1 : A[k] = gf256_mul({k}, a)}
           Right == {k \in 0 .. Width - 1 : S[k] = IF k < j THEN {} ELSE A[j]}
<1>2. \A k \in 0 .. Width - 1 : k \in Left
  <2>1. 0 \in Left
    <3>1. A[0] = a /\ gf256_mul({0}, a) = a
      BY <1>1, MulOne DEF Runs, One
    <3> QED BY <3>1, WidthIs
  <2>2. ASSUME NEW k \in 0 .. (Width - 1) - 1, k \in Left PROVE k + 1 \in Left
    <3>1. k \in 0 .. Width - 1 /\ k + 1 \in 0 .. Width - 1 /\ {k} \in Byte
      BY WidthIs, OneBit
    <3>2. A[k + 1] = Double(A[k])
      BY <1>1 DEF Runs
    <3>3. gf256_mul(Double({k}), a) = Double(gf256_mul({k}, a)) /\ Double({k}) = {k + 1}
      BY <3>1, MulDouble, OneBit
    <3> QED BY <2>2, <3>1, <3>2, <3>3
  <2> HIDE DEF Left
  <2> QED BY ONLY <2>1, <2>2, InductTo, WidthIs
<1>3. \A k \in 0 .. Width - 1 : k \in Right
  <2>1. 0 \in Right
    <3>1. A[0] = a /\ S[0] = IF 0 \in {j} THEN a ELSE {}
      BY <1>1 DEF Runs
    <3>2. 0 < j \/ 0 = j
      BY <1>0
    <3>3. ~(0 < 0)
      OBVIOUS
    <3> QED BY <1>0, <3>1, <3>2, <3>3, WidthIs
  <2>2. ASSUME NEW k \in 0 .. (Width - 1) - 1, k \in Right PROVE k + 1 \in Right
    <3>1. k \in 0 .. Width - 1 /\ k + 1 \in 0 .. Width - 1
      BY WidthIs
    <3>2. /\ S[k + 1] = IF k + 1 \in {j} THEN gf256_add(S[k], A[k + 1]) ELSE S[k]
          /\ A[k + 1] \in Byte
      BY <1>1, <3>1 DEF Runs
    <3>3. CASE k + 1 = j
      <4>1. k < j /\ ~(k + 1 < j)
        BY <1>0, <3>1, <3>3
      <4>2. S[k + 1] = gf256_add({}, A[k + 1])
        BY <2>2, <3>2, <3>3, <4>1
      <4> QED BY <3>1, <3>2, <3>3, <4>1, <4>2, AddLaws
    <3>4. CASE k + 1 # j
      <4>1. k < j <=> k + 1 < j
        BY <1>0, <3>1, <3>4
      <4>2. S[k + 1] = S[k]
        BY <3>2, <3>4
      <4> QED BY <2>2, <3>1, <4>1, <4>2
    <3> QED BY <3>3, <3>4
  <2> HIDE DEF Right
  <2> QED BY ONLY <2>1, <2>2, InductTo, WidthIs
<1>4. ~(Width - 1 < j)
  <2>1. Width \in Nat /\ j \in 0 .. Width - 1
    BY <1>0, WidthIs
  <2> QED BY ONLY <2>1
<1>5. A[j] = gf256_mul({j}, a)
  BY <1>0, <1>2
<1>6. S[Width - 1] = A[j]
  <2>1. Width - 1 \in Right
    BY <1>3, WidthIs
  <2> QED BY <1>4, <2>1
<1> QED BY ONLY <1>1, <1>5, <1>6

LEMMA AddBit ==
  ASSUME NEW b \in Byte, NEW j \in Bits \ b
  PROVE  b \cup {j} = gf256_add(b, {j})
BY DEF gf256_add

LEMMA MulCommutes ==
  ASSUME NEW a \in Byte, NEW b \in Byte
  PROVE  gf256_mul(a, b) = gf256_mul(b, a)
<1> DEFINE Yes == {x \in Byte : gf256_mul(a, x) = gf256_mul(x, a)}
<1>1. {} \in Yes
  BY MulZero, AddLaws
<1>2. ASSUME NEW x \in SUBSET Bits, NEW j \in Bits \ x, x \in Yes PROVE x \cup {j} \in Yes
  <2>1. x \in Byte /\ {j} \in Byte /\ x \cup {j} \in Byte /\ x \cup {j} = gf256_add(x, {j})
    BY AddBit DEF Byte
  <2>2. gf256_mul(a, gf256_add(x, {j})) = gf256_add(gf256_mul(a, x), gf256_mul(a, {j}))
    BY <2>1, MulRight
  <2>3. gf256_mul(gf256_add(x, {j}), a) = gf256_add(gf256_mul(x, a), gf256_mul({j}, a))
    BY <2>1, MulLeft
  <2>4. gf256_mul(a, {j}) = gf256_mul({j}, a)
    BY MulBit
  <2> QED BY <1>2, <2>1, <2>2, <2>3, <2>4
<1> HIDE DEF Yes
<1>3. \A x \in SUBSET Bits : x \in Yes
  BY ONLY <1>1, <1>2, InductSets, WidthIs
<1> QED BY <1>3 DEF Yes, Byte

LEMMA MulAssociates ==
  ASSUME NEW a \in Byte, NEW b \in Byte, NEW c \in Byte
  PROVE  gf256_mul(gf256_mul(a, b), c) = gf256_mul(a, gf256_mul(b, c))
<1> DEFINE Same(x) == gf256_mul(gf256_mul(x, b), c) = gf256_mul(x, gf256_mul(b, c))
           Bit == {k \in 0 .. Width - 1 : Same({k})}
           Yes == {x \in Byte : Same(x)}
<1>0. gf256_mul(b, c) \in Byte
  BY MulType
<1>1. \A k \in 0 .. Width - 1 : k \in Bit
  <2>1. 0 \in Bit
    BY <1>0, MulOne, WidthIs DEF One
  <2>2. ASSUME NEW k \in 0 .. (Width - 1) - 1, k \in Bit PROVE k + 1 \in Bit
    <3>1. /\ k \in 0 .. Width - 1 /\ k + 1 \in 0 .. Width - 1
          /\ {k} \in Byte /\ Double({k}) = {k + 1} /\ gf256_mul({k}, b) \in Byte
      BY WidthIs, OneBit, MulType
    <3>2. gf256_mul({k + 1}, b) = Double(gf256_mul({k}, b))
      BY <3>1, MulDouble
    <3>3. gf256_mul(gf256_mul({k + 1}, b), c) = Double(gf256_mul(gf256_mul({k}, b), c))
      BY <3>1, <3>2, MulDouble
    <3>4. gf256_mul({k + 1}, gf256_mul(b, c)) = Double(gf256_mul({k}, gf256_mul(b, c)))
      BY <1>0, <3>1, MulDouble
    <3> QED BY <2>2, <3>1, <3>3, <3>4
  <2> HIDE DEF Bit
  <2> QED BY ONLY <2>1, <2>2, InductTo, WidthIs
<1>2. {} \in Yes
  BY <1>0, MulZero, AddLaws
<1>3. ASSUME NEW x \in SUBSET Bits, NEW j \in Bits \ x, x \in Yes PROVE x \cup {j} \in Yes
  <2>1. /\ x \in Byte /\ {j} \in Byte /\ x \cup {j} \in Byte /\ x \cup {j} = gf256_add(x, {j})
        /\ gf256_mul(x, b) \in Byte /\ gf256_mul({j}, b) \in Byte
    BY AddBit, MulType DEF Byte
  <2>2. gf256_mul(gf256_add(x, {j}), b) = gf256_add(gf256_mul(x, b), gf256_mul({j}, b))
    BY <2>1, MulLeft
  <2>3. gf256_mul(gf256_add(gf256_mul(x, b), gf256_mul({j}, b)), c)
          = gf256_add(gf256_mul(gf256_mul(x, b), c), gf256_mul(gf256_mul({j}, b), c))
    BY <2>1, MulLeft
  <2>4. gf256_mul(gf256_add(x, {j}), gf256_mul(b, c))
          = gf256_add(gf256_mul(x, gf256_mul(b, c)), gf256_mul({j}, gf256_mul(b, c)))
    BY <1>0, <2>1, MulLeft
  <2>5. Same({j}) /\ Same(x)
    BY <1>1, <1>3, WidthIs
  <2> QED BY <2>1, <2>2, <2>3, <2>4, <2>5
<1> HIDE DEF Yes
<1>4. \A x \in SUBSET Bits : x \in Yes
  BY ONLY <1>2, <1>3, InductSets, WidthIs
<1> QED BY <1>4 DEF Yes, Byte
------------------------------------------------------------------------------
(***************************************************************************)
(* Folds, of which Weight and InterpolateByte are made: any element may    *)
(* come last, so that they are products and sums.                          *)
(***************************************************************************)

(* Folds over a finite set S take the element that Pick chooses first.     *)
Pick(T) == CHOOSE x \in T : TRUE

IsFold(it, S, base, G) ==
  it = [T \in SUBSET S |-> IF T = {} THEN base ELSE G[<<Pick(T), it[T \ {Pick(T)}]>>]]

LEMMA PickIs ==
  ASSUME NEW S, NEW T \in SUBSET S, T # {}
  PROVE  Pick(T) \in T /\ Pick(T) \in S /\ T \ {Pick(T)} \in SUBSET S
BY DEF Pick

LEMMA SizeWithout ==
  ASSUME NEW S, IsFiniteSet(S), NEW T \in SUBSET S, NEW a \in T
  PROVE  Cardinality(T) \in Nat /\ Cardinality(T) >= 1 /\ Cardinality(T \ {a}) = Cardinality(T) - 1
<1>1. IsFiniteSet(T)
  BY FS_Subset
<1>2. Cardinality(T \ {a}) = Cardinality(T) - 1 /\ IsFiniteSet(T \ {a})
  BY <1>1, FS_RemoveElement
<1>3. Cardinality(T) \in Nat /\ Cardinality(T \ {a}) \in Nat
  BY <1>1, <1>2, FS_CardinalityType
<1> QED BY <1>2, <1>3

(* Induction along a fold. *)
LEMMA InductFold ==
  ASSUME NEW S, IsFiniteSet(S), NEW Yes, {} \in Yes,
         \A T \in SUBSET S : T # {} /\ T \ {Pick(T)} \in Yes => T \in Yes
  PROVE  \A T \in SUBSET S : T \in Yes
<1> DEFINE Sizes == {k \in Nat : \A T \in SUBSET S : Cardinality(T) = k => T \in Yes}
<1>1. 0 \in Sizes
  BY FS_EmptySet, FS_Subset
<1>2. ASSUME NEW k \in Nat, k \in Sizes PROVE k + 1 \in Sizes
  <2> SUFFICES ASSUME NEW T \in SUBSET S, Cardinality(T) = k + 1 PROVE T \in Yes
    OBVIOUS
  <2>1. T # {}
    BY ONLY k \in Nat, Cardinality(T) = k + 1, FS_EmptySet
  <2>2. Pick(T) \in T /\ T \ {Pick(T)} \in SUBSET S
    BY <2>1, PickIs
  <2>3. Cardinality(T \ {Pick(T)}) = k
    BY <2>2, SizeWithout
  <2>4. T \ {Pick(T)} \in Yes
    BY <1>2, <2>2, <2>3
  <2> QED BY <2>1, <2>4
<1>3. \A k \in Nat : k \in Sizes
  <2> HIDE DEF Sizes
  <2> QED BY <1>1, <1>2, Induct
<1> QED BY <1>3, FS_Subset, FS_CardinalityType

LEMMA FoldExists ==
  ASSUME NEW S, IsFiniteSet(S), NEW V, NEW base \in V, NEW G \in [S \X V -> V]
  PROVE  \E it \in [SUBSET S -> V] : IsFold(it, S, base, G)
<1> DEFINE Upto(it, k) == \A T \in SUBSET S : Cardinality(T) <= k =>
                 it[T] = IF T = {} THEN base ELSE G[<<Pick(T), it[T \ {Pick(T)}]>>]
           Have == {k \in Nat : \E it \in [SUBSET S -> V] : Upto(it, k)}
<1>0. \A T \in SUBSET S : Cardinality(T) \in Nat /\ (Cardinality(T) = 0 <=> T = {})
  BY FS_Subset, FS_CardinalityType, FS_EmptySet
<1>1. 0 \in Have
  <2>1. [T \in SUBSET S |-> base] \in [SUBSET S -> V]
    OBVIOUS
  <2>2. Upto([T \in SUBSET S |-> base], 0)
    BY <1>0
  <2> HIDE DEF Upto
  <2> QED BY <2>1, <2>2
<1>2. ASSUME NEW k \in Nat, k \in Have PROVE k + 1 \in Have
  <2>1. PICK f \in [SUBSET S -> V] : Upto(f, k)
    BY <1>2
  <2> DEFINE At(T) == IF T = {} THEN base ELSE G[<<Pick(T), f[T \ {Pick(T)}]>>]
             g == [T \in SUBSET S |-> At(T)]
  <2>2. \A T \in SUBSET S : At(T) \in V
    BY PickIs
  <2>3. g \in [SUBSET S -> V]
    <3> HIDE DEF At
    <3> QED BY <2>2
  <2>4. \A T \in SUBSET S : Cardinality(T) <= k => g[T] = f[T]
    BY <2>1
  <2>5. ASSUME NEW T \in SUBSET S, Cardinality(T) <= k + 1, T # {}
        PROVE  g[T] = G[<<Pick(T), g[T \ {Pick(T)}]>>]
    <3>1. Pick(T) \in T /\ T \ {Pick(T)} \in SUBSET S
      BY <2>5, PickIs
    <3>2. Cardinality(T \ {Pick(T)}) <= k
      BY <2>5, <3>1, SizeWithout
    <3>3. g[T \ {Pick(T)}] = f[T \ {Pick(T)}]
      BY <2>4, <3>1, <3>2
    <3>4. g[T] = G[<<Pick(T), f[T \ {Pick(T)}]>>]
      BY <2>5
    <3> QED BY ONLY <3>3, <3>4
  <2>6. g[{}] = base
    OBVIOUS
  <2>7. Upto(g, k + 1)
    <3> HIDE DEF g
    <3> QED BY <2>5, <2>6
  <2> HIDE DEF g, Upto
  <2> QED BY <2>3, <2>7
<1>3. Cardinality(S) \in Have
  <2>1. \A k \in Nat : k \in Have
    <3> HIDE DEF Have
    <3> QED BY <1>1, <1>2, Induct
  <2> QED BY <2>1, FS_CardinalityType
<1>4. PICK it \in [SUBSET S -> V] : Upto(it, Cardinality(S))
  BY <1>3
<1>5. \A T \in SUBSET S : Cardinality(T) <= Cardinality(S)
  BY FS_Subset
<1>6. \A T \in SUBSET S : it[T] = IF T = {} THEN base ELSE G[<<Pick(T), it[T \ {Pick(T)}]>>]
  BY <1>4, <1>5
<1>7. it = [T \in SUBSET S |-> it[T]]
  OBVIOUS
<1> QED BY <1>6, <1>7 DEF IsFold

Swaps(G, S, V) == \A x, y \in S : \A w \in V : G[<<x, G[<<y, w>>]>>] = G[<<y, G[<<x, w>>]>>]

Splits(it, S, base, G) ==
  /\ it[{}] = base
  /\ \A T \in SUBSET S : \A a \in S \ T : it[T \cup {a}] = G[<<a, it[T]>>]

(* If the order does not matter, any element may come last. *)
LEMMA FoldSplit ==
  ASSUME NEW S, IsFiniteSet(S), NEW V, NEW base \in V, NEW G \in [S \X V -> V],
         Swaps(G, S, V), NEW it \in [SUBSET S -> V], IsFold(it, S, base, G)
  PROVE  Splits(it, S, base, G)
<1>1. \A T \in SUBSET S : it[T] = IF T = {} THEN base ELSE G[<<Pick(T), it[T \ {Pick(T)}]>>]
  BY ONLY IsFold(it, S, base, G) DEF IsFold
<1> DEFINE Sizes == {k \in Nat : \A T \in SUBSET S : \A a \in S \ T :
                        Cardinality(T) = k => it[T \cup {a}] = G[<<a, it[T]>>]}
<1>2. ASSUME NEW T \in SUBSET S, NEW a \in S \ T, Pick(T \cup {a}) = a
      PROVE  it[T \cup {a}] = G[<<a, it[T]>>]
  <2>1. T \cup {a} \in SUBSET S /\ T \cup {a} # {} /\ (T \cup {a}) \ {a} = T
    OBVIOUS
  <2> QED BY <1>1, <1>2, <2>1
<1>3. 0 \in Sizes
  <2> SUFFICES ASSUME NEW T \in SUBSET S, NEW a \in S \ T, Cardinality(T) = 0
               PROVE  it[T \cup {a}] = G[<<a, it[T]>>]
    OBVIOUS
  <2>1. T = {}
    BY FS_EmptySet, FS_Subset
  <2>2. T \cup {a} \in SUBSET S /\ T \cup {a} # {} /\ T \cup {a} = {a}
    BY <2>1
  <2>3. Pick(T \cup {a}) = a
    <3>1. Pick({a}) = a
      BY ONLY DEF Pick
    <3> QED BY ONLY <2>2, <3>1
  <2> QED BY <1>2, <2>3
<1>4. ASSUME NEW k \in Nat, k \in Sizes PROVE k + 1 \in Sizes
  <2>1. ASSUME NEW T \in SUBSET S, NEW a \in S \ T, Cardinality(T) = k + 1
        PROVE  it[T \cup {a}] = G[<<a, it[T]>>]
    <3>1. CASE Pick(T \cup {a}) = a
      BY <1>2, <3>1
    <3>2. CASE Pick(T \cup {a}) # a
      <4>1. T \cup {a} \in SUBSET S /\ T \cup {a} # {}
        BY ONLY T \in SUBSET S, a \in S \ T
      <4>2. Pick(T \cup {a}) \in T \cup {a}
        <5>1. \E x : x \in T \cup {a}
          OBVIOUS
        <5> QED BY ONLY <5>1 DEF Pick
      <4>3. PICK c \in T : c = Pick(T \cup {a})
        BY ONLY <3>2, <4>2
      <4> DEFINE U == T \ {c}
      <4>4. /\ U \in SUBSET S /\ a \in S \ U /\ c \in S \ U
        BY ONLY T \in SUBSET S, a \in S \ T, c \in T
      <4>5. U \cup {c} = T /\ U \cup {a} = (T \cup {a}) \ {c}
        BY ONLY T \in SUBSET S, a \in S \ T, c \in T
      <4>6. /\ U \in SUBSET S /\ a \in S \ U /\ c \in S \ U
            /\ U \cup {c} = T /\ U \cup {a} = (T \cup {a}) \ {c}
            /\ T \cup {a} \in SUBSET S /\ T \cup {a} # {}
        BY ONLY <4>1, <4>4, <4>5
      <4>7. Cardinality(U) = k
        <5>1. Cardinality(T \ {c}) = Cardinality(T) - 1
          BY ONLY IsFiniteSet(S), T \in SUBSET S, c \in T, SizeWithout
        <5> QED BY ONLY <5>1, <2>1, k \in Nat
      <4> HIDE DEF U
      <4>8. it[U \cup {a}] = G[<<a, it[U]>>] /\ it[U \cup {c}] = G[<<c, it[U]>>] /\ it[U] \in V
        BY <1>4, <4>6, <4>7
      <4>9. it[T \cup {a}] = G[<<c, it[U \cup {a}]>>]
        BY <1>1, <4>3, <4>6
      <4>10. G[<<c, G[<<a, it[U]>>]>>] = G[<<a, G[<<c, it[U]>>]>>]
        BY <4>6, <4>8 DEF Swaps
      <4> QED BY ONLY <4>6, <4>8, <4>9, <4>10
    <3> QED BY <3>1, <3>2
  <2>2. k + 1 \in Nat
    OBVIOUS
  <2> QED BY ONLY <2>1, <2>2
<1>5. \A k \in Nat : k \in Sizes
  <2> HIDE DEF Sizes
  <2> QED BY <1>3, <1>4, Induct
<1>6. \A T \in SUBSET S : Cardinality(T) \in Nat
  BY FS_Subset, FS_CardinalityType
<1>7. it[{}] = base
  BY <1>1
<1>8. \A T \in SUBSET S : Cardinality(T) \in Sizes
  BY ONLY <1>5, <1>6
<1> QED BY ONLY <1>7, <1>8 DEF Splits
------------------------------------------------------------------------------
(***************************************************************************)
(* Interpolation.                                                          *)
(***************************************************************************)

(* The bytes with gf256_add and gf256_mul are a commutative ring, whatever *)
(* the polynomial; that there are inverses is InverseAssumption.           *)
THEOREM FieldLaws ==
  /\ {} \in Byte /\ One \in Byte
  /\ \A a, b \in Byte : gf256_add(a, b) \in Byte /\ gf256_add(a, b) = gf256_add(b, a)
  /\ \A a, b, c \in Byte : gf256_add(gf256_add(a, b), c) = gf256_add(a, gf256_add(b, c))
  /\ \A a \in Byte : gf256_add(a, {}) = a /\ gf256_add({}, a) = a /\ gf256_add(a, a) = {}
  /\ \A a, b \in Byte : gf256_mul(a, b) \in Byte /\ gf256_mul(a, b) = gf256_mul(b, a)
  /\ \A a, b, c \in Byte : gf256_mul(gf256_mul(a, b), c) = gf256_mul(a, gf256_mul(b, c))
  /\ \A a, b, c \in Byte : gf256_mul(a, gf256_add(b, c)) = gf256_add(gf256_mul(a, b), gf256_mul(a, c))
  /\ \A a \in Byte : gf256_mul(a, One) = a /\ gf256_mul(One, a) = a
  /\ \A a \in Byte : gf256_mul(a, {}) = {} /\ gf256_mul({}, a) = {}
<1>1. \A a \in Byte : gf256_mul(a, One) = a /\ gf256_mul(One, a) = a
  BY AddLaws, MulOne, MulCommutes
<1>2. \A a, b \in Byte : gf256_mul(a, b) \in Byte /\ gf256_mul(a, b) = gf256_mul(b, a)
  BY MulType, MulCommutes
<1>3. \A a, b, c \in Byte : gf256_mul(gf256_mul(a, b), c) = gf256_mul(a, gf256_mul(b, c))
  BY MulAssociates
<1>4. \A a, b, c \in Byte : gf256_mul(a, gf256_add(b, c)) = gf256_add(gf256_mul(a, b), gf256_mul(a, c))
  BY MulRight
<1>5. \A a \in Byte : gf256_mul(a, {}) = {} /\ gf256_mul({}, a) = {}
  BY MulZero
<1> QED BY ONLY <1>1, <1>2, <1>3, <1>4, <1>5, AddLaws

(* The folds of Weight and of InterpolateByte, in which any element may    *)
(* come last.                                                              *)
MulFold(it, S, F) ==
  it = [T \in SUBSET S |-> IF T = {} THEN One ELSE gf256_mul(it[T \ {Pick(T)}], F[Pick(T)])]
IsProduct(it, S, F) ==
  /\ it \in [SUBSET S -> Byte] /\ it[{}] = One
  /\ \A T \in SUBSET S : \A a \in S \ T : it[T \cup {a}] = gf256_mul(it[T], F[a])

LEMMA ProductFolds ==
  ASSUME NEW S, IsFiniteSet(S), NEW F \in [S -> Byte]
  PROVE  /\ \E it : MulFold(it, S, F)
         /\ \A it : MulFold(it, S, F) => IsProduct(it, S, F)
<1> DEFINE G == [p \in S \X Byte |-> gf256_mul(p[2], F[p[1]])]
<1>1. \A x \in S : \A w \in Byte : G[<<x, w>>] = gf256_mul(w, F[x]) /\ G[<<x, w>>] \in Byte
  BY FieldLaws
<1>2. G \in [S \X Byte -> Byte]
  BY FieldLaws
<1>3. ASSUME NEW x \in S, NEW y \in S, NEW w \in Byte
      PROVE  G[<<x, G[<<y, w>>]>>] = G[<<y, G[<<x, w>>]>>]
  <2>1. F[x] \in Byte /\ F[y] \in Byte
    OBVIOUS
  <2>2. gf256_mul(gf256_mul(w, F[y]), F[x]) = gf256_mul(gf256_mul(w, F[x]), F[y])
    <3> PICK u \in Byte, v \in Byte : u = F[x] /\ v = F[y]
      BY <2>1
    <3>1. /\ gf256_mul(gf256_mul(w, v), u) = gf256_mul(w, gf256_mul(v, u))
          /\ gf256_mul(gf256_mul(w, u), v) = gf256_mul(w, gf256_mul(u, v))
          /\ gf256_mul(u, v) = gf256_mul(v, u)
      BY FieldLaws
    <3> QED BY <3>1
  <2> HIDE DEF G
  <2> QED BY <1>1, <2>2
<1>4. One \in Byte
  BY FieldLaws
<1>5. ASSUME NEW it \in [SUBSET S -> Byte]
      PROVE  IsFold(it, S, One, G) <=> MulFold(it, S, F)
  <2>1. ASSUME NEW T \in SUBSET S, T # {}
        PROVE  G[<<Pick(T), it[T \ {Pick(T)}]>>] = gf256_mul(it[T \ {Pick(T)}], F[Pick(T)])
    <3>1. Pick(T) \in S /\ T \ {Pick(T)} \in SUBSET S
      BY <2>1, PickIs
    <3> HIDE DEF G
    <3> QED BY <1>1, <3>1
  <2> HIDE DEF G
  <2> QED BY <2>1 DEF IsFold, MulFold
<1>6. \E it : MulFold(it, S, F)
  <2>1. \E it \in [SUBSET S -> Byte] : IsFold(it, S, One, G)
    <3> HIDE DEF G
    <3> QED BY <1>2, <1>4, FoldExists
  <2> HIDE DEF G
  <2> QED BY <1>5, <2>1
<1>7. ASSUME NEW it, MulFold(it, S, F) PROVE IsProduct(it, S, F)
  <2>1. /\ it = [T \in SUBSET S |-> it[T]]
        /\ \A T \in SUBSET S :
             it[T] = IF T = {} THEN One ELSE gf256_mul(it[T \ {Pick(T)}], F[Pick(T)])
    BY <1>7 DEF MulFold
  <2> DEFINE Yes == {T \in SUBSET S : it[T] \in Byte}
  <2>2. {} \in Yes
    BY <1>4, <2>1
  <2>3. ASSUME NEW T \in SUBSET S, T # {}, T \ {Pick(T)} \in Yes PROVE T \in Yes
    <3>1. Pick(T) \in S
      BY <2>3, PickIs
    <3>2. it[T \ {Pick(T)}] \in Byte /\ F[Pick(T)] \in Byte
      BY <2>3, <3>1
    <3>3. gf256_mul(it[T \ {Pick(T)}], F[Pick(T)]) \in Byte
      BY <3>2, FieldLaws
    <3> QED BY <2>1, <2>3, <3>3
  <2>4. it \in [SUBSET S -> Byte]
    <3>1. \A T \in SUBSET S : T \in Yes
      <4> HIDE DEF Yes
      <4> QED BY <2>2, <2>3, InductFold
    <3> QED BY <2>1, <3>1
  <2>5. IsFold(it, S, One, G)
    BY <1>5, <1>7, <2>4
  <2>6. /\ it[{}] = One
        /\ \A T \in SUBSET S : \A a \in S \ T : it[T \cup {a}] = G[<<a, it[T]>>]
    <3> HIDE DEF G
    <3>1. Swaps(G, S, Byte)
      BY ONLY <1>3 DEF Swaps
    <3>2. Splits(it, S, One, G)
      BY ONLY IsFiniteSet(S), <1>2, <1>4, <2>4, <2>5, <3>1, FoldSplit
    <3> QED BY ONLY <3>2 DEF Splits
  <2>7. \A T \in SUBSET S : \A a \in S \ T : it[T \cup {a}] = gf256_mul(it[T], F[a])
    <3> HIDE DEF G
    <3> QED BY <1>1, <2>4, <2>6
  <2> QED BY ONLY <2>4, <2>6, <2>7 DEF IsProduct
<1> QED BY <1>6, <1>7

AddFold(it, S, F) ==
  it = [T \in SUBSET S |-> IF T = {} THEN {} ELSE gf256_add(it[T \ {Pick(T)}], F[Pick(T)])]
IsSum(it, S, F) ==
  /\ it \in [SUBSET S -> Byte] /\ it[{}] = {}
  /\ \A T \in SUBSET S : \A a \in S \ T : it[T \cup {a}] = gf256_add(it[T], F[a])

LEMMA SumFolds ==
  ASSUME NEW S, IsFiniteSet(S), NEW F \in [S -> Byte]
  PROVE  /\ \E it : AddFold(it, S, F)
         /\ \A it : AddFold(it, S, F) => IsSum(it, S, F)
<1> DEFINE G == [p \in S \X Byte |-> gf256_add(p[2], F[p[1]])]
<1>1. \A x \in S : \A w \in Byte : G[<<x, w>>] = gf256_add(w, F[x]) /\ G[<<x, w>>] \in Byte
  BY FieldLaws
<1>2. G \in [S \X Byte -> Byte]
  BY FieldLaws
<1>3. ASSUME NEW x \in S, NEW y \in S, NEW w \in Byte
      PROVE  G[<<x, G[<<y, w>>]>>] = G[<<y, G[<<x, w>>]>>]
  <2>1. F[x] \in Byte /\ F[y] \in Byte
    OBVIOUS
  <2>2. gf256_add(gf256_add(w, F[y]), F[x]) = gf256_add(gf256_add(w, F[x]), F[y])
    <3> PICK u \in Byte, v \in Byte : u = F[x] /\ v = F[y]
      BY <2>1
    <3>1. /\ gf256_add(gf256_add(w, v), u) = gf256_add(w, gf256_add(v, u))
          /\ gf256_add(gf256_add(w, u), v) = gf256_add(w, gf256_add(u, v))
          /\ gf256_add(u, v) = gf256_add(v, u)
      BY FieldLaws
    <3> QED BY <3>1
  <2> HIDE DEF G
  <2> QED BY <1>1, <2>2
<1>4. {} \in Byte
  BY FieldLaws
<1>5. ASSUME NEW it \in [SUBSET S -> Byte]
      PROVE  IsFold(it, S, {}, G) <=> AddFold(it, S, F)
  <2>1. ASSUME NEW T \in SUBSET S, T # {}
        PROVE  G[<<Pick(T), it[T \ {Pick(T)}]>>] = gf256_add(it[T \ {Pick(T)}], F[Pick(T)])
    <3>1. Pick(T) \in S /\ T \ {Pick(T)} \in SUBSET S
      BY <2>1, PickIs
    <3> HIDE DEF G
    <3> QED BY <1>1, <3>1
  <2> HIDE DEF G
  <2> QED BY <2>1 DEF IsFold, AddFold
<1>6. \E it : AddFold(it, S, F)
  <2>1. \E it \in [SUBSET S -> Byte] : IsFold(it, S, {}, G)
    <3> HIDE DEF G
    <3> QED BY <1>2, <1>4, FoldExists
  <2> HIDE DEF G
  <2> QED BY <1>5, <2>1
<1>7. ASSUME NEW it, AddFold(it, S, F) PROVE IsSum(it, S, F)
  <2>1. /\ it = [T \in SUBSET S |-> it[T]]
        /\ \A T \in SUBSET S :
             it[T] = IF T = {} THEN {} ELSE gf256_add(it[T \ {Pick(T)}], F[Pick(T)])
    BY <1>7 DEF AddFold
  <2> DEFINE Yes == {T \in SUBSET S : it[T] \in Byte}
  <2>2. {} \in Yes
    BY <1>4, <2>1
  <2>3. ASSUME NEW T \in SUBSET S, T # {}, T \ {Pick(T)} \in Yes PROVE T \in Yes
    <3>1. Pick(T) \in S
      BY <2>3, PickIs
    <3>2. it[T \ {Pick(T)}] \in Byte /\ F[Pick(T)] \in Byte
      BY <2>3, <3>1
    <3>3. gf256_add(it[T \ {Pick(T)}], F[Pick(T)]) \in Byte
      BY <3>2, FieldLaws
    <3> QED BY <2>1, <2>3, <3>3
  <2>4. it \in [SUBSET S -> Byte]
    <3>1. \A T \in SUBSET S : T \in Yes
      <4> HIDE DEF Yes
      <4> QED BY <2>2, <2>3, InductFold
    <3> QED BY <2>1, <3>1
  <2>5. IsFold(it, S, {}, G)
    BY <1>5, <1>7, <2>4
  <2>6. /\ it[{}] = {}
        /\ \A T \in SUBSET S : \A a \in S \ T : it[T \cup {a}] = G[<<a, it[T]>>]
    <3> HIDE DEF G
    <3>1. Swaps(G, S, Byte)
      BY ONLY <1>3 DEF Swaps
    <3>2. Splits(it, S, {}, G)
      BY ONLY IsFiniteSet(S), <1>2, <1>4, <2>4, <2>5, <3>1, FoldSplit
    <3> QED BY ONLY <3>2 DEF Splits
  <2>7. \A T \in SUBSET S : \A a \in S \ T : it[T \cup {a}] = gf256_add(it[T], F[a])
    <3> HIDE DEF G
    <3> QED BY <1>1, <2>4, <2>6
  <2> QED BY ONLY <2>4, <2>6, <2>7 DEF IsSum
<1> QED BY <1>6, <1>7
------------------------------------------------------------------------------
(* One factor of a weight, and the points that can be told apart.          *)
Factor(x, q, p) == gf256_div(gf256_add(ToByte(x), ToByte(q)), gf256_add(ToByte(p), ToByte(q)))

Apart(P) == IsFiniteSet(P) /\ \A p, q \in P : ToByte(p) = ToByte(q) => p = q

LEMMA DifferenceInverts ==
  ASSUME NEW P, Apart(P), NEW p \in P, NEW q \in P, p # q
  PROVE  /\ gf256_add(ToByte(p), ToByte(q)) \in Byte
         /\ gf256_inv(gf256_add(ToByte(p), ToByte(q))) \in Byte
         /\ gf256_mul(gf256_add(ToByte(p), ToByte(q)), gf256_inv(gf256_add(ToByte(p), ToByte(q)))) = One
<1>1. ToByte(p) \in Byte /\ ToByte(q) \in Byte
  BY DEF ToByte, Byte
<1>2. ToByte(p) # ToByte(q)
  BY DEF Apart
<1>3. gf256_add(ToByte(p), ToByte(q)) \in Byte
  BY <1>1, FieldLaws
<1>4. gf256_add(ToByte(p), ToByte(q)) # {}
  BY <1>2 DEF gf256_add
<1>5. PICK d \in Byte \ {{}} : d = gf256_add(ToByte(p), ToByte(q))
  BY <1>3, <1>4
<1>6. gf256_inv(d) \in Byte /\ gf256_mul(d, gf256_inv(d)) = One
  BY InverseAssumption
<1> QED BY ONLY <1>5, <1>6

LEMMA FactorType ==
  ASSUME NEW P, Apart(P), NEW x \in P, NEW p \in P, NEW q \in P, p # q
  PROVE  Factor(x, q, p) \in Byte
<1>1. ToByte(x) \in Byte /\ ToByte(q) \in Byte
  BY DEF ToByte, Byte
<1>2. gf256_add(ToByte(x), ToByte(q)) \in Byte
  BY <1>1, FieldLaws
<1>3. gf256_inv(gf256_add(ToByte(p), ToByte(q))) \in Byte
  BY DifferenceInverts
<1> QED BY ONLY <1>2, <1>3, FieldLaws DEF Factor, gf256_div

(* A fold over a part of a set is that part of a fold over the set. *)
LEMMA FoldPart ==
  ASSUME NEW S, NEW Z \in SUBSET S, NEW F, NEW it, MulFold(it, S, F)
  PROVE  MulFold([T \in SUBSET Z |-> it[T]], Z, [q \in Z |-> F[q]])
<1>1. \A T \in SUBSET S : it[T] = IF T = {} THEN One ELSE gf256_mul(it[T \ {Pick(T)}], F[Pick(T)])
  BY DEF MulFold
<1>2. \A T \in SUBSET Z : T # {} => Pick(T) \in Z /\ T \ {Pick(T)} \in SUBSET Z
  BY PickIs
<1>3. \A T \in SUBSET Z : T \in SUBSET S
  OBVIOUS
<1> QED BY <1>1, <1>2, <1>3 DEF MulFold

LEMMA WeightFold ==
  ASSUME NEW P, Apart(P), NEW p \in P, NEW x \in P, NEW s \in SUBSET (P \ {p})
  PROVE  \E it : MulFold(it, s, [q \in s |-> Factor(x, q, p)]) /\ Weight(s, p, x) = it[s]
<1> DEFINE F == [q \in s |-> Factor(x, q, p)]
           Rec(it) == it = [T \in SUBSET s |->
                              IF T = {} THEN One
                              ELSE gf256_mul(it[T \ {CHOOSE q \in T : TRUE}],
                                             Factor(x, CHOOSE q \in T : TRUE, p))]
<1>1. \A q \in s : F[q] = Factor(x, q, p)
  OBVIOUS
<1>2. s \ {p} = s
  OBVIOUS
<1>3. Weight(s, p, x) = (CHOOSE it : Rec(it))[s]
  BY <1>2 DEF Weight, FoldSet, MapThenFoldSet, Factor
<1>4. \A it : Rec(it) <=> MulFold(it, s, F)
  <2>1. \A T \in SUBSET s : T # {} => Pick(T) \in s
    BY PickIs
  <2> QED BY <1>1, <2>1 DEF MulFold, Pick
<1>5. F \in [s -> Byte]
  BY FactorType
<1>6. IsFiniteSet(s)
  BY FS_Subset DEF Apart
<1>7. \E it : Rec(it)
  <2> HIDE DEF F, Rec
  <2> QED BY <1>4, <1>5, <1>6, ProductFolds
<1>8. Rec(CHOOSE it : Rec(it))
  <2> HIDE DEF Rec
  <2> QED BY <1>7
<1> HIDE DEF Rec
<1> QED BY <1>3, <1>4, <1>8

(* A fold has one value. *)
LEMMA FoldOnce ==
  ASSUME NEW S, IsFiniteSet(S), NEW F \in [S -> Byte], NEW f, NEW g,
         IsProduct(f, S, F), IsProduct(g, S, F)
  PROVE  f[S] = g[S]
<1> DEFINE Yes == {T \in SUBSET S : f[T] = g[T]}
<1>1. {} \in Yes
  BY DEF IsProduct
<1>2. ASSUME NEW T \in SUBSET S, NEW a \in S \ T, T \in Yes PROVE T \cup {a} \in Yes
  <2>1. f[T \cup {a}] = gf256_mul(f[T], F[a]) /\ g[T \cup {a}] = gf256_mul(g[T], F[a])
    BY DEF IsProduct
  <2>2. T \cup {a} \in SUBSET S
    OBVIOUS
  <2> QED BY <1>2, <2>1, <2>2
<1> HIDE DEF Yes
<1>3. \A T \in SUBSET S : T \in Yes
  BY ONLY IsFiniteSet(S), <1>1, <1>2, InductSets
<1> QED BY <1>3 DEF Yes

(* The weight of p over the points s, p not among them, is a product.      *)
LEMMA WeightIs ==
  ASSUME NEW P, Apart(P), NEW p \in P, NEW x \in P
  PROVE  /\ Weight({}, p, x) = One
         /\ \A s \in SUBSET (P \ {p}) : Weight(s, p, x) \in Byte
         /\ \A s \in SUBSET (P \ {p}) : \A a \in (P \ {p}) \ s :
              Weight(s \cup {a}, p, x) = gf256_mul(Weight(s, p, x), Factor(x, a, p))
<1> DEFINE S == P \ {p}
           F == [q \in S |-> Factor(x, q, p)]
<1>1. IsFiniteSet(S) /\ F \in [S -> Byte]
  BY FS_Subset, FactorType DEF Apart
<1>2. PICK it : MulFold(it, S, F)
  <2> HIDE DEF F, S
  <2> QED BY <1>1, ProductFolds
<1>3. IsProduct(it, S, F)
  <2> HIDE DEF F, S
  <2> QED BY <1>1, <1>2, ProductFolds
<1>4. ASSUME NEW s \in SUBSET S PROVE Weight(s, p, x) = it[s]
  <2> DEFINE H == [q \in s |-> Factor(x, q, p)]
             part == [T \in SUBSET s |-> it[T]]
  <2>1. PICK f : MulFold(f, s, H) /\ Weight(s, p, x) = f[s]
    BY WeightFold
  <2>2. H = [q \in s |-> F[q]]
    OBVIOUS
  <2>3. MulFold(part, s, H)
    <3> HIDE DEF F, S
    <3> QED BY <1>2, <2>2, FoldPart
  <2>4. IsFiniteSet(s) /\ H \in [s -> Byte]
    BY <1>1, FS_Subset, FactorType
  <2>5. IsProduct(part, s, H) /\ IsProduct(f, s, H)
    <3> HIDE DEF part, H
    <3> QED BY <2>1, <2>3, <2>4, ProductFolds
  <2>6. part[s] = f[s]
    <3> HIDE DEF part, H
    <3> QED BY <2>4, <2>5, FoldOnce
  <2>7. part[s] = it[s]
    OBVIOUS
  <2> QED BY <2>1, <2>6, <2>7
<1>5. /\ it \in [SUBSET S -> Byte] /\ it[{}] = One
      /\ \A s \in SUBSET S : \A a \in S \ s : it[s \cup {a}] = gf256_mul(it[s], F[a])
  BY <1>3 DEF IsProduct
<1>6. \A s \in SUBSET S : \A a \in S \ s : s \cup {a} \in SUBSET S
  OBVIOUS
<1>7. \A a \in S : F[a] = Factor(x, a, p)
  OBVIOUS
<1>8. {} \in SUBSET S
  OBVIOUS
<1> HIDE DEF F
<1>9. Weight({}, p, x) = One
  BY <1>4, <1>5, <1>8
<1>10. \A s \in SUBSET S : Weight(s, p, x) \in Byte
  BY <1>4, <1>5
<1>11. \A s \in SUBSET S : \A a \in S \ s :
         Weight(s \cup {a}, p, x) = gf256_mul(Weight(s, p, x), Factor(x, a, p))
  <2> HIDE DEF S
  <2> QED BY <1>4, <1>5, <1>6, <1>7
<1> QED BY ONLY <1>9, <1>10, <1>11

(* A point does not count in its own weight. *)
LEMMA WeightSelf ==
  ASSUME NEW D, NEW p, NEW x
  PROVE  Weight(D, p, x) = Weight(D \ {p}, p, x)
<1>1. (D \ {p}) \ {p} = D \ {p}
  OBVIOUS
<1> QED BY <1>1 DEF Weight
------------------------------------------------------------------------------
(* The sum over s of what F gives. *)
Total(F, s) == FoldSet(LAMBDA q, w : gf256_add(w, F[q]), {}, s)

LEMMA TotalFold ==
  ASSUME NEW S, IsFiniteSet(S), NEW F, \A q \in S : F[q] \in Byte
  PROVE  /\ \E it : AddFold(it, S, F)
         /\ \A it : AddFold(it, S, F) => IsSum(it, S, F)
         /\ \E it : AddFold(it, S, F) /\ Total(F, S) = it[S]
<1> DEFINE Rec(it) == it = [T \in SUBSET S |->
                              IF T = {} THEN {}
                              ELSE gf256_add(it[T \ {CHOOSE q \in T : TRUE}],
                                             F[CHOOSE q \in T : TRUE])]
           H == [q \in S |-> F[q]]
<1>1. Total(F, S) = (CHOOSE it : Rec(it))[S]
  BY DEF Total, FoldSet, MapThenFoldSet
<1>2. \A it : Rec(it) <=> AddFold(it, S, F)
  BY DEF AddFold, Pick
<1>5. H \in [S -> Byte] /\ \A q \in S : H[q] = F[q]
  OBVIOUS
<1> HIDE DEF H
<1>6. \A it : AddFold(it, S, F) <=> AddFold(it, S, H)
  <2>1. \A T \in SUBSET S : T # {} => Pick(T) \in S
    BY PickIs
  <2> QED BY <1>5, <2>1 DEF AddFold
<1>7. \A it : IsSum(it, S, F) <=> IsSum(it, S, H)
  BY <1>5 DEF IsSum
<1>8. (\E it : AddFold(it, S, H)) /\ \A it : AddFold(it, S, H) => IsSum(it, S, H)
  BY <1>5, SumFolds
<1>3. \E it : Rec(it)
  <2> HIDE DEF Rec
  <2> QED BY <1>2, <1>6, <1>8
<1>4. Rec(CHOOSE it : Rec(it))
  <2> HIDE DEF Rec
  <2> QED BY <1>3
<1> HIDE DEF Rec
<1> QED BY <1>1, <1>2, <1>4, <1>6, <1>7, <1>8

LEMMA SumOnce ==
  ASSUME NEW S, IsFiniteSet(S), NEW F, NEW f, NEW g, IsSum(f, S, F), IsSum(g, S, F)
  PROVE  f[S] = g[S]
<1> DEFINE Yes == {T \in SUBSET S : f[T] = g[T]}
<1>1. {} \in Yes
  BY DEF IsSum
<1>2. ASSUME NEW T \in SUBSET S, NEW a \in S \ T, T \in Yes PROVE T \cup {a} \in Yes
  <2>1. f[T \cup {a}] = gf256_add(f[T], F[a]) /\ g[T \cup {a}] = gf256_add(g[T], F[a])
    BY DEF IsSum
  <2>2. T \cup {a} \in SUBSET S
    OBVIOUS
  <2> QED BY <1>2, <2>1, <2>2
<1> HIDE DEF Yes
<1>3. \A T \in SUBSET S : T \in Yes
  BY ONLY IsFiniteSet(S), <1>1, <1>2, InductSets
<1> QED BY <1>3 DEF Yes

LEMMA TotalIs ==
  ASSUME NEW S, IsFiniteSet(S), NEW F, \A q \in S : F[q] \in Byte
  PROVE  /\ Total(F, {}) = {}
         /\ \A s \in SUBSET S : Total(F, s) \in Byte
         /\ \A s \in SUBSET S : \A a \in S \ s : Total(F, s \cup {a}) = gf256_add(Total(F, s), F[a])
<1>1. PICK it : AddFold(it, S, F)
  BY TotalFold
<1>2. IsSum(it, S, F)
  BY <1>1, TotalFold
<1>3. \A T \in SUBSET S : it[T] = IF T = {} THEN {} ELSE gf256_add(it[T \ {Pick(T)}], F[Pick(T)])
  BY <1>1 DEF AddFold
<1>4. ASSUME NEW s \in SUBSET S PROVE Total(F, s) = it[s]
  <2> DEFINE part == [T \in SUBSET s |-> it[T]]
  <2>1. IsFiniteSet(s) /\ \A q \in s : F[q] \in Byte
    BY FS_Subset
  <2>2. PICK f : AddFold(f, s, F) /\ Total(F, s) = f[s]
    BY <2>1, TotalFold
  <2>3. AddFold(part, s, F)
    <3>1. \A T \in SUBSET s : T # {} => T \ {Pick(T)} \in SUBSET s
      BY PickIs
    <3>2. \A T \in SUBSET s : T \in SUBSET S
      OBVIOUS
    <3> QED BY <1>3, <3>1, <3>2 DEF AddFold
  <2>4. IsSum(part, s, F) /\ IsSum(f, s, F)
    <3> HIDE DEF part
    <3> QED BY <2>1, <2>2, <2>3, TotalFold
  <2>5. part[s] = f[s]
    <3> HIDE DEF part
    <3> QED BY <2>1, <2>4, SumOnce
  <2>6. part[s] = it[s]
    OBVIOUS
  <2> QED BY <2>2, <2>5, <2>6
<1>5. /\ it \in [SUBSET S -> Byte] /\ it[{}] = {}
      /\ \A s \in SUBSET S : \A a \in S \ s : it[s \cup {a}] = gf256_add(it[s], F[a])
  BY <1>2 DEF IsSum
<1>6. {} \in SUBSET S /\ \A s \in SUBSET S : \A a \in S \ s : s \cup {a} \in SUBSET S
  OBVIOUS
<1>7. Total(F, {}) = {}
  BY <1>4, <1>5, <1>6
<1>8. \A s \in SUBSET S : Total(F, s) \in Byte
  BY <1>4, <1>5
<1>9. \A s \in SUBSET S : \A a \in S \ s : Total(F, s \cup {a}) = gf256_add(Total(F, s), F[a])
  BY <1>4, <1>5, <1>6
<1> QED BY ONLY <1>7, <1>8, <1>9

(* Sums of sums, and of multiples. *)
LEMMA TotalAdds ==
  ASSUME NEW S, IsFiniteSet(S), NEW F, NEW G, NEW H,
         \A q \in S : F[q] \in Byte /\ G[q] \in Byte /\ H[q] = gf256_add(F[q], G[q])
  PROVE  Total(H, S) = gf256_add(Total(F, S), Total(G, S))
<1> DEFINE Yes == {T \in SUBSET S : Total(H, T) = gf256_add(Total(F, T), Total(G, T))}
<1>0. /\ \A q \in S : F[q] \in Byte
      /\ \A q \in S : G[q] \in Byte
      /\ \A q \in S : H[q] \in Byte
  <2>1. ASSUME NEW q \in S PROVE gf256_add(F[q], G[q]) \in Byte
    BY AddLaws
  <2> QED BY <2>1
<1>1. {} \in Yes
  <2>1. Total(F, {}) = {} /\ Total(G, {}) = {} /\ Total(H, {}) = {}
    BY <1>0, TotalIs
  <2> QED BY <2>1, FieldLaws
<1>2. ASSUME NEW T \in SUBSET S, NEW a \in S \ T, T \in Yes PROVE T \cup {a} \in Yes
  <2>1. Total(F, T \cup {a}) = gf256_add(Total(F, T), F[a]) /\ Total(F, T) \in Byte
    BY <1>0, TotalIs
  <2>2. Total(G, T \cup {a}) = gf256_add(Total(G, T), G[a]) /\ Total(G, T) \in Byte
    BY <1>0, TotalIs
  <2>3. Total(H, T \cup {a}) = gf256_add(Total(H, T), H[a])
    BY <1>0, TotalIs
  <2>4. Total(H, T) = gf256_add(Total(F, T), Total(G, T))
    BY <1>2
  <2>5. F[a] \in Byte /\ G[a] \in Byte /\ H[a] = gf256_add(F[a], G[a])
    OBVIOUS
  <2>6. Total(H, T \cup {a}) = gf256_add(Total(F, T \cup {a}), Total(G, T \cup {a}))
    BY ONLY <2>1, <2>2, <2>3, <2>4, <2>5, Shuffle
  <2>7. T \cup {a} \in SUBSET S
    OBVIOUS
  <2> QED BY <2>6, <2>7
<1> HIDE DEF Yes
<1>3. \A T \in SUBSET S : T \in Yes
  BY ONLY IsFiniteSet(S), <1>1, <1>2, InductSets
<1>4. S \in Yes
  BY ONLY <1>3
<1> QED BY ONLY <1>4 DEF Yes

LEMMA TotalScales ==
  ASSUME NEW S, IsFiniteSet(S), NEW c \in Byte, NEW F, NEW G,
         \A q \in S : F[q] \in Byte /\ G[q] = gf256_mul(c, F[q])
  PROVE  Total(G, S) = gf256_mul(c, Total(F, S))
<1> DEFINE Yes == {T \in SUBSET S : Total(G, T) = gf256_mul(c, Total(F, T))}
<1>0. /\ \A q \in S : F[q] \in Byte
      /\ \A q \in S : G[q] \in Byte
  <2>1. ASSUME NEW q \in S PROVE gf256_mul(c, F[q]) \in Byte
    BY MulType
  <2> QED BY <2>1
<1>1. {} \in Yes
  <2>1. Total(F, {}) = {} /\ Total(G, {}) = {}
    BY <1>0, TotalIs
  <2> QED BY <2>1, FieldLaws
<1>2. ASSUME NEW T \in SUBSET S, NEW a \in S \ T, T \in Yes PROVE T \cup {a} \in Yes
  <2>1. Total(F, T \cup {a}) = gf256_add(Total(F, T), F[a]) /\ Total(F, T) \in Byte
    BY <1>0, TotalIs
  <2>2. Total(G, T \cup {a}) = gf256_add(Total(G, T), G[a])
    BY <1>0, TotalIs
  <2>3. Total(G, T) = gf256_mul(c, Total(F, T))
    BY <1>2
  <2>4. F[a] \in Byte /\ G[a] = gf256_mul(c, F[a])
    OBVIOUS
  <2>5. gf256_mul(c, gf256_add(Total(F, T), F[a])) = gf256_add(gf256_mul(c, Total(F, T)), gf256_mul(c, F[a]))
    BY <2>1, <2>4, MulRight
  <2>6. Total(G, T \cup {a}) = gf256_mul(c, Total(F, T \cup {a}))
    BY ONLY <2>1, <2>2, <2>3, <2>4, <2>5
  <2>7. T \cup {a} \in SUBSET S
    OBVIOUS
  <2> QED BY <2>6, <2>7
<1> HIDE DEF Yes
<1>3. \A T \in SUBSET S : T \in Yes
  BY ONLY IsFiniteSet(S), <1>1, <1>2, InductSets
<1>4. S \in Yes
  BY ONLY <1>3
<1> QED BY ONLY <1>4 DEF Yes

LEMMA TotalSame ==
  ASSUME NEW S, IsFiniteSet(S), NEW F, NEW G, \A q \in S : F[q] \in Byte /\ G[q] = F[q]
  PROVE  Total(G, S) = Total(F, S)
<1>1. \A q \in S : F[q] \in Byte /\ G[q] = gf256_mul(One, F[q])
  BY FieldLaws
<1>2. Total(G, S) = gf256_mul(One, Total(F, S))
  <2>1. One \in Byte
    BY AddLaws
  <2> QED BY ONLY IsFiniteSet(S), <1>1, <2>1, TotalScales
<1>3. Total(F, S) \in Byte
  BY TotalIs
<1>4. gf256_mul(One, Total(F, S)) = Total(F, S)
  BY <1>3, MulOne
<1> QED BY ONLY <1>2, <1>4

LEMMA TotalZero ==
  ASSUME NEW S, IsFiniteSet(S), NEW F, \A q \in S : F[q] = {}
  PROVE  Total(F, S) = {}
<1>1. \A q \in S : F[q] \in Byte /\ F[q] = gf256_mul({}, F[q])
  BY FieldLaws
<1>2. Total(F, S) = gf256_mul({}, Total(F, S))
  <2>1. {} \in Byte
    BY AddLaws
  <2> QED BY ONLY IsFiniteSet(S), <1>1, <2>1, TotalScales
<1>3. Total(F, S) \in Byte
  BY <1>1, TotalIs
<1>4. gf256_mul({}, Total(F, S)) = {}
  BY <1>3, MulZero
<1> QED BY ONLY <1>2, <1>4
------------------------------------------------------------------------------
(* Calculating with bytes.                                                 *)
LEMMA Foil ==
  ASSUME NEW a \in Byte, NEW b \in Byte, NEW c \in Byte, NEW d \in Byte
  PROVE  gf256_mul(gf256_add(a, b), gf256_add(c, d))
           = gf256_add(gf256_add(gf256_mul(a, c), gf256_mul(a, d)),
                       gf256_add(gf256_mul(b, c), gf256_mul(b, d)))
<1>1. gf256_add(c, d) \in Byte
  BY AddLaws
<1>2. gf256_mul(gf256_add(a, b), gf256_add(c, d))
        = gf256_add(gf256_mul(a, gf256_add(c, d)), gf256_mul(b, gf256_add(c, d)))
  BY <1>1, MulLeft
<1>3. gf256_mul(a, gf256_add(c, d)) = gf256_add(gf256_mul(a, c), gf256_mul(a, d))
  BY MulRight
<1>4. gf256_mul(b, gf256_add(c, d)) = gf256_add(gf256_mul(b, c), gf256_mul(b, d))
  BY MulRight
<1> QED BY ONLY <1>2, <1>3, <1>4

(* (X + B) (E + A) + (X + E) (B + A) = (X + A) (E + B).                    *)
LEMMA Ptolemy ==
  ASSUME NEW X \in Byte, NEW A \in Byte, NEW B \in Byte, NEW E \in Byte
  PROVE  gf256_add(gf256_mul(gf256_add(X, B), gf256_add(E, A)),
                   gf256_mul(gf256_add(X, E), gf256_add(B, A)))
           = gf256_mul(gf256_add(X, A), gf256_add(E, B))
<1>1. PICK xe \in Byte, xa \in Byte, xb \in Byte :
        xe = gf256_mul(X, E) /\ xa = gf256_mul(X, A) /\ xb = gf256_mul(X, B)
  BY MulType
<1>2. PICK be \in Byte, ba \in Byte, ea \in Byte :
        /\ be = gf256_mul(B, E) /\ ba = gf256_mul(B, A) /\ ea = gf256_mul(E, A)
        /\ be = gf256_mul(E, B) /\ ba = gf256_mul(A, B) /\ ea = gf256_mul(A, E)
  BY MulType, MulCommutes
<1>3. gf256_mul(gf256_add(X, B), gf256_add(E, A)) = gf256_add(gf256_add(xe, xa), gf256_add(be, ba))
  <2>1. gf256_mul(gf256_add(X, B), gf256_add(E, A))
          = gf256_add(gf256_add(gf256_mul(X, E), gf256_mul(X, A)),
                      gf256_add(gf256_mul(B, E), gf256_mul(B, A)))
    BY Foil
  <2> QED BY ONLY <1>1, <1>2, <2>1
<1>4. gf256_mul(gf256_add(X, E), gf256_add(B, A)) = gf256_add(gf256_add(xb, xa), gf256_add(be, ea))
  <2>1. gf256_mul(gf256_add(X, E), gf256_add(B, A))
          = gf256_add(gf256_add(gf256_mul(X, B), gf256_mul(X, A)),
                      gf256_add(gf256_mul(E, B), gf256_mul(E, A)))
    BY Foil
  <2> QED BY ONLY <1>1, <1>2, <2>1
<1>5. gf256_mul(gf256_add(X, A), gf256_add(E, B)) = gf256_add(gf256_add(xe, xb), gf256_add(ea, ba))
  <2>1. gf256_mul(gf256_add(X, A), gf256_add(E, B))
          = gf256_add(gf256_add(gf256_mul(X, E), gf256_mul(X, B)),
                      gf256_add(gf256_mul(A, E), gf256_mul(A, B)))
    BY Foil
  <2> QED BY ONLY <1>1, <1>2, <2>1
<1>6. gf256_add(gf256_add(gf256_add(xe, xa), gf256_add(be, ba)),
                gf256_add(gf256_add(xb, xa), gf256_add(be, ea)))
        = gf256_add(gf256_add(xe, xb), gf256_add(ea, ba))
  BY ONLY DEF gf256_add
<1> QED BY ONLY <1>3, <1>4, <1>5, <1>6

LEMMA MulShuffle ==
  ASSUME NEW a \in Byte, NEW b \in Byte, NEW c \in Byte, NEW d \in Byte
  PROVE  /\ gf256_mul(gf256_mul(a, b), gf256_mul(c, d)) = gf256_mul(gf256_mul(a, c), gf256_mul(b, d))
         /\ gf256_mul(gf256_mul(a, b), gf256_mul(c, d)) = gf256_mul(gf256_mul(a, d), gf256_mul(b, c))
         /\ gf256_mul(a, gf256_mul(b, c)) = gf256_mul(b, gf256_mul(a, c))
<1>1. ASSUME NEW u \in Byte, NEW v \in Byte, NEW w \in Byte
      PROVE  gf256_mul(u, gf256_mul(v, w)) = gf256_mul(v, gf256_mul(u, w))
  <2>1. gf256_mul(gf256_mul(u, v), w) = gf256_mul(u, gf256_mul(v, w))
    BY MulAssociates
  <2>2. gf256_mul(gf256_mul(v, u), w) = gf256_mul(v, gf256_mul(u, w))
    BY MulAssociates
  <2>3. gf256_mul(u, v) = gf256_mul(v, u)
    BY MulCommutes
  <2> QED BY ONLY <2>1, <2>2, <2>3
<1>2. ASSUME NEW u \in Byte, NEW v \in Byte, NEW w \in Byte, NEW z \in Byte
      PROVE  gf256_mul(gf256_mul(u, v), gf256_mul(w, z)) = gf256_mul(gf256_mul(u, w), gf256_mul(v, z))
  <2>1. gf256_mul(w, z) \in Byte /\ gf256_mul(v, z) \in Byte
    BY MulType
  <2>2. gf256_mul(gf256_mul(u, v), gf256_mul(w, z)) = gf256_mul(u, gf256_mul(v, gf256_mul(w, z)))
    BY <2>1, MulAssociates
  <2>3. gf256_mul(gf256_mul(u, w), gf256_mul(v, z)) = gf256_mul(u, gf256_mul(w, gf256_mul(v, z)))
    BY <2>1, MulAssociates
  <2>4. gf256_mul(v, gf256_mul(w, z)) = gf256_mul(w, gf256_mul(v, z))
    BY <1>1
  <2> QED BY ONLY <2>2, <2>3, <2>4
<1>3. gf256_mul(c, d) = gf256_mul(d, c)
  BY MulCommutes
<1>4. gf256_mul(gf256_mul(a, b), gf256_mul(d, c)) = gf256_mul(gf256_mul(a, d), gf256_mul(b, c))
  BY <1>2
<1>5. gf256_mul(gf256_mul(a, b), gf256_mul(c, d)) = gf256_mul(gf256_mul(a, c), gf256_mul(b, d))
  BY <1>2
<1>6. gf256_mul(a, gf256_mul(b, c)) = gf256_mul(b, gf256_mul(a, c))
  BY <1>1
<1> QED BY ONLY <1>3, <1>4, <1>5, <1>6

LEMMA PointType == ASSUME NEW x PROVE ToByte(x) \in Byte
BY DEF ToByte, Byte

(* (B + Q) / (A + Q) * (X + Q) / (B + Q) = (X + Q) / (A + Q).               *)
LEMMA FactorChain ==
  ASSUME NEW P, Apart(P), NEW a \in P, NEW b \in P, NEW q \in P, NEW x \in P, q # a, q # b
  PROVE  gf256_mul(Factor(b, q, a), Factor(x, q, b)) = Factor(x, q, a)
<1> DEFINE N(p) == gf256_add(ToByte(p), ToByte(q))
           I(p) == gf256_inv(N(p))
<1>1. N(b) \in Byte /\ I(b) \in Byte /\ gf256_mul(N(b), I(b)) = One
  BY DifferenceInverts
<1>2. I(a) \in Byte
  BY DifferenceInverts
<1>3. N(x) \in Byte
  BY PointType, AddLaws
<1>4. /\ Factor(b, q, a) = gf256_mul(N(b), I(a)) /\ Factor(x, q, b) = gf256_mul(N(x), I(b))
      /\ Factor(x, q, a) = gf256_mul(N(x), I(a))
  BY DEF Factor, gf256_div
<1> HIDE DEF N, I
<1>5. gf256_mul(gf256_mul(N(b), I(a)), gf256_mul(N(x), I(b)))
        = gf256_mul(gf256_mul(N(b), I(b)), gf256_mul(I(a), N(x)))
  BY <1>1, <1>2, <1>3, MulShuffle
<1>6. gf256_mul(I(a), N(x)) \in Byte /\ gf256_mul(I(a), N(x)) = gf256_mul(N(x), I(a))
  BY <1>2, <1>3, MulType, MulCommutes
<1>7. gf256_mul(One, gf256_mul(I(a), N(x))) = gf256_mul(I(a), N(x))
  BY <1>6, MulOne
<1> QED BY ONLY <1>1, <1>4, <1>5, <1>6, <1>7

(* (X + B) / (E + B) + (X + E) / (B + E) * (B + A) / (E + A)                *)
(* = (X + A) / (E + A).                                                    *)
LEMMA FactorSum ==
  ASSUME NEW P, Apart(P), NEW a \in P, NEW b \in P, NEW q \in P, NEW x \in P, q # a, q # b
  PROVE  gf256_add(Factor(x, b, q), gf256_mul(Factor(x, q, b), Factor(b, a, q))) = Factor(x, a, q)
<1>0. PICK X \in Byte, A \in Byte, B \in Byte, E \in Byte :
        X = ToByte(x) /\ A = ToByte(a) /\ B = ToByte(b) /\ E = ToByte(q)
  BY PointType
<1>1. PICK I \in Byte : I = gf256_inv(gf256_add(E, B)) /\ gf256_mul(gf256_add(E, B), I) = One
  BY <1>0, DifferenceInverts
<1>2. PICK J \in Byte : J = gf256_inv(gf256_add(E, A)) /\ gf256_mul(gf256_add(E, A), J) = One
  BY <1>0, DifferenceInverts
<1>3. gf256_add(B, E) = gf256_add(E, B)
  BY AddLaws
<1>4. /\ Factor(x, b, q) = gf256_mul(gf256_add(X, B), I)
      /\ Factor(x, q, b) = gf256_mul(gf256_add(X, E), I)
      /\ Factor(b, a, q) = gf256_mul(gf256_add(B, A), J)
      /\ Factor(x, a, q) = gf256_mul(gf256_add(X, A), J)
  BY ONLY <1>0, <1>1, <1>2, <1>3 DEF Factor, gf256_div
<1>5. PICK xb \in Byte, xe \in Byte, xa \in Byte :
        xb = gf256_add(X, B) /\ xe = gf256_add(X, E) /\ xa = gf256_add(X, A)
  BY AddLaws
<1>6. PICK ba \in Byte, eb \in Byte, ea \in Byte :
        ba = gf256_add(B, A) /\ eb = gf256_add(E, B) /\ ea = gf256_add(E, A)
  BY AddLaws
<1>7. PICK ij \in Byte : ij = gf256_mul(I, J)
  BY MulType
(* Each of the three fractions over the common denominator. *)
<1>8. gf256_mul(xb, I) = gf256_mul(gf256_mul(xb, ea), ij)
  <2>1. gf256_mul(gf256_mul(xb, I), gf256_mul(ea, J)) = gf256_mul(gf256_mul(xb, ea), gf256_mul(I, J))
    BY MulShuffle
  <2>2. gf256_mul(xb, I) \in Byte
    BY MulType
  <2>3. gf256_mul(gf256_mul(xb, I), One) = gf256_mul(xb, I)
    BY <2>2, FieldLaws
  <2> QED BY ONLY <1>2, <1>6, <1>7, <2>1, <2>3
<1>9. gf256_mul(gf256_mul(xe, I), gf256_mul(ba, J)) = gf256_mul(gf256_mul(xe, ba), ij)
  <2>1. gf256_mul(gf256_mul(xe, I), gf256_mul(ba, J)) = gf256_mul(gf256_mul(xe, ba), gf256_mul(I, J))
    BY MulShuffle
  <2> QED BY ONLY <1>7, <2>1
<1>10. gf256_mul(xa, J) = gf256_mul(gf256_mul(xa, eb), ij)
  <2>1. gf256_mul(gf256_mul(xa, J), gf256_mul(eb, I)) = gf256_mul(gf256_mul(xa, eb), gf256_mul(J, I))
    BY MulShuffle
  <2>2. gf256_mul(xa, J) \in Byte /\ gf256_mul(J, I) = gf256_mul(I, J)
    BY MulType, MulCommutes
  <2>3. gf256_mul(gf256_mul(xa, J), One) = gf256_mul(xa, J)
    BY <2>2, FieldLaws
  <2> QED BY ONLY <1>1, <1>6, <1>7, <2>1, <2>2, <2>3
<1>11. gf256_add(gf256_mul(xb, ea), gf256_mul(xe, ba)) = gf256_mul(xa, eb)
  BY ONLY <1>5, <1>6, Ptolemy
<1>12. gf256_mul(gf256_add(gf256_mul(xb, ea), gf256_mul(xe, ba)), ij)
         = gf256_add(gf256_mul(gf256_mul(xb, ea), ij), gf256_mul(gf256_mul(xe, ba), ij))
  BY MulType, MulLeft
<1> QED BY ONLY <1>4, <1>5, <1>6, <1>8, <1>9, <1>10, <1>11, <1>12
------------------------------------------------------------------------------
(* The same for whole weights. *)
LEMMA WeightChain ==
  ASSUME NEW P, Apart(P), NEW a \in P, NEW b \in P, NEW x \in P,
         NEW s \in SUBSET ((P \ {a}) \ {b})
  PROVE  gf256_mul(Weight(s, a, b), Weight(s, b, x)) = Weight(s, a, x)
<1> DEFINE S == (P \ {a}) \ {b}
           Yes == {T \in SUBSET S : gf256_mul(Weight(T, a, b), Weight(T, b, x)) = Weight(T, a, x)}
<1>1. {} \in Yes
  <2>1. Weight({}, a, b) = One /\ Weight({}, b, x) = One /\ Weight({}, a, x) = One
    BY WeightIs
  <2> QED BY <2>1, MulOne, AddLaws
<1>2. ASSUME NEW T \in SUBSET S, NEW c \in S \ T, T \in Yes PROVE T \cup {c} \in Yes
  <2>0. /\ T \in SUBSET (P \ {a}) /\ c \in (P \ {a}) \ T
        /\ T \in SUBSET (P \ {b}) /\ c \in (P \ {b}) \ T
        /\ c \in P /\ c # a /\ c # b
    OBVIOUS
  <2>1. /\ Weight(T \cup {c}, a, b) = gf256_mul(Weight(T, a, b), Factor(b, c, a))
        /\ Weight(T, a, b) \in Byte
    BY <2>0, WeightIs
  <2>2. /\ Weight(T \cup {c}, b, x) = gf256_mul(Weight(T, b, x), Factor(x, c, b))
        /\ Weight(T, b, x) \in Byte
    BY <2>0, WeightIs
  <2>3. Weight(T \cup {c}, a, x) = gf256_mul(Weight(T, a, x), Factor(x, c, a))
    BY <2>0, WeightIs
  <2>4. Factor(b, c, a) \in Byte /\ Factor(x, c, b) \in Byte
    BY <2>0, FactorType
  <2>5. gf256_mul(Factor(b, c, a), Factor(x, c, b)) = Factor(x, c, a)
    BY <2>0, FactorChain
  <2>6. gf256_mul(gf256_mul(Weight(T, a, b), Factor(b, c, a)), gf256_mul(Weight(T, b, x), Factor(x, c, b)))
          = gf256_mul(gf256_mul(Weight(T, a, b), Weight(T, b, x)), gf256_mul(Factor(b, c, a), Factor(x, c, b)))
    BY <2>1, <2>2, <2>4, MulShuffle
  <2>7. gf256_mul(Weight(T, a, b), Weight(T, b, x)) = Weight(T, a, x)
    BY <1>2
  <2>8. gf256_mul(Weight(T \cup {c}, a, b), Weight(T \cup {c}, b, x)) = Weight(T \cup {c}, a, x)
    BY ONLY <2>1, <2>2, <2>3, <2>5, <2>6, <2>7
  <2>9. T \cup {c} \in SUBSET S
    OBVIOUS
  <2> QED BY <2>8, <2>9
<1>3. IsFiniteSet(S)
  BY FS_Subset DEF Apart
<1> HIDE DEF Yes
<1>4. \A T \in SUBSET S : T \in Yes
  <2> HIDE DEF S
  <2> QED BY ONLY <1>1, <1>2, <1>3, InductSets
<1>5. s \in Yes
  BY <1>4
<1> QED BY ONLY <1>5 DEF Yes

(* A point has the weight one at itself. *)
LEMMA WeightAtSelf ==
  ASSUME NEW P, Apart(P), NEW p \in P, NEW s \in SUBSET (P \ {p})
  PROVE  Weight(s, p, p) = One
<1> DEFINE S == P \ {p}
           Yes == {T \in SUBSET S : Weight(T, p, p) = One}
<1>1. {} \in Yes
  BY WeightIs
<1>2. ASSUME NEW T \in SUBSET S, NEW c \in S \ T, T \in Yes PROVE T \cup {c} \in Yes
  <2>1. Weight(T \cup {c}, p, p) = gf256_mul(Weight(T, p, p), Factor(p, c, p))
    BY WeightIs
  <2>2. c \in P /\ c # p
    OBVIOUS
  <2>3. Factor(p, c, p) = One
    BY <2>2, DifferenceInverts DEF Factor, gf256_div
  <2>4. gf256_mul(One, One) = One
    BY AddLaws, MulOne
  <2>5. T \cup {c} \in SUBSET S /\ Weight(T, p, p) = One
    BY <1>2
  <2> QED BY <2>1, <2>3, <2>4, <2>5
<1>3. IsFiniteSet(S)
  BY FS_Subset DEF Apart
<1> HIDE DEF Yes
<1>4. \A T \in SUBSET S : T \in Yes
  <2> HIDE DEF S
  <2> QED BY ONLY <1>1, <1>2, <1>3, InductSets
<1>5. s \in Yes
  BY <1>4
<1> QED BY ONLY <1>5 DEF Yes
------------------------------------------------------------------------------
(* The value at x of what goes through the points D of v. *)
Terms(D, v, x)   == [p \in D |-> gf256_mul(v[p], Weight(D, p, x))]
Through(D, v, x) == Total(Terms(D, v, x), D)

LEMMA WeightType ==
  ASSUME NEW P, Apart(P), NEW D \in SUBSET P, NEW p \in P, NEW x \in P
  PROVE  Weight(D, p, x) \in Byte
<1>1. D \ {p} \in SUBSET (P \ {p})
  OBVIOUS
<1>2. Weight(D \ {p}, p, x) \in Byte
  BY <1>1, WeightIs
<1> QED BY <1>2, WeightSelf

LEMMA InterpolateIs ==
  ASSUME NEW P, Apart(P), NEW D \in SUBSET P, NEW pts \in [D -> Byte], NEW x \in P
  PROVE  InterpolateByte(pts, x) = Through(D, pts, x)
<1> DEFINE F == Terms(D, pts, x)
           Rec(it) == it = [T \in SUBSET D |->
                              IF T = {} THEN {}
                              ELSE gf256_add(it[T \ {CHOOSE q \in T : TRUE}],
                                             gf256_mul(pts[CHOOSE q \in T : TRUE],
                                                       Weight(D, CHOOSE q \in T : TRUE, x)))]
<1>1. InterpolateByte(pts, x) = (CHOOSE it : Rec(it))[D]
  <2>1. DOMAIN pts = D
    OBVIOUS
  <2> QED BY <2>1 DEF InterpolateByte, FoldSet, MapThenFoldSet
<1>2. \A q \in D : F[q] = gf256_mul(pts[q], Weight(D, q, x))
  BY DEF Terms
<1>3. \A it : Rec(it) <=> AddFold(it, D, F)
  <2>1. \A T \in SUBSET D : T # {} => Pick(T) \in D
    BY PickIs
  <2> HIDE DEF F
  <2> QED BY <1>2, <2>1 DEF AddFold, Pick
<1>4. \A q \in D : F[q] \in Byte
  <2>1. ASSUME NEW q \in D PROVE gf256_mul(pts[q], Weight(D, q, x)) \in Byte
    <3>1. pts[q] \in Byte /\ Weight(D, q, x) \in Byte
      BY WeightType
    <3> QED BY <3>1, MulType
  <2> QED BY <1>2, <2>1
<1>5. IsFiniteSet(D)
  BY FS_Subset DEF Apart
<1> HIDE DEF F
<1>6. PICK f : AddFold(f, D, F) /\ Total(F, D) = f[D]
  BY <1>4, <1>5, TotalFold
<1> DEFINE g == CHOOSE it : Rec(it)
<1>7. Rec(g)
  <2>1. \E it : Rec(it)
    <3> HIDE DEF Rec
    <3> QED BY <1>3, <1>6
  <2> HIDE DEF Rec
  <2> QED BY <2>1
<1>8. AddFold(g, D, F)
  <2> HIDE DEF g, Rec
  <2> QED BY <1>3, <1>7
<1> HIDE DEF g, Rec
<1>9. IsSum(f, D, F) /\ IsSum(g, D, F)
  BY <1>4, <1>5, <1>6, <1>8, TotalFold
<1>10. f[D] = g[D]
  BY <1>5, <1>9, SumOnce
<1>11. InterpolateByte(pts, x) = g[D]
  BY <1>1 DEF g
<1> QED BY <1>6, <1>10, <1>11 DEF Through, F

(* What is left of the terms when the point c is taken away from E and c.  *)
Rest(E, c, v, x) ==
  [p \in E |-> gf256_mul(v[p], gf256_mul(Weight(E \ {p}, p, x), Factor(x, c, p)))]

LEMMA RestType ==
  ASSUME NEW P, Apart(P), NEW E \in SUBSET P, NEW c \in P \ E, NEW v \in [P -> Byte], NEW x \in P,
         NEW p \in E
  PROVE  Rest(E, c, v, x)[p] \in Byte
<1>1. p \in P /\ p # c /\ E \ {p} \in SUBSET (P \ {p}) /\ c \in P
  OBVIOUS
<1>2. Weight(E \ {p}, p, x) \in Byte
  BY <1>1, WeightIs
<1>3. Factor(x, c, p) \in Byte
  BY <1>1, FactorType
<1>4. v[p] \in Byte
  BY <1>1
<1>5. gf256_mul(Weight(E \ {p}, p, x), Factor(x, c, p)) \in Byte
  BY <1>2, <1>3, MulType
<1> QED BY <1>4, <1>5, MulType DEF Rest

LEMMA Peel ==
  ASSUME NEW P, Apart(P), NEW E \in SUBSET P, NEW c \in P \ E, NEW v \in [P -> Byte], NEW x \in P
  PROVE  Through(E \cup {c}, v, x)
           = gf256_add(Total(Rest(E, c, v, x), E), gf256_mul(v[c], Weight(E, c, x)))
<1> DEFINE D == E \cup {c}
           F == Terms(D, v, x)
<1>0. D \in SUBSET P /\ IsFiniteSet(D) /\ IsFiniteSet(E) /\ E \in SUBSET D /\ c \in D \ E
  BY FS_Subset DEF Apart
<1>1. ASSUME NEW p \in E
      PROVE  F[p] = Rest(E, c, v, x)[p] /\ F[p] \in Byte
  <2>1. (D \ {p}) = (E \ {p}) \cup {c}
    OBVIOUS
  <2>2. E \ {p} \in SUBSET (P \ {p}) /\ c \in (P \ {p}) \ (E \ {p}) /\ p \in P
    OBVIOUS
  <2>3. Weight(D, p, x) = Weight((E \ {p}) \cup {c}, p, x)
    BY <2>1, WeightSelf
  <2>4. Weight((E \ {p}) \cup {c}, p, x) = gf256_mul(Weight(E \ {p}, p, x), Factor(x, c, p))
    BY <2>2, WeightIs
  <2>5. Weight(D, p, x) \in Byte /\ v[p] \in Byte
    BY <1>0, <2>2, WeightType
  <2>6. F[p] = gf256_mul(v[p], Weight(D, p, x))
    BY DEF Terms
  <2>7. F[p] \in Byte
    BY <2>5, <2>6, MulType
  <2> QED BY <2>3, <2>4, <2>6, <2>7 DEF Rest
<1>2. F[c] = gf256_mul(v[c], Weight(E, c, x)) /\ F[c] \in Byte
  <2>1. D \ {c} = E
    OBVIOUS
  <2>2. Weight(D, c, x) = Weight(E, c, x)
    BY <2>1, WeightSelf
  <2>3. Weight(D, c, x) \in Byte /\ v[c] \in Byte
    BY <1>0, WeightType
  <2>4. F[c] = gf256_mul(v[c], Weight(D, c, x))
    BY DEF Terms
  <2>5. F[c] \in Byte
    BY <2>3, <2>4, MulType
  <2> QED BY <2>2, <2>4, <2>5
<1>3. \A q \in D : F[q] \in Byte
  BY <1>1, <1>2
<1> HIDE DEF F
<1>4. Total(F, E \cup {c}) = gf256_add(Total(F, E), F[c])
  BY <1>0, <1>3, TotalIs
<1>5. Total(Rest(E, c, v, x), E) = Total(F, E)
  <2>1. \A q \in E : F[q] \in Byte /\ Rest(E, c, v, x)[q] = F[q]
    BY <1>1
  <2> QED BY ONLY <1>0, <2>1, TotalSame
<1> QED BY <1>1, <1>2, <1>4, <1>5 DEF Through, F

(* Interpolation goes through its points. *)
LEMMA ThroughItsPoints ==
  ASSUME NEW P, Apart(P), NEW D \in SUBSET P, NEW v \in [P -> Byte], NEW d \in D
  PROVE  Through(D, v, d) = v[d]
<1> DEFINE E == D \ {d}
<1>1. E \in SUBSET P /\ d \in P \ E /\ E \cup {d} = D /\ d \in P /\ E \in SUBSET (P \ {d})
  OBVIOUS
<1>2. IsFiniteSet(E)
  BY FS_Subset DEF Apart
<1> HIDE DEF E
<1>3. Through(D, v, d) = gf256_add(Total(Rest(E, d, v, d), E), gf256_mul(v[d], Weight(E, d, d)))
  <2>1. Through(E \cup {d}, v, d) = gf256_add(Total(Rest(E, d, v, d), E), gf256_mul(v[d], Weight(E, d, d)))
    BY <1>1, Peel
  <2> QED BY ONLY <1>1, <2>1
<1>4. ASSUME NEW p \in E PROVE Rest(E, d, v, d)[p] = {}
  <2>1. p \in P /\ p # d /\ E \ {p} \in SUBSET (P \ {p})
    BY <1>1
  <2>2. Factor(d, d, p) = {}
    <3>1. gf256_add(ToByte(d), ToByte(d)) = {}
      BY PointType, AddLaws
    <3>2. gf256_inv(gf256_add(ToByte(p), ToByte(d))) \in Byte
      BY <1>1, <2>1, DifferenceInverts
    <3> QED BY <3>1, <3>2, MulZero DEF Factor, gf256_div
  <2>3. Weight(E \ {p}, p, d) \in Byte /\ v[p] \in Byte
    BY <1>1, <2>1, WeightIs
  <2>4. gf256_mul(v[p], gf256_mul(Weight(E \ {p}, p, d), {})) = {}
    BY <2>3, MulZero
  <2> QED BY <2>2, <2>4 DEF Rest
<1>5. Total(Rest(E, d, v, d), E) = {}
  BY ONLY <1>2, <1>4, TotalZero
<1>6. Weight(E, d, d) = One
  BY <1>1, WeightAtSelf
<1>7. gf256_mul(v[d], One) = v[d] /\ gf256_add({}, v[d]) = v[d]
  BY <1>1, FieldLaws
<1> QED BY ONLY <1>3, <1>5, <1>6, <1>7

(* If what goes through E and a takes the value of v at b, then what goes  *)
(* through E and b is the same.                                            *)
LEMMA Exchange ==
  ASSUME NEW P, Apart(P), NEW E \in SUBSET P, NEW a \in P \ E, NEW b \in P \ E, a # b,
         NEW v \in [P -> Byte], NEW x \in P, v[b] = Through(E \cup {a}, v, b)
  PROVE  Through(E \cup {b}, v, x) = Through(E \cup {a}, v, x)
<1> DEFINE FA == Rest(E, a, v, x)
           FB == Rest(E, b, v, x)
           FM == Rest(E, a, v, b)
           FG == [p \in E |-> gf256_mul(Weight(E, b, x), FM[p])]
<1>0. IsFiniteSet(E) /\ E \in SUBSET (P \ {a}) /\ E \in SUBSET (P \ {b}) /\ a \in P /\ b \in P
  BY FS_Subset DEF Apart
<1>1. PICK w \in Byte : w = Weight(E, b, x)
  BY <1>0, WeightIs
<1>2. Through(E \cup {a}, v, x) = gf256_add(Total(FA, E), gf256_mul(v[a], Weight(E, a, x)))
  BY Peel
<1>3. Through(E \cup {b}, v, x) = gf256_add(Total(FB, E), gf256_mul(v[b], w))
  <2>1. Through(E \cup {b}, v, x)
          = gf256_add(Total(Rest(E, b, v, x), E), gf256_mul(v[b], Weight(E, b, x)))
    BY Peel
  <2> QED BY ONLY <1>1, <2>1
<1>4. v[b] = gf256_add(Total(FM, E), gf256_mul(v[a], Weight(E, a, b)))
  <2>1. Through(E \cup {a}, v, b)
          = gf256_add(Total(Rest(E, a, v, b), E), gf256_mul(v[a], Weight(E, a, b)))
    BY <1>0, Peel
  <2> QED BY ONLY <2>1, v[b] = Through(E \cup {a}, v, b)
<1>5. /\ \A p \in E : FA[p] \in Byte
      /\ \A p \in E : FB[p] \in Byte
      /\ \A p \in E : FM[p] \in Byte
  <2>1. \A p \in E : FA[p] \in Byte
    BY RestType
  <2>2. \A p \in E : FB[p] \in Byte
    BY RestType
  <2>3. \A p \in E : FM[p] \in Byte
    BY <1>0, RestType
  <2> QED BY ONLY <2>1, <2>2, <2>3
<1>6. ASSUME NEW p \in E PROVE FA[p] = gf256_add(FB[p], FG[p])
  <2>0. p \in P /\ p # a /\ p # b /\ E \ {p} \in SUBSET (P \ {p})
        /\ E \ {p} \in SUBSET (P \ {b}) /\ p \in (P \ {b}) \ (E \ {p})
        /\ E \ {p} \in SUBSET ((P \ {p}) \ {b}) /\ (E \ {p}) \cup {p} = E
    BY <1>0
  <2>1. PICK u \in Byte : u = Weight(E \ {p}, p, x)
    BY <2>0, WeightIs
  <2>2. PICK m \in Byte : m = Weight(E \ {p}, p, b)
    BY <1>0, <2>0, WeightIs
  <2>3. PICK r \in Byte : r = Weight(E \ {p}, b, x)
    BY <1>0, <2>0, WeightIs
  <2>4. PICK f \in Byte : f = Factor(x, p, b)
    BY <1>0, <2>0, FactorType
  <2>5. PICK g \in Byte : g = Factor(b, a, p)
    BY <1>0, <2>0, FactorType
  <2>6. PICK h \in Byte : h = Factor(x, b, p)
    BY <1>0, <2>0, FactorType
  <2>7. PICK y \in Byte : y = v[p]
    BY <2>0
  <2>8. w = gf256_mul(r, f)
    <3> DEFINE Z == E \ {p}
    <3>1. Z \in SUBSET (P \ {b}) /\ p \in (P \ {b}) \ Z /\ Z \cup {p} = E /\ r = Weight(Z, b, x)
      BY ONLY <2>0, <2>3
    <3> HIDE DEF Z
    <3>2. Weight(Z \cup {p}, b, x) = gf256_mul(Weight(Z, b, x), Factor(x, p, b))
      BY ONLY Apart(P), x \in P, <1>0, <3>1, WeightIs
    <3> QED BY ONLY <1>1, <2>4, <3>1, <3>2
  <2>9. gf256_mul(m, r) = u
    BY <1>0, <2>0, <2>1, <2>2, <2>3, WeightChain
  <2>10. gf256_add(h, gf256_mul(f, g)) = Factor(x, a, p)
    BY <1>0, <2>0, <2>4, <2>5, <2>6, FactorSum
  <2>11. /\ FA[p] = gf256_mul(y, gf256_mul(u, Factor(x, a, p)))
         /\ FB[p] = gf256_mul(y, gf256_mul(u, h))
         /\ FM[p] = gf256_mul(y, gf256_mul(m, g))
    BY <2>1, <2>2, <2>5, <2>6, <2>7 DEF Rest
  <2>12. FG[p] = gf256_mul(w, FM[p])
    BY <1>1
  <2> HIDE DEF FA, FB, FM, FG
  <2>13. gf256_mul(f, g) \in Byte /\ gf256_mul(m, g) \in Byte
    BY MulType
  <2>14. gf256_mul(w, gf256_mul(y, gf256_mul(m, g))) = gf256_mul(y, gf256_mul(u, gf256_mul(f, g)))
    <3>1. gf256_mul(w, gf256_mul(y, gf256_mul(m, g))) = gf256_mul(y, gf256_mul(w, gf256_mul(m, g)))
      BY <2>13, MulShuffle
    <3>2. gf256_mul(gf256_mul(r, f), gf256_mul(m, g)) = gf256_mul(gf256_mul(r, m), gf256_mul(f, g))
      BY MulShuffle
    <3>3. gf256_mul(r, m) = gf256_mul(m, r)
      BY MulCommutes
    <3> QED BY ONLY <3>1, <3>2, <3>3, <2>8, <2>9
  <2>15. gf256_mul(u, gf256_add(h, gf256_mul(f, g)))
           = gf256_add(gf256_mul(u, h), gf256_mul(u, gf256_mul(f, g)))
    BY <2>13, MulRight
  <2>16. gf256_mul(u, h) \in Byte /\ gf256_mul(u, gf256_mul(f, g)) \in Byte
    BY <2>13, MulType
  <2>17. gf256_mul(y, gf256_add(gf256_mul(u, h), gf256_mul(u, gf256_mul(f, g))))
           = gf256_add(gf256_mul(y, gf256_mul(u, h)), gf256_mul(y, gf256_mul(u, gf256_mul(f, g))))
    BY <2>16, MulRight
  <2> QED BY ONLY <2>10, <2>11, <2>12, <2>14, <2>15, <2>17
<1>7. Total(FG, E) = gf256_mul(w, Total(FM, E))
  <2>1. \A p \in E : FM[p] \in Byte /\ FG[p] = gf256_mul(w, FM[p])
    <3>1. \A p \in E : FG[p] = gf256_mul(w, FM[p])
      BY <1>1
    <3> HIDE DEF FG, FM
    <3> QED BY <1>5, <3>1
  <2> HIDE DEF FG, FM
  <2> QED BY ONLY <1>0, <2>1, TotalScales
<1>8. Total(FA, E) = gf256_add(Total(FB, E), Total(FG, E))
  <2>1. \A p \in E : FG[p] \in Byte
    <3>1. ASSUME NEW p \in E PROVE FG[p] = gf256_mul(w, FM[p]) /\ FM[p] \in Byte
      BY <1>1, <1>5
    <3> HIDE DEF FG, FM
    <3> QED BY <3>1, MulType
  <2>2. \A p \in E : FB[p] \in Byte /\ FG[p] \in Byte /\ FA[p] = gf256_add(FB[p], FG[p])
    <3> HIDE DEF FA, FB, FG
    <3> QED BY <1>5, <1>6, <2>1
  <2> HIDE DEF FA, FB, FG
  <2> QED BY ONLY <1>0, <2>2, TotalAdds
<1>9. gf256_mul(v[b], w) = gf256_add(gf256_mul(w, Total(FM, E)), gf256_mul(v[a], Weight(E, a, x)))
  <2>1. PICK t \in Byte : t = Total(FM, E)
    <3> HIDE DEF FM
    <3> QED BY <1>0, <1>5, TotalIs
  <2>2. PICK z \in Byte : z = Weight(E, a, b)
    BY <1>0, WeightIs
  <2>3. PICK y \in Byte : y = v[a]
    BY <1>0
  <2>4. gf256_mul(z, w) = Weight(E, a, x)
    <3>1. E \in SUBSET ((P \ {a}) \ {b})
      OBVIOUS
    <3> QED BY <1>0, <1>1, <2>2, <3>1, WeightChain
  <2>5. v[b] = gf256_add(t, gf256_mul(y, z)) /\ gf256_mul(y, z) \in Byte
    BY <1>4, <2>1, <2>2, <2>3, MulType
  <2>6. gf256_mul(gf256_add(t, gf256_mul(y, z)), w)
          = gf256_add(gf256_mul(t, w), gf256_mul(gf256_mul(y, z), w))
    BY <2>5, MulLeft
  <2>7. gf256_mul(gf256_mul(y, z), w) = gf256_mul(y, gf256_mul(z, w)) /\ gf256_mul(t, w) = gf256_mul(w, t)
    BY MulAssociates, MulCommutes
  <2> HIDE DEF FM
  <2> QED BY ONLY <2>1, <2>3, <2>4, <2>5, <2>6, <2>7
<1> HIDE DEF FA, FB, FM, FG
<1>10. Total(FB, E) \in Byte /\ Total(FG, E) \in Byte
  <2>1. Total(FB, E) \in Byte
    BY <1>0, <1>5, TotalIs
  <2>2. Total(FM, E) \in Byte
    BY <1>0, <1>5, TotalIs
  <2> QED BY <1>7, <2>1, <2>2, MulType
<1>11. gf256_mul(v[a], Weight(E, a, x)) \in Byte
  <2>1. v[a] \in Byte /\ Weight(E, a, x) \in Byte
    BY <1>0, WeightIs
  <2> QED BY <2>1, MulType
<1>12. gf256_add(gf256_add(Total(FB, E), Total(FG, E)), gf256_mul(v[a], Weight(E, a, x)))
         = gf256_add(Total(FB, E), gf256_add(Total(FG, E), gf256_mul(v[a], Weight(E, a, x))))
  BY <1>10, <1>11, AddLaws
<1> QED BY ONLY <1>2, <1>3, <1>7, <1>8, <1>9, <1>12

(* The points D give all points of P. *)
Determines(D, v, P) == \A x \in P : Through(D, v, x) = v[x]

(* If the points K determine all others, so do any points that are as many.*)
THEOREM AnyPoints ==
  ASSUME NEW P, Apart(P), NEW K \in SUBSET P, NEW v \in [P -> Byte], Determines(K, v, P),
         NEW Q \in SUBSET P, Cardinality(Q) = Cardinality(K), NEW y \in P
  PROVE  Through(Q, v, y) = v[y]
<1> DEFINE Good(D) == Determines(D, v, P)
           Yes == {k \in Nat : \A D \in SUBSET P :
                     Cardinality(D) = Cardinality(K) /\ Cardinality(K \ D) = k => Good(D)}
<1>0. \A D \in SUBSET P : IsFiniteSet(D) /\ Cardinality(D) \in Nat
  BY FS_Subset, FS_CardinalityType DEF Apart
<1>1. 0 \in Yes
  <2>1. ASSUME NEW D \in SUBSET P, Cardinality(D) = Cardinality(K), Cardinality(K \ D) = 0
        PROVE  Good(D)
    <3>1. K \ D = {}
      BY <1>0, <2>1, FS_EmptySet
    <3>2. K \in SUBSET D
      BY <3>1
    <3>3. D = K
      BY <1>0, <2>1, <3>2, FS_Subset
    <3> QED BY <3>3
  <2> HIDE DEF Good
  <2> QED BY <2>1
<1>2. ASSUME NEW k \in Nat, k \in Yes PROVE k + 1 \in Yes
  <2>1. ASSUME NEW D \in SUBSET P, Cardinality(D) = Cardinality(K), Cardinality(K \ D) = k + 1
        PROVE  Good(D)
    <3>1. PICK a : a \in K \ D
      <4>1. K \ D # {}
        BY <2>1, FS_EmptySet
      <4> QED BY <4>1
    <3>2. PICK b : b \in D \ K
      <4>1. CASE D \subseteq K
        <5>1. D \in SUBSET K
          BY <4>1
        <5>2. D = K
          BY <1>0, <2>1, <5>1, FS_Subset
        <5> QED BY <3>1, <5>2
      <4>2. CASE ~(D \subseteq K)
        BY <4>2
      <4> QED BY <4>1, <4>2
    <3> DEFINE E == D \ {b}
    <3>3. /\ E \in SUBSET P /\ a \in P \ E /\ b \in P \ E /\ a # b /\ E \cup {b} = D
          /\ E \cup {a} \in SUBSET P /\ K \ (E \cup {a}) = (K \ D) \ {a} /\ a \in K \ D
          /\ a \notin E /\ b \in D /\ K \ D \in SUBSET P
      BY <3>1, <3>2
    <3>4. Cardinality(E) = Cardinality(D) - 1
      BY <1>0, <3>3, SizeWithout
    <3> HIDE DEF E
    <3>5. Cardinality(E \cup {a}) = Cardinality(K)
      <4>1. Cardinality(E \cup {a}) = Cardinality(E) + 1
        BY <1>0, <3>3, FS_AddElement
      <4>2. Cardinality(K) \in Nat
        BY <1>0
      <4> QED BY ONLY <2>1, <3>4, <4>1, <4>2
    <3>6. Cardinality(K \ (E \cup {a})) = k
      <4>1. Cardinality((K \ D) \ {a}) = Cardinality(K \ D) - 1
        BY <1>0, <3>3, SizeWithout
      <4> QED BY ONLY <2>1, <3>3, <4>1, k \in Nat
    <3>7. Good(E \cup {a})
      <4> HIDE DEF Good
      <4> QED BY <1>2, <3>3, <3>5, <3>6
    <3>8. ASSUME NEW x \in P PROVE Through(D, v, x) = v[x]
      <4>1. v[b] = Through(E \cup {a}, v, b) /\ Through(E \cup {a}, v, x) = v[x]
        BY <3>3, <3>7 DEF Determines
      <4>2. Through(E \cup {b}, v, x) = Through(E \cup {a}, v, x)
        BY <3>3, <4>1, Exchange
      <4> QED BY ONLY <3>3, <4>1, <4>2
    <3> QED BY <3>8 DEF Determines
  <2>2. k + 1 \in Nat
    OBVIOUS
  <2> HIDE DEF Good
  <2> QED BY ONLY <2>1, <2>2
<1>3. \A k \in Nat : k \in Yes
  <2> HIDE DEF Yes
  <2> QED BY <1>1, <1>2, Induct
<1>4. Cardinality(K \ Q) \in Nat
  <2>1. K \ Q \in SUBSET P
    OBVIOUS
  <2> QED BY <1>0, <2>1
<1>5. Good(Q)
  <2>1. Cardinality(K \ Q) \in Yes
    BY ONLY <1>3, <1>4
  <2> HIDE DEF Good
  <2> QED BY <2>1
<1> QED BY ONLY <1>5, y \in P DEF Determines
------------------------------------------------------------------------------
(***************************************************************************)
(* The split: slip0039_split and slip0039_print_mnemonics.                 *)
(***************************************************************************)

InRange == \A job \in Jobs : job.spec.GT >= 1 /\ job.spec.e < 32

(* What the jobs leave in the structure. *)
OptionsInv ==
  /\ SizeOK(n) /\ e \in 0 .. 31
  /\ count[ROOT] \in 1 .. MaxShares
  /\ \A s \in Sets :
       s < count[ROOT] => threshold[s] \in 1 .. count[s] /\ count[s] \in 1 .. MaxShares

(* All shares of a set are there. *)
Done(s) == 0 .. count[s] - 1 \subseteq DOMAIN shares[s]

(* Sets before the one that is split are done, those behind it empty. *)
ProgressInv ==
  /\ shares = [s \in Sets |-> shares[s]]
  /\ phase \in {"enter", "draw", "print", "printed"}
  /\ cur \in Sets /\ cur < count[ROOT]
  /\ \A s \in Sets : s < cur => Done(s)
  /\ \A s \in Sets : s > cur => DOMAIN shares[s] = {}
  /\ phase = "enter" => DOMAIN shares[cur] = {SecretX}
  /\ phase = "draw" =>
       /\ threshold[cur] >= 2 /\ i \in 0 .. threshold[cur] - 2
       /\ DOMAIN shares[cur] = {SecretX, DigestX} \cup 0 .. i - 1
  /\ phase \in {"print", "printed"} => cur = count[ROOT] - 1 /\ Done(cur)

SplitInv == OptionsInv /\ ProgressInv

(* Put and Merge on the sides that are read. *)
LEMMA PutAdds ==
  ASSUME NEW f, NEW k, NEW v
  PROVE  /\ DOMAIN Put(f, k, v) = DOMAIN f \cup {k}
         /\ \A x \in DOMAIN f : x # k => Put(f, k, v)[x] = f[x]
BY DEF Put

LEMMA MergeAdds ==
  ASSUME NEW f, NEW g
  PROVE  /\ DOMAIN Merge(f, g) = DOMAIN f \cup DOMAIN g
         /\ \A x \in DOMAIN g : x \notin DOMAIN f => Merge(f, g)[x] = g[x]
BY DEF Merge

LEMMA SetFacts ==
  /\ ROOT \in Sets /\ MaxShares \in 1 .. 254
  /\ \A s \in Sets : s \in Int /\ s >= -1 /\ s < MaxShares
  /\ \A s \in Int : s >= -1 /\ s < MaxShares => s \in Sets
  /\ SecretX = 255 /\ DigestX = 254 /\ ROOT = -1
BY RoomAssumption DEF Sets, Index, ROOT, SecretX, DigestX

(* What the beginning of the split leaves behind. *)
LEMMA Begins == ASSUME InRange PROVE Init => SplitInv
<1> SUFFICES ASSUME Init PROVE SplitInv
  OBVIOUS
<1>1. PICK job \in Jobs :
        LET s == job.spec
            G == Len(s.groups)
        IN
        /\ n = job.n /\ e = s.e
        /\ threshold = [t \in Sets |-> IF t = ROOT THEN s.GT
                                       ELSE IF t < G THEN s.groups[t + 1].T ELSE 0]
        /\ count = [t \in Sets |-> IF t = ROOT THEN G
                                   ELSE IF t < G THEN s.groups[t + 1].N ELSE 0]
        /\ shares = [t \in Sets |-> [k \in (IF t = ROOT THEN {SecretX} ELSE {}) |-> job.secret]]
        /\ cur = ROOT /\ i = 0 /\ phase = "enter" /\ printed = {}
  BY DEF Init
<1> DEFINE groups == job.spec.groups
           G == Len(groups)
<1>2. /\ Accepted(job.spec) /\ SizeOK(job.n)
      /\ job.spec.GT >= 1 /\ job.spec.e < 32
  BY JobsAssumption DEF InRange
<1>3. /\ G \in 1 .. MaxShares /\ job.spec.GT \in 1 .. G /\ job.spec.e \in 0 .. 31
      /\ \A g \in 1 .. G : groups[g].T \in 1 .. MaxShares /\ groups[g].N \in groups[g].T .. MaxShares
  BY <1>2, SetFacts DEF Accepted, MaxExp
<1>4. count[ROOT] = G /\ threshold[ROOT] = job.spec.GT
  BY <1>1, SetFacts
<1>5. \A s \in Sets : s < G => threshold[s] \in 1 .. count[s] /\ count[s] \in 1 .. MaxShares
  <2> SUFFICES ASSUME NEW s \in Sets, s < G
               PROVE  threshold[s] \in 1 .. count[s] /\ count[s] \in 1 .. MaxShares
    OBVIOUS
  <2>1. CASE s = ROOT
    BY <2>1, <1>3, <1>4, SetFacts
  <2>2. CASE s # ROOT
    <3>1. s + 1 \in 1 .. G
      BY <2>2, <1>3, SetFacts
    <3>2. threshold[s] = groups[s + 1].T /\ count[s] = groups[s + 1].N
      BY <2>2, <1>1
    <3> QED BY <3>1, <3>2, <1>3, SetFacts
  <2> QED BY <2>1, <2>2
<1>6. OptionsInv
  BY <1>1, <1>2, <1>3, <1>4, <1>5 DEF OptionsInv
<1>7. /\ shares = [s \in Sets |-> shares[s]]
      /\ DOMAIN shares[ROOT] = {SecretX}
      /\ \A s \in Sets : s # ROOT => DOMAIN shares[s] = {}
  BY <1>1, SetFacts
<1>8. ProgressInv
  BY <1>1, <1>3, <1>4, <1>7, SetFacts DEF ProgressInv
<1> QED BY <1>6, <1>8 DEF SplitInv

(* The end of a set: it is done, and all others are as before, apart from  *)
(* the next one, which has its secret now if there is a next one.          *)
LEMMA GoesOn ==
  ASSUME SplitInv, NEW done, NextSet(done), UNCHANGED options,
         phase \in {"enter", "draw"},
         done = [s \in Sets |-> done[s]],
         \A s \in Sets : s # cur => done[s] = shares[s],
         0 .. count[cur] - 1 \subseteq DOMAIN done[cur]
  PROVE  /\ SplitInv'
         /\ \A s \in Sets : \A k \in DOMAIN done[s] :
              k \in DOMAIN shares'[s] /\ shares'[s][k] = done[s][k]
<1> USE SetFacts
<1>1. OptionsInv'
  BY DEF SplitInv, OptionsInv, options
<1>2. /\ cur \in Sets /\ cur < count[ROOT] /\ count[ROOT] \in 1 .. MaxShares
      /\ count' = count /\ threshold' = threshold
  BY DEF SplitInv, ProgressInv, OptionsInv, options
<1>3. \A s \in Sets : s <= cur => 0 .. count[s] - 1 \subseteq DOMAIN done[s]
  BY <1>2 DEF SplitInv, ProgressInv, Done
<1>4. \A s \in Sets : s > cur => DOMAIN done[s] = {}
  BY <1>2 DEF SplitInv, ProgressInv
<1>5. CASE cur + 1 < count[ROOT]
  <2>1. cur + 1 \in 0 .. count[ROOT] - 1 /\ cur + 1 \in Sets
    BY <1>2, <1>5
  <2>2. cur + 1 \in DOMAIN done[ROOT]
    BY <2>1, <1>2, <1>3
  <2>3. /\ cur' = cur + 1 /\ i' = 0 /\ phase' = "enter"
        /\ shares' = [done EXCEPT ![cur + 1] = Put(done[cur + 1], SecretX, done[ROOT][cur + 1])]
    BY <1>5, <2>2 DEF NextSet
  <2>4. /\ shares' = [s \in Sets |-> shares'[s]]
        /\ \A s \in Sets : s # cur + 1 => shares'[s] = done[s]
        /\ shares'[cur + 1] = Put(done[cur + 1], SecretX, done[ROOT][cur + 1])
    BY <2>1, <2>3
  <2>5. DOMAIN shares'[cur + 1] = {SecretX}
    <3>1. DOMAIN done[cur + 1] = {}
      BY <2>1, <1>4, <1>2
    <3>2. DOMAIN Put(done[cur + 1], SecretX, done[ROOT][cur + 1])
            = DOMAIN done[cur + 1] \cup {SecretX}
      BY ONLY PutAdds
    <3> HIDE SetFacts
    <3> QED BY <3>1, <3>2, <2>4
  <2>6. ProgressInv'
    <3>1. \A s \in Sets : s < cur' => Done(s)'
      BY <2>3, <2>4, <1>2, <1>3 DEF Done
    <3>2. \A s \in Sets : s > cur' => DOMAIN shares'[s] = {}
      BY <2>3, <2>4, <1>2, <1>4
    <3> QED BY <3>1, <3>2, <2>1, <2>3, <2>4, <2>5, <1>2 DEF ProgressInv
  <2>7. \A s \in Sets : \A k \in DOMAIN done[s] :
          k \in DOMAIN shares'[s] /\ shares'[s][k] = done[s][k]
    BY <2>4, <2>1, <1>4, <1>2
  <2> QED BY <1>1, <2>6, <2>7 DEF SplitInv
<1>6. CASE ~(cur + 1 < count[ROOT])
  <2>1. cur = count[ROOT] - 1
    BY <1>2, <1>6
  <2>2. phase' = "print" /\ shares' = done /\ cur' = cur /\ i' = i
    BY <1>6 DEF NextSet
  <2>3. ProgressInv'
    BY <2>1, <2>2, <1>2, <1>3, <1>4 DEF ProgressInv, Done
  <2> QED BY <1>1, <2>2, <2>3 DEF SplitInv
<1> QED BY <1>5, <1>6

(* A set that is entered with its secret and nothing else. *)
LEMMA EnterSetGoesOn ==
  ASSUME SplitInv, EnterSet
  PROVE  /\ SplitInv'
         /\ \A s \in Sets : \A k \in DOMAIN shares[s] :
              k \in DOMAIN shares'[s] /\ shares'[s][k] = shares[s][k]
<1> USE SetFacts
<1>1. /\ phase = "enter" /\ DOMAIN shares[cur] = {SecretX} /\ UNCHANGED options
      /\ shares = [s \in Sets |-> shares[s]]
      /\ cur \in Sets /\ cur < count[ROOT] /\ count[ROOT] \in 1 .. MaxShares
      /\ threshold[cur] \in 1 .. count[cur] /\ count[cur] \in 1 .. MaxShares
  BY DEF SplitInv, ProgressInv, OptionsInv, EnterSet
<1>2. CASE threshold[cur] = 1
  <2> DEFINE copies == [k \in 0 .. count[cur] - 1 |-> shares[cur][SecretX]]
             done   == [shares EXCEPT ![cur] = Merge(copies, shares[cur])]
  <2>1. NextSet(done)
    BY <1>1, <1>2 DEF EnterSet
  <2>2. /\ done = [s \in Sets |-> done[s]]
        /\ \A s \in Sets : s # cur => done[s] = shares[s]
        /\ done[cur] = Merge(copies, shares[cur])
    BY <1>1
  <2>3. /\ DOMAIN Merge(copies, shares[cur]) = DOMAIN copies \cup DOMAIN shares[cur]
        /\ \A k \in DOMAIN shares[cur] :
             k \notin DOMAIN copies => Merge(copies, shares[cur])[k] = shares[cur][k]
    BY ONLY MergeAdds
  <2>4. DOMAIN copies = 0 .. count[cur] - 1
    OBVIOUS
  <2>5. 0 .. count[cur] - 1 \subseteq DOMAIN done[cur]
    BY <2>2, <2>3, <2>4
  <2>6. \A k \in DOMAIN shares[cur] : k \in DOMAIN done[cur] /\ done[cur][k] = shares[cur][k]
    <3>1. SecretX \notin DOMAIN copies
      <4>1. count[cur] \in 1 .. 254
        BY <1>1
      <4>2. SecretX \notin 0 .. count[cur] - 1
        BY ONLY <4>1 DEF SecretX
      <4> QED BY ONLY <2>4, <4>2
    <3> QED BY <3>1, <2>2, <2>3, <1>1
  <2> HIDE DEF done
  <2>7. /\ SplitInv'
        /\ \A s \in Sets : \A k \in DOMAIN done[s] :
             k \in DOMAIN shares'[s] /\ shares'[s][k] = done[s][k]
    <3>1. phase \in {"enter", "draw"}
      BY <1>1
    <3>2. UNCHANGED options
      BY <1>1
    <3> QED BY ONLY <2>1, <2>2, <2>5, <3>1, <3>2, SplitInv, GoesOn
  <2>8. \A s \in Sets : \A k \in DOMAIN shares[s] :
          k \in DOMAIN done[s] /\ done[s][k] = shares[s][k]
    <3> SUFFICES ASSUME NEW s \in Sets, NEW k \in DOMAIN shares[s]
                 PROVE  k \in DOMAIN done[s] /\ done[s][k] = shares[s][k]
      OBVIOUS
    <3>1. CASE s = cur
      BY ONLY <3>1, <2>6
    <3>2. CASE s # cur
      BY ONLY <3>2, <2>2
    <3> QED BY ONLY <3>1, <3>2
  <2> HIDE DEF copies
  <2> QED BY ONLY <2>7, <2>8
<1>3. CASE threshold[cur] # 1
  <2>1. PICK draw \in Draws :
          /\ shares' = [shares EXCEPT ![cur] =
                          Put(shares[cur], DigestX, DigestOf(draw[2], shares[cur][SecretX]))]
          /\ phase' = "draw" /\ i' = 0 /\ cur' = cur
    BY <1>1, <1>3 DEF EnterSet
  <2> DEFINE digest == DigestOf(draw[2], shares[cur][SecretX])
  <2>2. /\ DOMAIN Put(shares[cur], DigestX, digest) = DOMAIN shares[cur] \cup {DigestX}
        /\ \A x \in DOMAIN shares[cur] :
             x # DigestX => Put(shares[cur], DigestX, digest)[x] = shares[cur][x]
    BY ONLY DEF Put
  <2>3. /\ shares' = [s \in Sets |-> shares'[s]]
        /\ \A s \in Sets : s # cur => shares'[s] = shares[s]
        /\ shares'[cur] = Put(shares[cur], DigestX, digest)
    BY <2>1, <1>1
  <2> HIDE DEF digest
  <2>4. DOMAIN shares'[cur] = {SecretX, DigestX} \cup 0 .. i' - 1
    <3>1. 0 .. i' - 1 = {}
      BY ONLY <2>1
    <3>2. DOMAIN shares'[cur] = {SecretX} \cup {DigestX}
      BY ONLY <1>1, <2>2, <2>3
    <3> QED BY ONLY <3>1, <3>2
  <2>5. OptionsInv'
    BY <1>1 DEF SplitInv, OptionsInv, options
  <2>6. ProgressInv'
    <3>1. count' = count /\ threshold' = threshold /\ threshold[cur] >= 2
      BY <1>1, <1>3 DEF options
    <3>2. \A s \in Sets : s < cur => Done(s)'
      BY <3>1, <2>3, <1>1 DEF SplitInv, ProgressInv, Done
    <3>3. \A s \in Sets : s > cur => DOMAIN shares'[s] = {}
      BY <2>3, <1>1 DEF SplitInv, ProgressInv
    <3> QED BY <3>1, <3>2, <3>3, <2>1, <2>3, <2>4, <1>1 DEF ProgressInv
  <2>7. \A k \in DOMAIN shares[cur] : k \in DOMAIN shares'[cur] /\ shares'[cur][k] = shares[cur][k]
    BY <2>2, <2>3, <1>1
  <2> QED BY <2>3, <2>5, <2>6, <2>7 DEF SplitInv
<1> QED BY <1>2, <1>3

LEMMA DrawShareGoesOn ==
  ASSUME SplitInv, DrawShare
  PROVE  /\ SplitInv'
         /\ \A s \in Sets : \A k \in DOMAIN shares[s] :
              k \in DOMAIN shares'[s] /\ shares'[s][k] = shares[s][k]
<1> USE SetFacts
<1>1. /\ phase = "draw" /\ phase' = "draw" /\ cur' = cur /\ i' = i + 1 /\ UNCHANGED options
      /\ shares = [s \in Sets |-> shares[s]]
      /\ cur \in Sets /\ cur < count[ROOT] /\ count[ROOT] \in 1 .. MaxShares
      /\ threshold[cur] \in 1 .. count[cur] /\ count[cur] \in 1 .. MaxShares
      /\ threshold[cur] >= 2 /\ i \in 0 .. threshold[cur] - 3
      /\ DOMAIN shares[cur] = {SecretX, DigestX} \cup 0 .. i - 1
  BY DEF SplitInv, ProgressInv, OptionsInv, DrawShare
<1>2. PICK draw \in Draws : shares' = [shares EXCEPT ![cur] = Put(shares[cur], i, draw)]
  BY DEF DrawShare
<1>3. /\ DOMAIN Put(shares[cur], i, draw) = DOMAIN shares[cur] \cup {i}
      /\ \A x \in DOMAIN shares[cur] : x # i => Put(shares[cur], i, draw)[x] = shares[cur][x]
  <2> DEFINE f == shares[cur]
  <2> SUFFICES /\ DOMAIN Put(f, i, draw) = DOMAIN f \cup {i}
               /\ \A x \in DOMAIN f : x # i => Put(f, i, draw)[x] = f[x]
    OBVIOUS
  <2> HIDE SetFacts DEF f
  <2> QED BY DEF Put
<1>4. /\ shares' = [s \in Sets |-> shares'[s]]
      /\ \A s \in Sets : s # cur => shares'[s] = shares[s]
      /\ shares'[cur] = Put(shares[cur], i, draw)
  BY <1>1, <1>2
<1>5. DOMAIN shares'[cur] = {SecretX, DigestX} \cup 0 .. i' - 1
  BY <1>1, <1>3, <1>4
<1>6. OptionsInv'
  BY <1>1 DEF SplitInv, OptionsInv, options
<1>7. ProgressInv'
  <2>1. count' = count /\ threshold' = threshold /\ i' \in 0 .. threshold'[cur'] - 2
    BY <1>1 DEF options
  <2>2. \A s \in Sets : s < cur => Done(s)'
    BY <2>1, <1>4, <1>1 DEF SplitInv, ProgressInv, Done
  <2>3. \A s \in Sets : s > cur => DOMAIN shares'[s] = {}
    BY <1>4, <1>1 DEF SplitInv, ProgressInv
  <2> QED BY <2>1, <2>2, <2>3, <1>1, <1>4, <1>5 DEF ProgressInv
<1>8. \A k \in DOMAIN shares[cur] : k \in DOMAIN shares'[cur] /\ shares'[cur][k] = shares[cur][k]
  BY <1>1, <1>3, <1>4
<1> QED BY <1>4, <1>6, <1>7, <1>8 DEF SplitInv

(* Where the loop over the computed shares begins: 8 bits are enough.      *)
LEMMA ComputedBehindDrawn ==
  ASSUME NEW t \in 2 .. 254
  PROVE  (t - 2) % 256 = t - 2
OBVIOUS

LEMMA ComputeSharesGoesOn ==
  ASSUME SplitInv, ComputeShares
  PROVE  /\ SplitInv'
         /\ \A s \in Sets : \A k \in DOMAIN shares[s] :
              k \in DOMAIN shares'[s] /\ shares'[s][k] = shares[s][k]
<1> USE SetFacts
<1> DEFINE known    == shares[cur]
           computed == [k \in FirstComputed .. count[cur] - 1 |-> Interpolate(known, k)]
           done     == [shares EXCEPT ![cur] = Merge(computed, known)]
<1>1. /\ phase = "draw" /\ UNCHANGED options /\ NextSet(done)
      /\ shares = [s \in Sets |-> shares[s]]
      /\ cur \in Sets
      /\ threshold[cur] \in 1 .. count[cur] /\ count[cur] \in 1 .. MaxShares
      /\ threshold[cur] >= 2 /\ i = threshold[cur] - 2
      /\ DOMAIN known = {SecretX, DigestX} \cup 0 .. i - 1
  <2>1. phase = "draw" /\ UNCHANGED options /\ NextSet(done)
    BY DEF ComputeShares
  <2>2. cur \in Sets /\ threshold[cur] \in 1 .. count[cur] /\ count[cur] \in 1 .. MaxShares
    BY DEF SplitInv, ProgressInv, OptionsInv
  <2>3. /\ shares = [s \in Sets |-> shares[s]]
        /\ threshold[cur] >= 2 /\ i \in 0 .. threshold[cur] - 2
        /\ DOMAIN known = {SecretX, DigestX} \cup 0 .. i - 1
    BY <2>1 DEF SplitInv, ProgressInv
  <2>4. i >= threshold[cur] - 2
    BY DEF ComputeShares
  <2>5. i = threshold[cur] - 2
    BY ONLY <2>2, <2>3, <2>4, SetFacts
  <2> QED BY ONLY <2>1, <2>2, <2>3, <2>5
<1>sizes. threshold[cur] \in 2 .. 254 /\ i \in 0 .. 252 /\ count[cur] \in 1 .. 254
  <2>1. /\ count[cur] \in 1 .. MaxShares /\ MaxShares \in 0 .. 254
        /\ threshold[cur] \in 1 .. count[cur] /\ threshold[cur] >= 2 /\ i = threshold[cur] - 2
    BY ONLY <1>1, SetFacts
  <2> QED BY ONLY <2>1
<1>2. FirstComputed = i
  <2>1. (threshold[cur] - 2) % 256 = threshold[cur] - 2
    BY ONLY <1>sizes, ComputedBehindDrawn
  <2>2. i = threshold[cur] - 2
    BY ONLY <1>1
  <2> QED BY ONLY <2>1, <2>2 DEF FirstComputed
<1>3. DOMAIN computed = i .. count[cur] - 1
  BY <1>2
<1>4. /\ DOMAIN Merge(computed, known) = DOMAIN computed \cup DOMAIN known
      /\ \A k \in DOMAIN known : k \notin DOMAIN computed => Merge(computed, known)[k] = known[k]
  <2> HIDE DEF computed, known
  <2> QED BY ONLY MergeAdds
<1>5. /\ done = [s \in Sets |-> done[s]]
      /\ \A s \in Sets : s # cur => done[s] = shares[s]
      /\ done[cur] = Merge(computed, known)
  <2>1. cur \in Sets /\ shares = [s \in Sets |-> shares[s]]
    BY ONLY <1>1
  <2> HIDE DEF computed, known
  <2> QED BY ONLY <2>1
<1>6. known = shares[cur]
  OBVIOUS
<1> HIDE DEF computed, done, known
<1>7. 0 .. count[cur] - 1 \subseteq DOMAIN done[cur]
  <2>1. 0 .. count[cur] - 1 \subseteq (i .. count[cur] - 1) \cup 0 .. i - 1
    BY ONLY <1>sizes
  <2>2. 0 .. i - 1 \subseteq DOMAIN known
    BY ONLY <1>1
  <2> QED BY ONLY <2>1, <2>2, <1>3, <1>4, <1>5
<1>8. \A k \in DOMAIN known : k \in DOMAIN done[cur] /\ done[cur][k] = known[k]
  <2>1. DOMAIN computed \cap DOMAIN known = {}
    <3>1. DOMAIN known = {255, 254} \cup 0 .. i - 1
      BY <1>1
    <3>2. PICK c \in 1 .. 254 : c = count[cur]
      BY <1>sizes
    <3>3. (i .. c - 1) \cap ({255, 254} \cup 0 .. i - 1) = {}
      BY ONLY <1>sizes, c \in 1 .. 254
    <3> QED BY ONLY <3>1, <3>2, <3>3, <1>3
  <2> QED BY ONLY <2>1, <1>4, <1>5
<1>9. /\ SplitInv'
      /\ \A s \in Sets : \A k \in DOMAIN done[s] :
           k \in DOMAIN shares'[s] /\ shares'[s][k] = done[s][k]
  BY <1>1, <1>5, <1>7, GoesOn
<1> QED BY <1>5, <1>6, <1>8, <1>9

LEMMA PrintKeeps ==
  ASSUME SplitInv, PrintMnemonics
  PROVE  SplitInv' /\ UNCHANGED shares
<1>1. /\ phase = "print" /\ phase' = "printed" /\ UNCHANGED <<options, shares, cur, i>>
  BY DEF SplitInv, OptionsInv, PrintMnemonics
<1>2. OptionsInv'
  BY <1>1 DEF SplitInv, OptionsInv, options
<1>3. ProgressInv'
  BY <1>1 DEF SplitInv, ProgressInv, options, Done
<1> QED BY <1>1, <1>2, <1>3 DEF SplitInv

LEMMA StutterKeeps ==
  ASSUME SplitInv, UNCHANGED vars
  PROVE  SplitInv'
BY DEF SplitInv, OptionsInv, ProgressInv, Done, vars, options

(* The invariant of the split. *)
THEOREM SplitInvariant == ASSUME InRange PROVE Spec => []SplitInv
<1>1. Init => SplitInv
  BY Begins
<1>2. SplitInv /\ [Next]_vars => SplitInv'
  BY EnterSetGoesOn, DrawShareGoesOn, ComputeSharesGoesOn, PrintKeeps, StutterKeeps DEF Next
<1> QED BY <1>1, <1>2, PTL DEF Spec

(* No assert of slip0039_split and print_mnemonics fails, for any number   *)
(* of groups and members, when the group threshold is at least 1 and the   *)
(* exponent at most 31.                                                    *)
THEOREM NoSplitAssertFails == ASSUME InRange PROVE Spec => []NoAssertFails
<1>1. SplitInv => NoAssertFails
  BY DEF SplitInv, ProgressInv, NoAssertFails
<1> QED BY <1>1, SplitInvariant, PTL

(* No share, digest or secret is written a second time. *)
THEOREM SharesAreWrittenOnce == ASSUME InRange PROVE Spec => WrittenOnce
<1> DEFINE Keeps == \A s \in Sets : \A k \in DOMAIN shares[s] :
                      k \in DOMAIN shares'[s] /\ shares'[s][k] = shares[s][k]
<1>1. SplitInv /\ [Next]_vars => [Keeps]_vars
  <2>1. ASSUME UNCHANGED shares PROVE Keeps
    BY <2>1
  <2> QED BY <2>1, EnterSetGoesOn, DrawShareGoesOn, ComputeSharesGoesOn, PrintKeeps DEF Next
<1> QED BY <1>1, SplitInvariant, PTL DEF Spec, WrittenOnce
------------------------------------------------------------------------------
(***************************************************************************)
(* Every quorum of a set gives its secret back.                            *)
(***************************************************************************)

Points == Index \cup {DigestX, SecretX}

LEMMA PointsApart == Apart(Points)
<1>1. IsFiniteSet(Index)
  BY SharesAssumption, FS_Interval DEF Index
<1>2. IsFiniteSet(Points)
  <2>1. IsFiniteSet(Index \cup {DigestX})
    BY <1>1, FS_AddElement
  <2>2. IsFiniteSet((Index \cup {DigestX}) \cup {SecretX})
    BY <2>1, FS_AddElement
  <2>3. (Index \cup {DigestX}) \cup {SecretX} = Points
    BY DEF Points
  <2> QED BY ONLY <2>2, <2>3
<1> QED BY <1>2, PointsAssumption DEF Apart, Points

(* Only the values at the points D matter. *)
LEMMA ThroughSame ==
  ASSUME NEW D, NEW v, NEW w, \A d \in D : v[d] = w[d], NEW x
  PROVE  Through(D, v, x) = Through(D, w, x)
<1>1. Terms(D, v, x) = Terms(D, w, x)
  BY DEF Terms
<1> QED BY <1>1 DEF Through

LEMMA ThroughType ==
  ASSUME NEW P, Apart(P), NEW D \in SUBSET P, NEW v \in [D -> Byte], NEW x \in P
  PROVE  Through(D, v, x) \in Byte
<1>1. IsFiniteSet(D)
  BY FS_Subset DEF Apart
<1>2. ASSUME NEW p \in D PROVE Terms(D, v, x)[p] \in Byte
  <2>1. v[p] \in Byte /\ Weight(D, p, x) \in Byte
    BY WeightType
  <2> QED BY <2>1, MulType DEF Terms
<1> QED BY <1>1, <1>2, TotalIs DEF Through

(* The bytes at offset o of the values f. *)
ByteAt(f, o) == [k \in DOMAIN f |-> f[k][o]]

LEMMA ByteAtType ==
  ASSUME NEW D, NEW f \in [D -> Value], NEW o \in Offsets
  PROVE  ByteAt(f, o) \in [D -> Byte]
BY DEF ByteAt, Value

LEMMA InterpolateBytes ==
  ASSUME NEW P, Apart(P), NEW D \in SUBSET P, NEW f \in [D -> Value], NEW x \in P
  PROVE  /\ Interpolate(f, x) \in Value
         /\ \A o \in Offsets : Interpolate(f, x)[o] = Through(D, ByteAt(f, o), x)
<1>1. ASSUME NEW o \in Offsets
      PROVE  /\ InterpolateByte(ByteAt(f, o), x) = Through(D, ByteAt(f, o), x)
             /\ InterpolateByte(ByteAt(f, o), x) \in Byte
  <2>1. ByteAt(f, o) \in [D -> Byte]
    BY ByteAtType
  <2> QED BY <2>1, InterpolateIs, ThroughType
<1>2. Interpolate(f, x) = [o \in Offsets |-> InterpolateByte(ByteAt(f, o), x)]
  BY DEF Interpolate, ByteAt
<1> QED BY ONLY <1>1, <1>2 DEF Value

(* Values that are equal byte by byte. *)
LEMMA SameValue ==
  ASSUME NEW a \in Value, NEW b \in Value, \A o \in Offsets : a[o] = b[o]
  PROVE  a = b
BY DEF Value

(* A quorum of a set gives its secret back. *)
Known(t) == {SecretX, DigestX} \cup 0 .. t - 3

(* The shares f of a set with c members and the threshold t: copies of the *)
(* secret, or a digest that verifies and c points on the curve through the *)
(* first t - 2, digest and secret.                                         *)
Whole(f, t, c) ==
  IF t = 1 THEN \A k \in 0 .. c - 1 : f[k] = f[SecretX]
  ELSE /\ DOMAIN f = {SecretX, DigestX} \cup 0 .. c - 1
       /\ DigestOK(f[DigestX], f[SecretX])
       /\ \A k \in t - 2 .. c - 1 : f[k] = Interpolate([q \in Known(t) |-> f[q]], k)

LEMMA WholeMeans ==
  ASSUME NEW f, NEW t, NEW c, t # 1, Whole(f, t, c)
  PROVE  /\ DOMAIN f = {SecretX, DigestX} \cup 0 .. c - 1
         /\ DigestOK(f[DigestX], f[SecretX])
         /\ \A k \in t - 2 .. c - 1 : f[k] = Interpolate([q \in Known(t) |-> f[q]], k)
BY DEF Whole

LEMMA KnownSize ==
  ASSUME NEW t \in 2 .. 254
  PROVE  Cardinality(Known(t)) = t /\ IsFiniteSet(Known(t))
<1>1. 0 \in Int /\ t - 3 \in Int
  OBVIOUS
<1>2. Cardinality(0 .. t - 3) = t - 2 /\ IsFiniteSet(0 .. t - 3)
  <2>1. IsFiniteSet(0 .. t - 3) /\ Cardinality(0 .. t - 3) = IF 0 > t - 3 THEN 0 ELSE t - 3 - 0 + 1
    BY ONLY <1>1, FS_Interval
  <2> QED BY <2>1
<1> DEFINE A == 0 .. t - 3
           B == A \cup {DigestX}
<1>3. DigestX \notin A /\ SecretX \notin B
  BY DEF DigestX, SecretX
<1>4. Known(t) = B \cup {SecretX}
  BY DEF Known
<1>5. Cardinality(A) = t - 2 /\ IsFiniteSet(A)
  BY <1>2
<1>6. Cardinality(B) = t - 1 /\ IsFiniteSet(B)
  <2> HIDE DEF A
  <2> QED BY <1>3, <1>5, FS_AddElement
<1>7. Cardinality(B \cup {SecretX}) = t /\ IsFiniteSet(B \cup {SecretX})
  <2> HIDE DEF B
  <2> QED BY <1>3, <1>6, FS_AddElement
<1> HIDE DEF B
<1> QED BY <1>4, <1>7

(* The shares Q of f give digest and secret of f. *)
GivesBack(f, Q) == \A y \in {SecretX, DigestX} : Interpolate([k \in Q |-> f[k]], y) = f[y]

LEMMA QuorumInterpolates ==
  ASSUME NEW t \in 2 .. 254, NEW c \in t .. MaxShares, NEW f, f \in [DOMAIN f -> Value], Whole(f, t, c),
         NEW Q \in kSubset(t, 0 .. c - 1)
  PROVE  GivesBack(f, Q)
<1> SUFFICES ASSUME NEW y \in {SecretX, DigestX} PROVE Interpolate([k \in Q |-> f[k]], y) = f[y]
  BY DEF GivesBack
<1> DEFINE P == DOMAIN f
           K == Known(t)
           g == [k \in Q |-> f[k]]
           h == [k \in K |-> f[k]]
<1>0. t # 1 /\ t \in Int /\ c \in Int /\ 2 <= t /\ t <= c /\ c <= MaxShares /\ MaxShares \in Nat
  <2>1. \A m \in Nat : \A k \in t .. m : k \in Int /\ t <= k /\ k <= m
    BY ONLY t \in 2 .. 254
  <2> QED BY ONLY SharesAssumption, t \in 2 .. 254, c \in t .. MaxShares, <2>1
<1>1. P = {SecretX, DigestX} \cup 0 .. c - 1
  BY <1>0, WholeMeans
<1>2. P \in SUBSET Points
  BY <1>0, <1>1 DEF Points, Index
<1>3. Apart(P)
  <2>1. Apart(Points)
    BY PointsApart
  <2>2. IsFiniteSet(P)
    BY <1>2, <2>1, FS_Subset DEF Apart
  <2>3. \A p, q \in P : ToByte(p) = ToByte(q) => p = q
    BY <1>2, <2>1 DEF Apart
  <2> QED BY ONLY <2>2, <2>3 DEF Apart
<1>4. K \in SUBSET P /\ K = {SecretX, DigestX} \cup 0 .. t - 3
  BY <1>0, <1>1 DEF Known
<1>5. Q \in SUBSET P /\ Cardinality(Q) = Cardinality(K) /\ y \in P
  BY <1>1, KnownSize DEF kSubset
<1>6. \A k \in P : k \in K \/ f[k] = Interpolate(h, k)
  <2>1. \A k \in t - 2 .. c - 1 : f[k] = Interpolate(h, k)
    BY <1>0, WholeMeans
  <2>2. \A k \in P : k \in K \/ k \in t - 2 .. c - 1
    <3>1. \A k \in 0 .. c - 1 : k \in 0 .. t - 3 \/ k \in t - 2 .. c - 1
      BY ONLY <1>0
    <3> HIDE DEF P, K
    <3> QED BY ONLY <1>1, <1>4, <3>1
  <2> QED BY ONLY <2>1, <2>2
<1>7. g \in [Q -> Value] /\ h \in [K -> Value] /\ f \in [P -> Value]
  BY <1>4, <1>5
<1> HIDE DEF K
<1>8. ASSUME NEW o \in Offsets
      PROVE  Interpolate(g, y)[o] = f[y][o]
  <2> DEFINE v == ByteAt(f, o)
  <2>1. v \in [P -> Byte] /\ \A k \in P : v[k] = f[k][o]
    BY <1>7, ByteAtType DEF ByteAt
  <2>2. /\ \A k \in K : ByteAt(h, o)[k] = v[k]
        /\ \A k \in Q : ByteAt(g, o)[k] = v[k]
    BY <1>4, <1>5, <2>1 DEF ByteAt
  <2> HIDE DEF v, P, g, h
  <2>3. ASSUME NEW x \in P PROVE Through(K, v, x) = v[x]
    <3>1. CASE x \in K
      BY ONLY <3>1, <1>3, <1>4, <2>1, ThroughItsPoints
    <3>2. CASE x \notin K
      <4>1. Interpolate(h, x)[o] = Through(K, ByteAt(h, o), x)
        BY <1>3, <1>4, <1>7, InterpolateBytes
      <4>2. Through(K, ByteAt(h, o), x) = Through(K, v, x)
        BY <2>2, ThroughSame
      <4>3. f[x] = Interpolate(h, x)
        BY <3>2, <1>6
      <4> QED BY <2>1, <4>1, <4>2, <4>3
    <3> QED BY <3>1, <3>2
  <2>4. Interpolate(g, y)[o] = Through(Q, ByteAt(g, o), y)
    BY <1>3, <1>5, <1>7, InterpolateBytes
  <2>5. Through(Q, ByteAt(g, o), y) = Through(Q, v, y)
    BY <2>2, ThroughSame
  <2>6. Through(Q, v, y) = v[y]
    <3>1. Determines(K, v, P)
      BY <2>3 DEF Determines
    <3>2. v \in [P -> Byte]
      BY ONLY <2>1
    <3> QED BY ONLY <1>3, <1>4, <1>5, <3>1, <3>2, AnyPoints
  <2> QED BY <1>5, <2>1, <2>4, <2>5, <2>6
<1>9. Interpolate(g, y) \in Value /\ f[y] \in Value
  BY <1>3, <1>5, <1>7, InterpolateBytes
<1> HIDE DEF g
<1>10. Interpolate(g, y) = f[y]
  BY ONLY <1>8, <1>9, SameValue
<1> QED BY <1>10 DEF g
(* Every share is a value, and every set that was left is whole. *)
SharesInv ==
  /\ \A s \in Sets : shares[s] \in [DOMAIN shares[s] -> Value]
  /\ \A s \in Sets : s < cur => Whole(shares[s], threshold[s], count[s])
  /\ phase = "draw" => DigestOK(shares[cur][DigestX], shares[cur][SecretX])
  /\ phase \in {"print", "printed"} => Whole(shares[cur], threshold[cur], count[cur])

LEMMA PutType ==
  ASSUME NEW f, f \in [DOMAIN f -> Value], NEW k, NEW v \in Value
  PROVE  Put(f, k, v) \in [DOMAIN Put(f, k, v) -> Value]
BY DEF Put

LEMMA MergeType ==
  ASSUME NEW f, f \in [DOMAIN f -> Value], NEW g, g \in [DOMAIN g -> Value]
  PROVE  Merge(f, g) \in [DOMAIN Merge(f, g) -> Value]
BY DEF Merge

LEMMA SharesBegin == ASSUME InRange PROVE Init => SharesInv
<1> SUFFICES ASSUME Init PROVE SharesInv
  OBVIOUS
<1>1. PICK job \in Jobs :
        shares = [t \in Sets |-> [k \in (IF t = ROOT THEN {SecretX} ELSE {}) |-> job.secret]]
  BY DEF Init
<1>2. cur = ROOT /\ phase = "enter"
  BY DEF Init
<1>3. job.secret \in Value
  BY JobsAssumption
<1>4. \A s \in Sets : shares[s] \in [DOMAIN shares[s] -> Value]
  BY <1>1, <1>3
<1>5. \A s \in Sets : ~(s < cur)
  BY <1>2, SetFacts
<1> QED BY <1>2, <1>4, <1>5 DEF SharesInv

(* The next set begins with a value, and a set that is whole stays whole.  *)
LEMMA WholeGoesOn ==
  ASSUME SplitInv, SharesInv, NEW done, NextSet(done), UNCHANGED options,
         done = [s \in Sets |-> done[s]],
         \A s \in Sets : s # cur => done[s] = shares[s],
         done[cur] \in [DOMAIN done[cur] -> Value],
         Whole(done[cur], threshold[cur], count[cur])
  PROVE  SharesInv'
<1>1. /\ cur \in Sets /\ cur < count[ROOT] /\ count[ROOT] \in 1 .. MaxShares
      /\ count' = count /\ threshold' = threshold
  BY DEF SplitInv, ProgressInv, OptionsInv, options
<1>2. \A s \in Sets : done[s] \in [DOMAIN done[s] -> Value]
  BY DEF SharesInv
<1>3. \A s \in Sets : s < cur \/ s = cur => Whole(done[s], threshold[s], count[s])
  <2>1. \A s \in Sets : s < cur => s # cur
    BY <1>1, SetFacts
  <2> QED BY <2>1 DEF SharesInv
<1>4. CASE cur + 1 < count[ROOT]
  <2>1. cur + 1 \in Sets /\ \A s \in Sets : s < cur + 1 => (s < cur \/ s = cur) /\ s # cur + 1
    BY <1>1, <1>4, SetFacts
  <2>2. cur' = cur + 1 /\ phase' = "enter"
    BY <1>4 DEF NextSet
  <2>3. \/ shares' = done
        \/ /\ cur + 1 \in DOMAIN done[ROOT]
           /\ shares' = [done EXCEPT ![cur + 1] =
                           Put(done[cur + 1], SecretX, done[ROOT][cur + 1])]
    <3>1. shares' = IF cur + 1 \in DOMAIN done[ROOT]
                      THEN [done EXCEPT ![cur + 1] = Put(@, SecretX, done[ROOT][cur + 1])]
                      ELSE done
      BY <1>4 DEF NextSet
    <3>2. CASE cur + 1 \in DOMAIN done[ROOT]
      BY ONLY <3>1, <3>2
    <3>3. CASE cur + 1 \notin DOMAIN done[ROOT]
      BY ONLY <3>1, <3>3
    <3> QED BY <3>2, <3>3
  <2>4. \A s \in Sets : s # cur + 1 => shares'[s] = done[s]
    BY <2>1, <2>3
  <2>5. shares'[cur + 1] \in [DOMAIN shares'[cur + 1] -> Value]
    <3>1. CASE shares' = done
      BY <1>2, <2>1, <3>1
    <3>2. CASE shares' # done
      <4>1. shares'[cur + 1] = Put(done[cur + 1], SecretX, done[ROOT][cur + 1])
        BY <2>1, <2>3, <3>2
      <4>2. done[ROOT][cur + 1] \in Value
        BY <1>2, <2>3, <3>2, SetFacts
      <4>3. done[cur + 1] \in [DOMAIN done[cur + 1] -> Value]
        BY <1>2, <2>1
      <4> QED BY ONLY <4>1, <4>2, <4>3, PutType
    <3> QED BY <3>1, <3>2
  <2>6. \A s \in Sets : shares'[s] \in [DOMAIN shares'[s] -> Value]
    BY <1>2, <2>4, <2>5
  <2>7. \A s \in Sets : s < cur' => Whole(shares'[s], threshold'[s], count'[s])
    BY <1>1, <1>3, <2>1, <2>2, <2>4
  <2> QED BY <2>2, <2>6, <2>7 DEF SharesInv
<1>5. CASE ~(cur + 1 < count[ROOT])
  <2>1. phase' = "print" /\ shares' = done /\ cur' = cur
    BY <1>5 DEF NextSet
  <2> QED BY <1>1, <1>2, <1>3, <2>1 DEF SharesInv
<1> QED BY <1>4, <1>5

LEMMA EnterSetWhole ==
  ASSUME SplitInv, SharesInv, EnterSet
  PROVE  SharesInv'
<1>1. /\ phase = "enter" /\ DOMAIN shares[cur] = {SecretX} /\ UNCHANGED options
      /\ shares = [s \in Sets |-> shares[s]] /\ cur \in Sets
      /\ shares[cur] \in [DOMAIN shares[cur] -> Value] /\ shares[cur][SecretX] \in Value
  BY DEF SplitInv, ProgressInv, OptionsInv, EnterSet, SharesInv
<1>sizes. count[cur] \in 1 .. 254
  <2>1. count[cur] \in 1 .. MaxShares
    BY DEF SplitInv, ProgressInv, OptionsInv
  <2> QED BY ONLY <2>1, SetFacts
<1>2. CASE threshold[cur] = 1
  <2> DEFINE copies == [k \in 0 .. count[cur] - 1 |-> shares[cur][SecretX]]
             done   == [shares EXCEPT ![cur] = Merge(copies, shares[cur])]
  <2>1. NextSet(done)
    BY <1>1, <1>2 DEF EnterSet
  <2>2. /\ done = [s \in Sets |-> done[s]]
        /\ \A s \in Sets : s # cur => done[s] = shares[s]
        /\ done[cur] = Merge(copies, shares[cur])
    BY <1>1
  <2>3. copies \in [DOMAIN copies -> Value]
    BY <1>1
  <2>4. /\ \A k \in 0 .. count[cur] - 1 : Merge(copies, shares[cur])[k] = shares[cur][SecretX]
        /\ Merge(copies, shares[cur])[SecretX] = shares[cur][SecretX]
    BY <1>1, <1>sizes DEF Merge, SecretX
  <2> HIDE DEF copies
  <2>5. done[cur] \in [DOMAIN done[cur] -> Value]
    BY <1>1, <2>2, <2>3, MergeType
  <2> HIDE DEF done
  <2>6. Whole(done[cur], threshold[cur], count[cur])
    BY <1>2, <2>2, <2>4 DEF Whole
  <2>7. UNCHANGED options
    BY <1>1
  <2> QED BY ONLY SplitInv, SharesInv, <2>1, <2>2, <2>5, <2>6, <2>7, WholeGoesOn
<1>3. CASE threshold[cur] # 1
  <2>1. PICK draw \in Draws :
          /\ shares' = [shares EXCEPT ![cur] =
                          Put(shares[cur], DigestX, DigestOf(draw[2], shares[cur][SecretX]))]
          /\ phase' = "draw" /\ cur' = cur
    BY <1>1, <1>3 DEF EnterSet
  <2> DEFINE digest == DigestOf(draw[2], shares[cur][SecretX])
  <2>2. digest \in Value /\ DigestOK(digest, shares[cur][SecretX])
    <3>1. draw[2] \in Byte
      BY DrawsAssumption DEF Value, Offsets
    <3>2. Mac(draw[2], shares[cur][SecretX]) \in Byte
      BY <1>1, <3>1, MacAssumption
    <3> QED BY <3>1, <3>2 DEF DigestOf, DigestOK, Value, Offsets
  <2>3. /\ \A s \in Sets : s # cur => shares'[s] = shares[s]
        /\ shares'[cur] = Put(shares[cur], DigestX, digest)
    BY <1>1, <2>1
  <2> HIDE DEF digest
  <2>4. shares'[cur] \in [DOMAIN shares'[cur] -> Value]
    BY ONLY <1>1, <2>2, <2>3, PutType
  <2>5. shares'[cur][DigestX] = digest /\ shares'[cur][SecretX] = shares[cur][SecretX]
    BY <1>1, <2>3 DEF Put, DigestX, SecretX
  <2>6. \A s \in Sets : s < cur => s # cur
    BY <1>1, SetFacts
  <2>7. count' = count /\ threshold' = threshold
    BY <1>1 DEF options
  <2> QED BY <2>1, <2>2, <2>3, <2>4, <2>5, <2>6, <2>7 DEF SharesInv
<1> QED BY <1>2, <1>3
LEMMA DrawShareWhole ==
  ASSUME SplitInv, SharesInv, DrawShare
  PROVE  SharesInv'
<1>1. /\ phase = "draw" /\ phase' = "draw" /\ cur' = cur /\ UNCHANGED options
      /\ shares = [s \in Sets |-> shares[s]] /\ cur \in Sets
      /\ shares[cur] \in [DOMAIN shares[cur] -> Value]
      /\ DOMAIN shares[cur] = {SecretX, DigestX} \cup 0 .. i - 1
      /\ DigestOK(shares[cur][DigestX], shares[cur][SecretX])
  BY DEF SplitInv, ProgressInv, SharesInv, DrawShare
<1>2. PICK draw \in Draws : shares' = [shares EXCEPT ![cur] = Put(shares[cur], i, draw)]
  BY DEF DrawShare
<1>3. i \in 0 .. 253
  <2>1. /\ i \in 0 .. threshold[cur] - 2 /\ threshold[cur] \in 1 .. count[cur]
        /\ count[cur] \in 1 .. MaxShares
    BY <1>1 DEF SplitInv, ProgressInv, OptionsInv
  <2> QED BY ONLY <2>1, SetFacts
<1>4. /\ \A s \in Sets : s # cur => shares'[s] = shares[s]
      /\ shares'[cur] = Put(shares[cur], i, draw)
  BY <1>1, <1>2
<1>5. draw \in Value
  BY DrawsAssumption
<1>6. shares'[cur] \in [DOMAIN shares'[cur] -> Value]
  BY ONLY <1>1, <1>4, <1>5, PutType
<1>7. shares'[cur][DigestX] = shares[cur][DigestX] /\ shares'[cur][SecretX] = shares[cur][SecretX]
  BY <1>1, <1>3, <1>4 DEF Put, DigestX, SecretX
<1>8. \A s \in Sets : s < cur => s # cur
  BY <1>1, SetFacts
<1>9. count' = count /\ threshold' = threshold
  BY <1>1 DEF options
<1> QED BY <1>1, <1>4, <1>6, <1>7, <1>8, <1>9 DEF SharesInv

LEMMA ComputeSharesWhole ==
  ASSUME SplitInv, SharesInv, ComputeShares
  PROVE  SharesInv'
<1> DEFINE known    == shares[cur]
           computed == [k \in FirstComputed .. count[cur] - 1 |-> Interpolate(known, k)]
           done     == [shares EXCEPT ![cur] = Merge(computed, known)]
           t        == threshold[cur]
           c        == count[cur]
<1>1. /\ phase = "draw" /\ UNCHANGED options /\ NextSet(done)
      /\ shares = [s \in Sets |-> shares[s]] /\ cur \in Sets
      /\ known \in [DOMAIN known -> Value]
      /\ DOMAIN known = {SecretX, DigestX} \cup 0 .. i - 1
      /\ DigestOK(known[DigestX], known[SecretX])
  <2>1. phase = "draw" /\ UNCHANGED options /\ NextSet(done)
    BY DEF ComputeShares
  <2> QED BY <2>1 DEF SplitInv, ProgressInv, SharesInv
<1>2. t \in 2 .. 254 /\ c \in t .. 254 /\ c \in t .. MaxShares /\ i = t - 2
  <2>1. /\ i \in 0 .. t - 2 /\ t \in 1 .. c /\ t >= 2 /\ c \in 1 .. MaxShares
    BY <1>1 DEF SplitInv, ProgressInv, OptionsInv
  <2>2. i >= t - 2
    BY DEF ComputeShares
  <2> HIDE DEF t, c
  <2> QED BY ONLY <2>1, <2>2, SetFacts
<1>3. FirstComputed = t - 2
  BY ONLY <1>2, ComputedBehindDrawn DEF FirstComputed
<1>4. /\ \A s \in Sets : s # cur => done[s] = shares[s]
      /\ done = [s \in Sets |-> done[s]]
      /\ done[cur] = Merge(computed, known)
  BY <1>1
<1>5. DOMAIN known = Known(t)
  <2>1. DOMAIN known = {SecretX, DigestX} \cup 0 .. i - 1
    BY ONLY <1>1
  <2> HIDE DEF known, t, c
  <2>2. i - 1 = t - 3
    BY ONLY <1>2
  <2> QED BY ONLY <2>1, <2>2 DEF Known
<1>6. Known(t) \in SUBSET Points
  <2>1. 0 .. t - 3 \in SUBSET Index
    BY <1>2, SharesAssumption DEF Index
  <2> QED BY ONLY <2>1 DEF Known, Points
<1>7. ASSUME NEW k \in t - 2 .. c - 1
      PROVE  Interpolate(known, k) \in Value
  <2>1. k \in Points
    BY <1>2, SharesAssumption DEF Points, Index
  <2> HIDE DEF known, t
  <2> QED BY <1>1, <1>5, <1>6, <2>1, PointsApart, InterpolateBytes
<1>8. computed = [k \in t - 2 .. c - 1 |-> Interpolate(known, k)]
  BY <1>3
<1>9. computed \in [DOMAIN computed -> Value]
  <2> HIDE DEF computed, known, t, c
  <2> QED BY <1>7, <1>8
<1>10. (t - 2 .. c - 1) \cap Known(t) = {} /\ Known(t) \cup (t - 2 .. c - 1) = {SecretX, DigestX} \cup 0 .. c - 1
  <2> HIDE DEF t, c
  <2>1. (t - 2 .. c - 1) \cap 0 .. t - 3 = {} /\ (t - 2 .. c - 1) \cup 0 .. t - 3 = 0 .. c - 1
    BY ONLY <1>2
  <2>2. SecretX \notin t - 2 .. c - 1 /\ DigestX \notin t - 2 .. c - 1
    BY ONLY <1>2 DEF SecretX, DigestX
  <2> QED BY ONLY <2>1, <2>2 DEF Known
<1> HIDE DEF computed, done, known, t, c
<1>11. /\ DOMAIN done[cur] = {SecretX, DigestX} \cup 0 .. c - 1
       /\ \A k \in Known(t) : done[cur][k] = known[k]
       /\ \A k \in t - 2 .. c - 1 : done[cur][k] = Interpolate(known, k)
  BY <1>4, <1>5, <1>8, <1>10 DEF Merge
<1>12. [q \in Known(t) |-> done[cur][q]] = known
  BY <1>1, <1>5, <1>11
<1>13. DigestOK(done[cur][DigestX], done[cur][SecretX])
  BY <1>1, <1>11 DEF Known
<1>14. Whole(done[cur], threshold[cur], count[cur])
  BY <1>2, <1>11, <1>12, <1>13 DEF Whole, t, c
<1>15. done[cur] \in [DOMAIN done[cur] -> Value]
  BY ONLY <1>1, <1>4, <1>9, MergeType
<1>16. UNCHANGED options
  BY <1>1
<1> QED BY ONLY SplitInv, SharesInv, <1>1, <1>4, <1>14, <1>15, <1>16, WholeGoesOn

LEMMA SharesStay ==
  ASSUME SplitInv, SharesInv, PrintMnemonics \/ UNCHANGED vars
  PROVE  SharesInv'
<1>1. CASE PrintMnemonics
  BY <1>1 DEF SplitInv, OptionsInv, SharesInv, PrintMnemonics, options
<1>2. CASE UNCHANGED vars
  BY <1>2 DEF SharesInv, vars, options
<1> QED BY <1>1, <1>2

(* Whatever the random values were: when all shares are there, every set   *)
(* is whole.                                                               *)
THEOREM SharesInvariant == ASSUME InRange PROVE Spec => []SharesInv
<1>1. Init => SharesInv
  BY SharesBegin
<1>2. SplitInv /\ SharesInv /\ [Next]_vars => SharesInv'
  BY EnterSetWhole, DrawShareWhole, ComputeSharesWhole, SharesStay DEF Next
<1> QED BY <1>1, <1>2, SplitInvariant, PTL DEF Spec

LEMMA MoreThanOne ==
  ASSUME NEW m \in 0 .. 254, NEW c \in 1 .. m, NEW t \in 1 .. c, t # 1
  PROVE  t \in 2 .. 254 /\ c \in t .. m
OBVIOUS

(* Any quorum of a set gives its secret back, and a digest that verifies.  *)
THEOREM EveryQuorum == ASSUME InRange PROVE Spec => []EveryQuorumRecovers
<1>1. ASSUME SplitInv, SharesInv, phase = "print",
             NEW s \in {ROOT} \cup 0 .. count[ROOT] - 1,
             NEW Q \in kSubset(threshold[s], 0 .. count[s] - 1)
      PROVE  LET pts == [k \in Q |-> shares[s][k]] IN
             IF threshold[s] = 1
               THEN \A k \in Q : pts[k] = shares[s][SecretX]
               ELSE /\ Interpolate(pts, SecretX) = shares[s][SecretX]
                    /\ DigestOK(Interpolate(pts, DigestX), shares[s][SecretX])
  <2> DEFINE f == shares[s]
             pts == [k \in Q |-> f[k]]
  <2>1. cur = count[ROOT] - 1 /\ count[ROOT] \in 1 .. MaxShares
    BY <1>1 DEF SplitInv, ProgressInv, OptionsInv
  <2>2. s \in Sets /\ s < count[ROOT] /\ (s < cur \/ s = cur)
    BY <2>1, SetFacts
  <2>3. Whole(f, threshold[s], count[s]) /\ f \in [DOMAIN f -> Value]
    BY <1>1, <2>2 DEF SharesInv
  <2>4. threshold[s] \in 1 .. count[s] /\ count[s] \in 1 .. MaxShares
    BY <1>1, <2>2 DEF SplitInv, OptionsInv
  <2> HIDE DEF f
  <2>5. CASE threshold[s] = 1
    <3>1. \A k \in 0 .. count[s] - 1 : f[k] = f[SecretX]
      BY <2>3, <2>5 DEF Whole
    <3>2. \A k \in Q : k \in 0 .. count[s] - 1
      BY DEF kSubset
    <3> QED BY <2>5, <3>1, <3>2 DEF f
  <2>6. CASE threshold[s] # 1
    <3>1. threshold[s] \in 2 .. 254 /\ count[s] \in threshold[s] .. MaxShares
      <4>1. MaxShares \in 0 .. 254
        BY SetFacts
      <4> QED BY ONLY <2>4, <2>6, <4>1, MoreThanOne
    <3>2. GivesBack(f, Q)
      <4>1. Q \in kSubset(threshold[s], 0 .. count[s] - 1)
        OBVIOUS
      <4>2. f \in [DOMAIN f -> Value] /\ Whole(f, threshold[s], count[s])
        BY ONLY <2>3
      <4> QED BY ONLY <4>1, <4>2, <3>1, QuorumInterpolates
    <3>3. Interpolate(pts, SecretX) = f[SecretX] /\ Interpolate(pts, DigestX) = f[DigestX]
      BY <3>2 DEF GivesBack
    <3>4. DigestOK(f[DigestX], f[SecretX])
      BY <2>3, <2>6, WholeMeans
    <3> HIDE DEF pts
    <3>5. Interpolate(pts, SecretX) = f[SecretX] /\ DigestOK(Interpolate(pts, DigestX), f[SecretX])
      BY ONLY <3>3, <3>4
    <3> QED BY <2>6, <3>5 DEF f, pts
  <2> QED BY <2>5, <2>6
<1>2. SplitInv /\ SharesInv => EveryQuorumRecovers
  BY <1>1 DEF EveryQuorumRecovers
<1> QED BY <1>2, SplitInvariant, SharesInvariant, PTL

------------------------------------------------------------------------------
(***************************************************************************)
(* The run that recovers, and what RecoverProofs shows of it.              *)
(***************************************************************************)

(* The proofs about Recover, for the run that recovers. *)
RP == INSTANCE RecoverProofs WITH
       Lines <- Printable, n <- r_n, id <- r_id, e <- r_e, count <- r_count,
       threshold <- r_threshold, available <- r_available, shares <- r_shares,
       plaintext <- r_plaintext, phase <- r_phase, i <- r_i, j <- r_j, idx <- r_idx,
       refused <- r_refused

LEMMA PrintableLines == \A l \in Printable : RP!LineType(l)
<1> SUFFICES ASSUME NEW l \in Printable PROVE RP!LineType(l)
  OBVIOUS
<1>1. /\ l.readable = TRUE /\ l.words \in Nat /\ l.sound = TRUE /\ l.pad = TRUE /\ l.id = Id
      /\ l.e \in 0 .. 31 /\ l.GI \in Index /\ l.GT \in 1 .. MaxShares /\ l.G \in 1 .. MaxShares
      /\ l.I \in Index /\ l.T \in 1 .. MaxShares
  BY DEF Printable
<1>2. l.id \in 0 .. RP!MaxId /\ l.e \in 0 .. RP!MaxE /\ l.GI \in RP!Index /\ l.I \in RP!Index
  <2>1. Id \in 0 .. RP!MaxId
    <3>1. RP!MaxId = R!MaxId
      BY DEF RP!MaxId, R!MaxId
    <3> QED BY ONLY <3>1, IdAssumption
  <2>2. l.e \in 0 .. RP!MaxE
    BY ONLY <1>1 DEF RP!MaxE
  <2>3. l.GI \in RP!Index /\ l.I \in RP!Index
    BY ONLY <1>1 DEF Index, RP!Index
  <2> QED BY ONLY <1>1, <2>1, <2>2, <2>3
<1>3. l.readable \in BOOLEAN /\ l.sound \in BOOLEAN /\ l.pad \in BOOLEAN
  BY <1>1
<1> QED BY ONLY <1>1, <1>2, <1>3 DEF RP!LineType

LEMMA SameCardinality == \A S : R!Cardinality(S) = Cardinality(S) /\ RP!Cardinality(S) = Cardinality(S)
BY DEF R!Cardinality, RP!Cardinality, Cardinality

LEMMA SameLoaded == \A s : R!Loaded(s) = RP!Loaded(s)
BY DEF R!Loaded, RP!Loaded, R!Index, RP!Index

LEMMA SameQuorum == \A s : R!Quorum(s) <=> RP!Quorum(s)
BY DEF R!Quorum, RP!Quorum

LEMMA SameInit == R!Init => RP!Init
BY DEF R!Init, RP!Init, R!Sets, RP!Sets, R!Index, RP!Index, R!ROOT, RP!ROOT

LEMMA SameLine ==
  ASSUME NEW l
  PROVE  /\ R!WellFormed(l) <=> RP!WellFormed(l)
         /\ R!Matches(l) <=> RP!Matches(l)
         /\ R!Placed(l) <=> RP!Placed(l)
         /\ R!AdoptHeader(l) <=> RP!AdoptHeader(l)
         /\ R!GroupThreshold(l) = RP!GroupThreshold(l)
         /\ R!RootThreshold(l) = RP!RootThreshold(l)
         /\ R!LoadedShares(l) = RP!LoadedShares(l)
         /\ R!IncrementAvailable(l.GI, l.T) = RP!IncrementAvailable(l.GI, l.T)
BY DEF R!WellFormed, RP!WellFormed, R!Matches, RP!Matches, R!Placed, RP!Placed,
       R!AdoptHeader, RP!AdoptHeader, R!GroupThreshold, RP!GroupThreshold,
       R!RootThreshold, RP!RootThreshold, R!LoadedShares, RP!LoadedShares,
       R!IncrementAvailable, RP!IncrementAvailable,
       R!WORDS, RP!WORDS, R!MinWords, RP!MinWords, R!Surplus, RP!Surplus, R!Bytes, RP!Bytes,
       R!Header, RP!Header, R!ROOT, RP!ROOT, R!Put, RP!Put

LEMMA SameAdd == ASSUME NEW l, R!AddMnemonic(l) PROVE RP!AddMnemonic(l)
BY SameLine, SameLoaded
   DEF R!AddMnemonic, R!RejectMalformed, R!RejectMismatch, R!RejectGroupIndex,
       R!RejectMemberThreshold, R!RejectDuplicate, R!RejectPadding, R!LoadShare, R!Fatal,
       R!header, R!store, R!loop,
       RP!AddMnemonic, RP!RejectMalformed, RP!RejectMismatch, RP!RejectGroupIndex,
       RP!RejectMemberThreshold, RP!RejectDuplicate, RP!RejectPadding, RP!LoadShare, RP!Fatal,
       RP!header, RP!store, RP!loop

LEMMA SameEnd == R!EndOfInput => RP!EndOfInput
BY DEF R!EndOfInput, RP!EndOfInput, R!header, R!store, R!loop, RP!header, RP!store, RP!loop

LEMMA SameExited == R!Exited => RP!Exited
BY DEF R!Exited, RP!Exited, R!vars, RP!vars, R!header, R!store, R!loop, RP!header, RP!store, RP!loop

LEMMA SameValues ==
  ASSUME NEW s, NEW used
  PROVE  /\ R!AssertsHold(s, used) <=> RP!AssertsHold(s, used)
         /\ R!DigestFits(s, used) <=> RP!DigestFits(s, used)
         /\ R!SecretOf(s, used) = RP!SecretOf(s, used)
         /\ R!Completed(s, used) = RP!Completed(s, used)
<1> USE DEF R!DigestX, RP!DigestX, R!SecretX, RP!SecretX
<1>1. R!AssertsHold(s, used) <=> RP!AssertsHold(s, used)
  BY SameCardinality DEF R!AssertsHold, RP!AssertsHold
<1>2. R!Points(s, used) = RP!Points(s, used)
  BY DEF R!Points, RP!Points
<1>3. R!DigestFits(s, used) <=> RP!DigestFits(s, used)
  BY <1>2 DEF R!DigestFits, RP!DigestFits
<1>4. R!SecretOf(s, used) = RP!SecretOf(s, used)
  BY <1>2 DEF R!SecretOf, RP!SecretOf
<1>5. R!Completed(s, used) = RP!Completed(s, used)
  BY <1>2, <1>4 DEF R!Completed, RP!Completed, R!Put, RP!Put
<1> QED BY ONLY <1>1, <1>3, <1>4, <1>5

LEMMA SameCompute == R!Compute => RP!Compute
<1> USE SameLoaded, SameQuorum, SameCardinality
        DEF R!header, R!store, R!loop, RP!header, RP!store, RP!loop, R!ROOT, RP!ROOT, R!Abort, RP!Abort
<1>1. R!CheckQuorum => RP!CheckQuorum
  BY DEF R!CheckQuorum, RP!CheckQuorum
<1>2. \A used : R!NextGroup(used) <=> RP!NextGroup(used)
  BY DEF R!NextGroup, RP!NextGroup
<1>3. R!SkipGroup => RP!SkipGroup
  BY <1>2 DEF R!SkipGroup, RP!SkipGroup
<1>4. R!EnterGroup => RP!EnterGroup
  BY DEF R!EnterGroup, RP!EnterGroup
<1>5. R!TakeShare => RP!TakeShare
  BY DEF R!TakeShare, RP!TakeShare
<1>6. R!RecoverGroup => RP!RecoverGroup
  BY <1>2, SameValues DEF R!RecoverGroup, RP!RecoverGroup, R!Put, RP!Put
<1>7. R!RecoverRoot => RP!RecoverRoot
  BY SameValues DEF R!RecoverRoot, RP!RecoverRoot
<1>8. R!DecryptSecret => RP!DecryptSecret
  BY DEF R!DecryptSecret, RP!DecryptSecret, R!SecretX, RP!SecretX
<1> QED BY ONLY <1>1, <1>3, <1>4, <1>5, <1>6, <1>7, <1>8 DEF R!Compute, RP!Compute

------------------------------------------------------------------------------
(***************************************************************************)
(* What was split is what is recovered.                                    *)
(***************************************************************************)

LEMMA SameNames ==
  /\ RP!ROOT = ROOT /\ RP!SecretX = SecretX /\ RP!DigestX = DigestX
  /\ RP!Index = Index /\ RP!Sets = Sets
BY DEF RP!ROOT, RP!SecretX, RP!DigestX, RP!Index, RP!Sets, ROOT, SecretX, DigestX, Index, Sets

(* As many words as a secret takes hold no more than the secret. *)
LEMMA WordsHold ==
  ASSUME NEW m \in 8 .. 32, NEW w \in Int, w = 4 + (8 * (2 * m) + 9) \div 10 + 3
  PROVE  /\ w \in 20 .. 59
         /\ (10 * (w - 7)) % 16 < 10
         /\ 2 * ((10 * (w - 7)) \div 16) = 2 * m
<1>1. PICK q \in Int : q = (16 * m + 9) \div 10
  OBVIOUS
<1>2. 10 * q <= 16 * m + 9 /\ 16 * m + 9 < 10 * q + 10
  BY <1>1
<1>3. w - 7 = q
  <2>1. 8 * (2 * m) = 16 * m
    OBVIOUS
  <2> QED BY <1>1, <2>1
<1>4. PICK r \in 0 .. 9 : 10 * q = 16 * m + r
  <2>1. 10 * q - 16 * m \in 0 .. 9
    BY <1>2
  <2> QED BY <2>1
<1>5. (16 * m + r) \div 16 = m /\ (16 * m + r) % 16 = r
  OBVIOUS
<1>6. q \in 13 .. 52
  BY <1>2
<1> QED BY ONLY <1>3, <1>4, <1>5, <1>6, w \in Int, m \in 8 .. 32, r \in 0 .. 9

(* The line of share k of group g, as it was printed. *)
IsLine(l, g, k) ==
  /\ l \in Printable /\ RP!WellFormed(l) /\ l.pad = TRUE /\ RP!Bytes(l) = n
  /\ l.id = Id /\ l.e = e /\ l.GI = g /\ l.GT = threshold[ROOT] /\ l.G = count[ROOT]
  /\ l.I = k /\ l.T = threshold[g] /\ l.data = shares[g][k]

(* A group knows the share of the root that it splits. *)
Inherits(g) ==
  /\ SecretX \in DOMAIN shares[g] /\ g \in DOMAIN shares[ROOT]
  /\ shares[g][SecretX] = shares[ROOT][g]

InheritInv == \A g \in Index : g <= cur => Inherits(g)

(* What is on stdout when the split is over. *)
PrintedInv ==
  phase = "printed" =>
    \A m \in printed : \E g, k \in Index :
      g < count[ROOT] /\ k < count[g] /\ m = Mnemonic(g, k)

(* A set of which all shares are there. *)
Ready(s) ==
  /\ s \in Sets /\ shares[s] \in [DOMAIN shares[s] -> Value]
  /\ Whole(shares[s], threshold[s], count[s])
  /\ threshold[s] \in 1 .. count[s] /\ count[s] \in 1 .. MaxShares
  /\ 0 .. count[s] - 1 \subseteq DOMAIN shares[s]

LEMMA AllReady ==
  ASSUME SplitInv, SharesInv, phase = "printed"
  PROVE  Ready(ROOT) /\ \A g \in Index : g < count[ROOT] => Ready(g)
<1>1. cur = count[ROOT] - 1 /\ count[ROOT] \in 1 .. MaxShares /\ Done(cur)
  BY DEF SplitInv, ProgressInv, OptionsInv
<1>2. ASSUME NEW s \in Sets, s < count[ROOT]
      PROVE  Ready(s)
  <2>1. s < cur \/ s = cur
    BY <1>1, <1>2, SetFacts
  <2>2. Whole(shares[s], threshold[s], count[s]) /\ shares[s] \in [DOMAIN shares[s] -> Value]
    BY <2>1 DEF SharesInv
  <2>3. threshold[s] \in 1 .. count[s] /\ count[s] \in 1 .. MaxShares
    BY <1>2 DEF SplitInv, OptionsInv
  <2>4. Done(s)
    BY <1>1, <2>1 DEF SplitInv, ProgressInv
  <2> QED BY <2>2, <2>3, <2>4 DEF Ready, Done
<1>3. ROOT \in Sets /\ ROOT < count[ROOT] /\ \A g \in Index : g \in Sets
  BY <1>1, SetFacts DEF Sets
<1> QED BY <1>2, <1>3

LEMMA PrintedLines ==
  ASSUME SplitInv, SharesInv, PrintedInv, phase = "printed", NEW m \in printed
  PROVE  \E g, k \in Index : g < count[ROOT] /\ k < count[g] /\ IsLine(Line(m), g, k)
<1>1. PICK g \in Index, k \in Index : g < count[ROOT] /\ k < count[g] /\ m = Mnemonic(g, k)
  BY DEF PrintedInv
<1> DEFINE l == Line(m)
<1>2. /\ l = [readable |-> TRUE, words |-> Words(n), sound |-> TRUE, pad |-> TRUE, id |-> Id,
              e |-> e, GI |-> g, GT |-> threshold[ROOT], G |-> count[ROOT], I |-> k,
              T |-> threshold[g], data |-> shares[g][k]]
  BY <1>1 DEF Line, Mnemonic
<1> HIDE DEF l
<1>3. PICK z \in 8 .. 32 : n = 2 * z
  <2>1. SizeOK(n)
    BY DEF SplitInv, OptionsInv
  <2>2. n \in 16 .. 64 /\ n % 2 = 0
    BY <2>1 DEF SizeOK
  <2>3. n \div 2 \in 8 .. 32 /\ n = 2 * (n \div 2)
    BY ONLY <2>2
  <2> QED BY ONLY <2>3
<1>4. /\ Words(n) \in 20 .. 59 /\ (10 * (Words(n) - 7)) % 16 < 10
      /\ 2 * ((10 * (Words(n) - 7)) \div 16) = n
  <2>1. PICK w \in Int : w = 4 + (8 * (2 * z) + 9) \div 10 + 3
    OBVIOUS
  <2>2. w \in 20 .. 59 /\ (10 * (w - 7)) % 16 < 10 /\ 2 * ((10 * (w - 7)) \div 16) = 2 * z
    BY ONLY <2>1, z \in 8 .. 32, w \in Int, WordsHold
  <2>3. w = Words(n)
    BY ONLY <1>3, <2>1 DEF Words
  <2> QED BY ONLY <1>3, <2>2, <2>3
<1>5. RP!WellFormed(l) /\ RP!Bytes(l) = n
  <2>1. l.readable = TRUE /\ l.sound = TRUE /\ l.words = Words(n)
    BY <1>2
  <2>2. Words(n) <= 59 /\ Words(n) >= 20
    BY ONLY <1>4
  <2> QED BY ONLY <1>4, <2>1, <2>2
         DEF RP!WellFormed, RP!Bytes, RP!Surplus, RP!WORDS, RP!MinWords
<1>6. Ready(ROOT) /\ Ready(g)
  BY <1>1, AllReady
<1>7. l \in Printable
  <2>1. /\ Words(n) \in Nat /\ e \in 0 .. 31 /\ Id \in {Id}
        /\ threshold[ROOT] \in 1 .. MaxShares /\ count[ROOT] \in 1 .. MaxShares
        /\ threshold[g] \in 1 .. MaxShares
    <3>1. \A M, c \in Int : \A t \in Int : t \in 1 .. c /\ c \in 1 .. M => t \in 1 .. M
      OBVIOUS
    <3>2. e \in 0 .. 31
      BY DEF SplitInv, OptionsInv
    <3>3. Words(n) \in Nat
      BY ONLY <1>4
    <3>4. MaxShares \in Int
      BY SetFacts
    <3>5. /\ threshold[ROOT] \in 1 .. count[ROOT] /\ count[ROOT] \in 1 .. MaxShares
          /\ threshold[g] \in 1 .. count[g] /\ count[g] \in 1 .. MaxShares
      BY <1>6 DEF Ready
    <3>6. /\ threshold[ROOT] \in Int /\ count[ROOT] \in Int
          /\ threshold[g] \in Int /\ count[g] \in Int
      BY ONLY <3>5
    <3> QED BY ONLY <3>1, <3>2, <3>3, <3>4, <3>5, <3>6
  <2>2. shares[g][k] \in Value
    <3>1. k \in 0 .. count[g] - 1
      <4>1. count[g] \in Int
        BY <1>6 DEF Ready
      <4> QED BY <1>1, <4>1, SharesAssumption DEF Index
    <3>2. k \in DOMAIN shares[g] /\ shares[g] \in [DOMAIN shares[g] -> Value]
      BY <1>6, <3>1 DEF Ready
    <3> QED BY ONLY <3>2
  <2> QED BY ONLY <1>2, <2>1, <2>2, g \in Index, k \in Index DEF Printable
<1>8. IsLine(l, g, k)
  BY <1>2, <1>5, <1>7 DEF IsLine
<1> QED BY <1>1, <1>8 DEF l

(* A quorum of a set gives its secret back, in the run that recovers. *)
LEMMA QuorumGives ==
  ASSUME NEW s, Ready(s), NEW used \in SUBSET (0 .. count[s] - 1),
         Cardinality(used) = threshold[s], r_threshold[s] = threshold[s],
         \A k \in used : r_shares[s][k] = shares[s][k]
  PROVE  RP!SecretOf(s, used) = shares[s][SecretX] /\ RP!DigestFits(s, used)
<1> DEFINE f == shares[s]
           t == threshold[s]
           c == count[s]
<1>1. f \in [DOMAIN f -> Value] /\ Whole(f, t, c) /\ t \in 1 .. c /\ c \in 1 .. MaxShares
  BY DEF Ready
<1>2. CASE t = 1
  <2>1. used # {}
    BY <1>2, FS_EmptySet
  <2>2. (CHOOSE k \in used : TRUE) \in used
    BY <2>1
  <2>3. \A k \in 0 .. c - 1 : f[k] = f[SecretX]
    BY <1>1, <1>2 DEF Whole
  <2>4. r_shares[s][CHOOSE k \in used : TRUE] = shares[s][SecretX]
    BY <2>2, <2>3
  <2> QED BY <1>2, <2>4 DEF RP!SecretOf, RP!DigestFits
<1>3. CASE t # 1
  <2>0. MaxShares \in 0 .. 254
    BY SetFacts
  <2>1. t \in 2 .. 254 /\ c \in t .. MaxShares
    <3> HIDE DEF t, c
    <3> QED BY ONLY <1>1, <1>3, <2>0, MoreThanOne
  <2>2. used \in kSubset(t, 0 .. c - 1)
    BY DEF kSubset
  <2>3. GivesBack(f, used)
    <3> HIDE DEF f, t, c
    <3> QED BY ONLY <1>1, <2>1, <2>2, QuorumInterpolates
  <2>4. DigestOK(f[DigestX], f[SecretX])
    BY <1>1, <1>3, WholeMeans
  <2>5. RP!Points(s, used) = [k \in used |-> f[k]]
    BY DEF RP!Points
  <2>6. /\ Interpolate(RP!Points(s, used), SecretX) = f[SecretX]
        /\ Interpolate(RP!Points(s, used), DigestX) = f[DigestX]
    BY <2>3, <2>5 DEF GivesBack
  <2>7. r_threshold[s] # 1
    BY <1>3
  <2> HIDE DEF f
  <2>8. RP!SecretOf(s, used) = f[SecretX]
    BY <2>6, <2>7, SameNames DEF RP!SecretOf
  <2>9. RP!DigestFits(s, used)
    BY <2>4, <2>6, <2>7, SameNames DEF RP!DigestFits
  <2> QED BY <2>8, <2>9 DEF f
<1> QED BY <1>2, <1>3

KeepsShares ==
  \A s \in Sets : \A k \in DOMAIN shares[s] :
    k \in DOMAIN shares'[s] /\ shares'[s][k] = shares[s][k]

(* The next group gets its share of the root, which there is. *)
LEMMA NextInherits ==
  ASSUME SplitInv, SplitInv', NEW done, NextSet(done),
         done = [s \in Sets |-> done[s]], \A s \in Sets : s # cur => done[s] = shares[s]
  PROVE  cur' = cur \/ (cur' = cur + 1 /\ Inherits(cur)')
<1>1. CASE ~(cur + 1 < count[ROOT])
  BY <1>1 DEF NextSet
<1>2. CASE cur + 1 < count[ROOT]
  <2>1. /\ cur \in Sets /\ count[ROOT] \in 1 .. MaxShares
        /\ \A s \in Sets : s > cur => DOMAIN shares[s] = {}
    BY DEF SplitInv, ProgressInv, OptionsInv
  <2>2. cur + 1 \in Sets /\ cur + 1 > cur /\ cur + 1 # cur /\ cur + 1 # ROOT
    BY <1>2, <2>1, SetFacts
  <2>3. cur' = cur + 1 /\ phase' = "enter"
    BY <1>2 DEF NextSet
  <2>4. shares' = IF cur + 1 \in DOMAIN done[ROOT]
                    THEN [done EXCEPT ![cur + 1] = Put(done[cur + 1], SecretX, done[ROOT][cur + 1])]
                    ELSE done
    BY <1>2 DEF NextSet
  <2>5. DOMAIN shares'[cur + 1] = {SecretX}
    BY <2>3 DEF SplitInv, ProgressInv
  <2>6. cur + 1 \in DOMAIN done[ROOT]
    <3>1. CASE cur + 1 \notin DOMAIN done[ROOT]
      <4>1. shares'[cur + 1] = shares[cur + 1]
        BY <2>2, <2>4, <3>1
      <4>2. DOMAIN shares[cur + 1] = {}
        BY <2>1, <2>2
      <4> QED BY ONLY <2>5, <4>1, <4>2
    <3> QED BY <3>1
  <2>7. /\ shares'[cur + 1] = Put(done[cur + 1], SecretX, done[ROOT][cur + 1])
        /\ shares'[ROOT] = done[ROOT]
    <3>1. shares' = [done EXCEPT ![cur + 1] = Put(done[cur + 1], SecretX, done[ROOT][cur + 1])]
      BY ONLY <2>4, <2>6
    <3> QED BY <2>2, <3>1, SetFacts
  <2>8. shares'[cur + 1][SecretX] = done[ROOT][cur + 1]
    BY ONLY <2>7 DEF Put
  <2>9. /\ SecretX \in DOMAIN shares'[cur + 1] /\ cur + 1 \in DOMAIN shares'[ROOT]
         /\ shares'[cur + 1][SecretX] = shares'[ROOT][cur + 1]
    BY ONLY <2>5, <2>6, <2>7, <2>8
  <2> QED BY <2>3, <2>9 DEF Inherits
<1> QED BY <1>1, <1>2

LEMMA InheritStays ==
  ASSUME SplitInv, SplitInv', InheritInv, KeepsShares,
         cur' = cur \/ (cur' = cur + 1 /\ Inherits(cur)')
  PROVE  InheritInv'
<1>1. cur \in Sets /\ cur' \in Sets
  BY DEF SplitInv, ProgressInv
<1>2. ASSUME NEW g \in Index, g <= cur
      PROVE  Inherits(g)'
  <2>1. Inherits(g) /\ g \in Sets /\ ROOT \in Sets
    BY <1>2, SetFacts DEF InheritInv, Sets
  <2> QED BY <2>1 DEF Inherits, KeepsShares
<1>3. CASE cur' = cur
  BY <1>2, <1>3 DEF InheritInv
<1>4. CASE cur' = cur + 1 /\ Inherits(cur)'
  <2>1. ASSUME NEW g \in Index, g <= cur' PROVE Inherits(g)'
    <3>1. g <= cur \/ g = cur'
      BY <1>1, <1>4, <2>1, SetFacts, RoomAssumption DEF Index
    <3>2. CASE g <= cur
      BY <1>2, <3>2
    <3>3. CASE g = cur'
      BY <1>4, <3>3 DEF Inherits
    <3> QED BY <3>1, <3>2, <3>3
  <2> QED BY <2>1 DEF InheritInv
<1> QED BY <1>3, <1>4

LEMMA SplitInherits ==
  ASSUME SplitInv, InheritInv, Next
  PROVE  InheritInv'
<1>1. SplitInv' /\ KeepsShares
  <2>1. ASSUME UNCHANGED shares PROVE KeepsShares
    BY <2>1 DEF KeepsShares
  <2> QED BY <2>1, EnterSetGoesOn, DrawShareGoesOn, ComputeSharesGoesOn, PrintKeeps
          DEF Next, KeepsShares
<1>2. cur \in Sets /\ shares = [s \in Sets |-> shares[s]]
  BY DEF SplitInv, ProgressInv
<1>3. cur' = cur \/ (cur' = cur + 1 /\ Inherits(cur)')
  <2>1. ASSUME NEW v, NextSet([shares EXCEPT ![cur] = v])
        PROVE  cur' = cur \/ (cur' = cur + 1 /\ Inherits(cur)')
    <3> DEFINE done == [shares EXCEPT ![cur] = v]
    <3>1. done = [s \in Sets |-> done[s]] /\ \A s \in Sets : s # cur => done[s] = shares[s]
      BY <1>2
    <3>2. NextSet(done)
      BY <2>1
    <3> HIDE DEF done
    <3> QED BY <1>1, <3>1, <3>2, NextInherits
  <2>2. CASE EnterSet
    <3>1. \/ cur' = cur
          \/ NextSet([shares EXCEPT ![cur] =
                        Merge([k \in 0 .. count[cur] - 1 |-> shares[cur][SecretX]], shares[cur])])
      BY <2>2, <1>2 DEF EnterSet
    <3> QED BY ONLY <2>1, <3>1
  <2>3. CASE ComputeShares
    <3>1. NextSet([shares EXCEPT ![cur] =
                     Merge([k \in FirstComputed .. count[cur] - 1 |-> Interpolate(shares[cur], k)],
                           shares[cur])])
      BY <2>3 DEF ComputeShares
    <3> QED BY ONLY <2>1, <3>1
  <2>4. CASE DrawShare \/ PrintMnemonics
    BY <2>4 DEF DrawShare, PrintMnemonics
  <2> QED BY <2>2, <2>3, <2>4 DEF Next
<1> QED BY <1>1, <1>3, InheritStays

LEMMA PrintsAll ==
  ASSUME SplitInv, Next
  PROVE  PrintedInv'
<1>1. CASE PrintMnemonics
  <2>1. SizeOK(n) /\ e < 32
    BY DEF SplitInv, OptionsInv
  <2>2. /\ printed' = {Mnemonic(p[1], p[2]) :
                         p \in {q \in Index \X Index : q[1] < count[ROOT] /\ q[2] < count[q[1]]}}
        /\ UNCHANGED <<options, shares>>
    BY <1>1, <2>1 DEF PrintMnemonics
  <2>3. ASSUME NEW m \in printed'
        PROVE  \E g, k \in Index : g < count'[ROOT] /\ k < count'[g] /\ m = Mnemonic(g, k)'
    <3>1. PICK p \in Index \X Index : p[1] < count[ROOT] /\ p[2] < count[p[1]] /\ m = Mnemonic(p[1], p[2])
      BY <2>2
    <3>2. PICK g \in Index, k \in Index : g = p[1] /\ k = p[2]
      OBVIOUS
    <3>3. g < count[ROOT] /\ k < count[g] /\ m = Mnemonic(g, k)
      BY ONLY <3>1, <3>2
    <3>4. Mnemonic(g, k)' = Mnemonic(g, k) /\ count' = count
      BY <2>2 DEF Mnemonic, options
    <3> QED BY <3>3, <3>4
  <2> QED BY <2>3 DEF PrintedInv
<1>2. CASE EnterSet \/ DrawShare \/ ComputeShares
  <2>1. phase' # "printed"
    BY <1>2 DEF EnterSet, DrawShare, ComputeShares, NextSet
  <2> QED BY <2>1 DEF PrintedInv
<1> QED BY <1>1, <1>2 DEF Next

LEMMA PrintedIsOver ==
  ASSUME Next
  PROVE  phase # "printed"
BY DEF Next, EnterSet, DrawShare, ComputeShares, PrintMnemonics

(* What the run that recovers has accepted is what was printed.            *)
HeaderKept ==
  r_n # 0 => /\ r_n = n /\ r_id = Id /\ r_e = e
             /\ r_count = count[ROOT] /\ r_threshold[ROOT] = threshold[ROOT]

GroupsKept ==
  \A g \in Index : r_threshold[g] # 0 => g < count[ROOT] /\ r_threshold[g] = threshold[g]

SharesKept ==
  \A g \in Index : \A k \in RP!Loaded(g) :
    g < count[ROOT] /\ k < count[g] /\ r_shares[g][k] = shares[g][k]

(* What it has recovered is what was split. *)
RootKept ==
  /\ \A g \in RP!Loaded(ROOT) : g < count[ROOT] /\ r_shares[ROOT][g] = shares[ROOT][g]
  /\ r_phase = "decrypt" => r_shares[ROOT][SecretX] = shares[ROOT][SecretX]

KeptInv ==
  /\ HeaderKept /\ GroupsKept /\ SharesKept /\ RootKept
  /\ r_phase # "fatal" => r_refused = NoLine

LEMMA EmptyKept == RP!Init => KeptInv
<1> SUFFICES ASSUME RP!Init PROVE KeptInv
  OBVIOUS
<1>1. /\ r_n = 0 /\ r_phase = "mnemonics" /\ r_refused = NoLine
      /\ r_threshold = [s \in Sets |-> 0] /\ r_shares = [s \in Sets |-> [k \in {} |-> NoSecret]]
  BY SameNames DEF RP!Init
<1>2. \A s \in Sets : r_threshold[s] = 0 /\ RP!Loaded(s) = {}
  BY <1>1 DEF RP!Loaded
<1>3. ROOT \in Sets /\ \A g \in Index : g \in Sets
  BY SetFacts DEF Sets
<1> QED BY ONLY <1>1, <1>2, <1>3 DEF KeptInv, HeaderKept, GroupsKept, SharesKept, RootKept

(* Everything the run that recovers has read from is as it was. *)
LEMMA StoreKept ==
  ASSUME KeptInv, UNCHANGED vars, UNCHANGED <<r_n, r_id, r_e, r_count, r_threshold, r_shares, r_refused>>,
         r_phase' # "decrypt", r_phase # "fatal"
  PROVE  KeptInv'
<1>1. UNCHANGED <<n, e, threshold, count, shares>>
  BY DEF vars, options
<1>2. \A s : RP!Loaded(s)' = RP!Loaded(s)
  BY DEF RP!Loaded
<1> QED BY <1>1, <1>2 DEF KeptInv, HeaderKept, GroupsKept, SharesKept, RootKept

(* The quorum test decides whether the mnemonics are sufficient. *)
LEMMA SufficientIsQuorum ==
  ASSUME SplitInv, SharesInv, phase = "printed", KeptInv, RP!IInv, r_phase # "fatal"
  PROVE  Sufficient <=> RP!Quorum(ROOT)
<1> DEFINE A == {g \in 0 .. count[ROOT] - 1 : Cardinality(R!Loaded(g)) >= threshold[g]}
           B == {g \in Index : RP!Quorum(g)}
<1>1. /\ \A g \in Index : r_available[g] = Cardinality(RP!Loaded(g))
      /\ r_available[ROOT] = Cardinality(B)
      /\ r_n = 0 => \A s \in Sets : r_threshold[s] = 0
      /\ \A g \in Index : r_threshold[g] = 0 => RP!Loaded(g) = {}
  BY SameNames, SameCardinality DEF RP!IInv, RP!CountersExact, RP!ReadingInv
<1>2. \A s \in Sets : r_threshold[s] \in Nat /\ r_available[s] \in Nat
  <2>1. /\ r_threshold \in [Sets -> 0 .. MaxShares] /\ r_available \in [Sets -> 0 .. MaxShares]
    BY SameNames DEF RP!IInv, RP!TypeOK
  <2> QED BY <2>1, SetFacts
<1>3. Ready(ROOT) /\ \A g \in Index : g < count[ROOT] => Ready(g)
  BY AllReady
<1>4. \A g \in Index : g \in Sets
  BY DEF Sets
<1>5. A = B
  <2>1. ASSUME NEW g \in B PROVE g \in A
    <3>1. g \in Index /\ r_available[g] >= r_threshold[g] /\ r_threshold[g] # 0
      BY DEF RP!Quorum
    <3>2. g < count[ROOT] /\ r_threshold[g] = threshold[g]
      BY <3>1 DEF KeptInv, GroupsKept
    <3>3. g \in 0 .. count[ROOT] - 1
      <4>1. count[ROOT] \in Int
        BY <1>3 DEF Ready
      <4> QED BY <3>1, <3>2, <4>1, RoomAssumption DEF Index
    <3>4. Cardinality(R!Loaded(g)) >= threshold[g]
      BY <1>1, <3>1, <3>2, SameLoaded
    <3> QED BY <3>3, <3>4
  <2>2. ASSUME NEW g \in A PROVE g \in B
    <3>1. g \in Index /\ g < count[ROOT]
      <4>1. count[ROOT] \in 1 .. MaxShares
        BY <1>3 DEF Ready
      <4> QED BY <4>1, RoomAssumption DEF Index
    <3>2. r_available[g] >= threshold[g]
      BY <1>1, <3>1, SameLoaded
    <3>3. threshold[g] \in Nat \ {0}
      BY <1>3, <3>1 DEF Ready
    <3>4. RP!Loaded(g) # {}
      <4>1. CASE RP!Loaded(g) = {}
        <5>1. r_available[g] = 0
          BY <1>1, <3>1, <4>1, FS_EmptySet
        <5> QED BY ONLY <3>2, <3>3, <5>1
      <4> QED BY <4>1
    <3>5. r_threshold[g] # 0
      BY <1>1, <3>1, <3>4
    <3>6. r_threshold[g] = threshold[g]
      BY <3>1, <3>5 DEF KeptInv, GroupsKept
    <3> QED BY <3>1, <3>2, <3>5, <3>6 DEF RP!Quorum
  <2> QED BY ONLY <2>1, <2>2
<1>6. Sufficient <=> Cardinality(B) >= threshold[ROOT]
  BY <1>5 DEF Sufficient
<1>7. threshold[ROOT] \in Nat \ {0}
  BY <1>3 DEF Ready
<1>8. CASE r_n = 0
  <2>1. r_threshold[ROOT] = 0 /\ \A g \in Index : r_threshold[g] = 0
    BY <1>1, <1>4, <1>8, SetFacts
  <2>2. B = {}
    BY <2>1 DEF RP!Quorum
  <2>3. Cardinality(B) = 0
    BY <2>2, FS_EmptySet
  <2>4. ~Sufficient
    BY ONLY <1>6, <1>7, <2>3
  <2> QED BY <2>1, <2>4 DEF RP!Quorum
<1>9. CASE r_n # 0
  <2>1. r_threshold[ROOT] = threshold[ROOT]
    BY <1>9 DEF KeptInv, HeaderKept
  <2> HIDE DEF B
  <2> QED BY <1>1, <1>6, <1>7, <2>1 DEF RP!Quorum
<1> QED BY <1>8, <1>9

(* A line of the backup is refused only when its share is there already.   *)
LEMMA TypedKept ==
  ASSUME SplitInv, SharesInv, PrintedInv, phase = "printed", KeptInv, RP!IInv,
         NEW m \in printed, RP!AddMnemonic(Line(m)), UNCHANGED vars
  PROVE  KeptInv' /\ RefusedForCause' /\ RecoversTheSecret'
<1>1. PICK g \in Index, k \in Index :
        g < count[ROOT] /\ k < count[g] /\ IsLine(Line(m), g, k)
  BY PrintedLines
<1>2. PICK l \in Printable : l = Line(m)
  BY <1>1 DEF IsLine
<1>3. /\ RP!WellFormed(l) /\ l.pad = TRUE /\ RP!Bytes(l) = n
      /\ l.id = Id /\ l.e = e /\ l.GI = g /\ l.GT = threshold[ROOT] /\ l.G = count[ROOT]
      /\ l.I = k /\ l.T = threshold[g] /\ l.data = shares[g][k]
  BY <1>1, <1>2 DEF IsLine
<1>4. RP!AddMnemonic(l) /\ r_phase = "mnemonics"
  BY <1>2 DEF RP!AddMnemonic
<1>5. RP!Matches(l)
  BY <1>3 DEF KeptInv, HeaderKept, RP!Matches, RP!Header, RP!ROOT, ROOT
<1>6. ~(l.GI >= l.G)
  <2>1. count[ROOT] \in Int /\ g \in Int
    BY SharesAssumption DEF SplitInv, OptionsInv, Index
  <2> QED BY <1>1, <1>3, <2>1
<1>7. r_threshold[l.GI] \in {0, l.T}
  BY <1>3 DEF KeptInv, GroupsKept
<1>8. RP!RejectDuplicate(l) \/ RP!LoadShare(l)
  BY <1>3, <1>4, <1>5, <1>6, <1>7
     DEF RP!AddMnemonic, RP!RejectMalformed, RP!RejectMismatch, RP!RejectGroupIndex,
         RP!RejectMemberThreshold, RP!RejectPadding
<1>9. RP!AdoptHeader(l) /\ r_threshold' = RP!GroupThreshold(l)
  BY <1>8 DEF RP!RejectDuplicate, RP!LoadShare
<1>10. UNCHANGED <<n, e, threshold, count, shares>>
  BY DEF vars, options
<1>11. /\ g \in Sets /\ ROOT \in Sets /\ g # ROOT
       /\ r_threshold \in [Sets -> 0 .. MaxShares] /\ DOMAIN r_shares = Sets
  BY SetFacts, SameNames DEF Sets, Index, ROOT, RP!IInv, RP!TypeOK
<1>12. /\ r_threshold'[ROOT] = threshold[ROOT] /\ r_threshold'[g] = threshold[g]
       /\ \A s \in Sets : s # g /\ s # ROOT => r_threshold'[s] = r_threshold[s]
  <2>1. r_threshold' = [[r_threshold EXCEPT ![ROOT] = l.GT] EXCEPT
                          ![g] = IF r_threshold[g] = 0 THEN l.T ELSE @]
    BY <1>3, <1>9, SameNames DEF RP!GroupThreshold, RP!RootThreshold
  <2> QED BY <1>3, <1>7, <1>11, <2>1
<1>13. HeaderKept'
  BY <1>3, <1>9, <1>10, <1>12 DEF HeaderKept, RP!AdoptHeader
<1>14. GroupsKept'
  <2>1. \A h \in Index : h \in Sets /\ h # ROOT
    BY SetFacts DEF Sets, Index, ROOT
  <2> QED BY <1>1, <1>10, <1>12, <2>1 DEF KeptInv, GroupsKept
<1>15. CASE RP!RejectDuplicate(l)
  <2>1. r_shares' = r_shares /\ r_phase' = "fatal" /\ r_refused' = l /\ k \in RP!Loaded(g)
    BY <1>3, <1>15 DEF RP!RejectDuplicate, RP!Fatal
  <2>2. \A s : RP!Loaded(s)' = RP!Loaded(s)
    BY <2>1 DEF RP!Loaded
  <2>3. SharesKept' /\ RootKept'
    BY <1>10, <2>1, <2>2 DEF KeptInv, SharesKept, RootKept
  <2>4. l # NoLine
    BY NoLineAssumption
  <2>5. RefusedForCause'
    <3>1. r_refused'.I \in DOMAIN r_shares'[r_refused'.GI] \cap Index
      BY <1>3, <2>1, SameNames DEF RP!Loaded
    <3>2. Index = R!Index
      BY DEF R!Index, Index
    <3> QED BY <2>1, <2>4, <3>1, <3>2 DEF RefusedForCause, R!Loaded
  <2> QED BY <1>13, <1>14, <2>1, <2>3, <2>5 DEF KeptInv, RecoversTheSecret
<1>16. CASE RP!LoadShare(l)
  <2>1. r_shares' = RP!LoadedShares(l) /\ r_phase' = "mnemonics" /\ r_refused' = r_refused
    BY <1>4, <1>16 DEF RP!LoadShare
  <2>2. r_shares' = [r_shares EXCEPT ![g] = RP!Put(r_shares[g], k, shares[g][k])]
    BY <1>3, <2>1 DEF RP!LoadedShares
  <2>3. /\ \A s \in Sets : s # g => r_shares'[s] = r_shares[s] /\ RP!Loaded(s)' = RP!Loaded(s)
        /\ RP!Loaded(g)' \subseteq RP!Loaded(g) \cup {k}
        /\ r_shares'[g][k] = shares[g][k]
        /\ \A h \in RP!Loaded(g) : h # k => r_shares'[g][h] = r_shares[g][h]
    BY <1>11, <2>2 DEF RP!Loaded, RP!Put
  <2>4. SharesKept'
    <3>1. ASSUME NEW h \in Index, NEW q \in RP!Loaded(h)'
          PROVE  h < count[ROOT] /\ q < count[h] /\ r_shares'[h][q] = shares[h][q]
      <4>1. CASE h # g
        <5>1. h \in Sets
          BY DEF Sets
        <5>2. q \in RP!Loaded(h) /\ r_shares'[h] = r_shares[h]
          BY <2>3, <3>1, <4>1, <5>1
        <5> QED BY <5>2 DEF KeptInv, SharesKept
      <4>2. CASE h = g /\ q = k
        BY <1>1, <2>3, <4>2
      <4>3. CASE h = g /\ q # k
        <5>1. q \in RP!Loaded(g)
          BY <2>3, <3>1, <4>3
        <5> QED BY <2>3, <4>3, <5>1 DEF KeptInv, SharesKept
      <4> QED BY <4>1, <4>2, <4>3
    <3> QED BY <1>10, <3>1 DEF SharesKept
  <2>5. RootKept'
    <3>1. r_shares'[ROOT] = r_shares[ROOT] /\ RP!Loaded(ROOT)' = RP!Loaded(ROOT)
      BY <1>11, <2>3
    <3> QED BY <1>10, <2>1, <3>1 DEF KeptInv, RootKept
  <2>6. r_refused = NoLine
    BY <1>4 DEF KeptInv
  <2> QED BY <1>13, <1>14, <2>1, <2>4, <2>5, <2>6 DEF KeptInv, RefusedForCause, RecoversTheSecret
<1> QED BY <1>8, <1>15, <1>16

(* What holds while mnemonics are typed and the backup is recovered. *)
Recovering == KeptInv /\ RefusedForCause /\ RecoversTheSecret

(* A group that has its quorum gives its secret, and a digest that fits. *)
LEMMA GroupGives ==
  ASSUME SplitInv, SharesInv, phase = "printed", KeptInv, RP!IInv, r_phase = "group"
  PROVE  /\ r_i \in Index /\ r_i < count[ROOT]
         /\ RP!SecretOf(r_i, r_idx) = shares[r_i][SecretX] /\ RP!DigestFits(r_i, r_idx)
<1>1. /\ r_i \in Index /\ RP!Quorum(r_i)
      /\ r_idx \subseteq RP!Loaded(r_i) /\ Cardinality(r_idx) = r_threshold[r_i]
  BY SameNames, SameCardinality DEF RP!IInv, RP!TypeOK, RP!LoopInv
<1>2. r_i < count[ROOT] /\ r_threshold[r_i] = threshold[r_i]
  BY <1>1 DEF KeptInv, GroupsKept, RP!Quorum
<1>3. Ready(r_i)
  BY <1>1, <1>2, AllReady
<1>4. \A k \in r_idx : k \in Index /\ k < count[r_i] /\ r_shares[r_i][k] = shares[r_i][k]
  <2>1. \A k \in RP!Loaded(r_i) : k \in Index
    BY SameNames DEF RP!Loaded
  <2> QED BY <1>1, <2>1 DEF KeptInv, SharesKept
<1>5. r_idx \in SUBSET (0 .. count[r_i] - 1)
  <2>1. count[r_i] \in 1 .. MaxShares
    BY <1>3 DEF Ready
  <2>2. \A k \in Index : k < count[r_i] => k \in 0 .. count[r_i] - 1
    BY ONLY <2>1, SetFacts DEF Index
  <2> QED BY ONLY <1>4, <2>2
<1>6. Cardinality(r_idx) = threshold[r_i]
  BY ONLY <1>1, <1>2
<1> QED BY <1>1, <1>2, <1>3, <1>4, <1>5, <1>6, QuorumGives

(* So do the groups together. *)
LEMMA RootGives ==
  ASSUME SplitInv, SharesInv, phase = "printed", KeptInv, RP!IInv, r_phase = "root"
  PROVE  /\ RP!SecretOf(ROOT, RP!Loaded(ROOT)) = shares[ROOT][SecretX]
         /\ RP!DigestFits(ROOT, RP!Loaded(ROOT))
<1> DEFINE used == RP!Loaded(ROOT)
<1>1. Cardinality(used) = r_threshold[ROOT] /\ RP!Quorum(ROOT)
  BY SameNames, SameCardinality DEF RP!IInv, RP!LoopInv
<1>2. r_threshold[ROOT] = threshold[ROOT]
  <2>1. r_threshold[ROOT] # 0
    BY <1>1 DEF RP!Quorum
  <2>2. r_n # 0
    BY <2>1, SameNames, SetFacts DEF RP!IInv, RP!ReadingInv
  <2> QED BY <2>2 DEF KeptInv, HeaderKept
<1>3. Ready(ROOT)
  BY AllReady
<1>4. \A k \in used : k \in Index /\ k < count[ROOT] /\ r_shares[ROOT][k] = shares[ROOT][k]
  <2>1. \A k \in used : k \in Index
    BY SameNames DEF RP!Loaded
  <2> QED BY <2>1 DEF KeptInv, RootKept
<1>5. used \in SUBSET (0 .. count[ROOT] - 1)
  <2>1. count[ROOT] \in 1 .. MaxShares
    BY <1>3 DEF Ready
  <2>2. \A k \in Index : k < count[ROOT] => k \in 0 .. count[ROOT] - 1
    BY ONLY <2>1, SetFacts DEF Index
  <2> HIDE DEF used
  <2> QED BY ONLY <1>4, <2>2
<1>6. Cardinality(used) = threshold[ROOT]
  BY ONLY <1>1, <1>2
<1> HIDE DEF used
<1>7. RP!SecretOf(ROOT, used) = shares[ROOT][SecretX] /\ RP!DigestFits(ROOT, used)
  BY <1>2, <1>3, <1>4, <1>5, <1>6, QuorumGives
<1> QED BY <1>7 DEF used

(* Steps that read on. *)
LEMMA ReadingOn ==
  ASSUME KeptInv, UNCHANGED vars,
         RP!EndOfInput \/ RP!SkipGroup \/ RP!EnterGroup \/ RP!TakeShare
  PROVE  Recovering'
<1>1. /\ UNCHANGED <<r_n, r_id, r_e, r_count, r_threshold, r_shares, r_refused>>
      /\ r_phase # "fatal" /\ r_phase' \notin {"fatal", "decrypt", "done"}
  BY DEF RP!EndOfInput, RP!SkipGroup, RP!EnterGroup, RP!TakeShare, RP!NextGroup,
         RP!header, RP!store, RP!loop
<1>2. KeptInv'
  BY <1>1, StoreKept
<1> QED BY <1>1, <1>2 DEF Recovering, RefusedForCause, RecoversTheSecret

(* The quorum test refuses what is not sufficient, and nothing else. *)
LEMMA QuorumTested ==
  ASSUME SplitInv, SharesInv, phase = "printed", KeptInv, RP!IInv, UNCHANGED vars, RP!CheckQuorum
  PROVE  Recovering'
<1>1. /\ UNCHANGED <<r_n, r_id, r_e, r_count, r_threshold, r_shares, r_refused>>
      /\ r_phase = "quorum"
      /\ r_phase' = IF RP!Quorum(ROOT) THEN "groups" ELSE "fatal"
  BY SameNames DEF RP!CheckQuorum, RP!header, RP!store
<1>2. KeptInv'
  BY <1>1, StoreKept
<1>3. Sufficient' <=> Sufficient
  BY <1>1 DEF Sufficient, R!Loaded, vars, options
<1>4. Sufficient <=> RP!Quorum(ROOT)
  BY <1>1, SufficientIsQuorum
<1>5. r_refused' = NoLine
  BY <1>1 DEF KeptInv
<1>6. RefusedForCause'
  BY <1>1, <1>3, <1>4, <1>5 DEF RefusedForCause
<1> QED BY <1>1, <1>2, <1>6 DEF Recovering, RecoversTheSecret

LEMMA GroupRecovered ==
  ASSUME SplitInv, SharesInv, InheritInv, phase = "printed", KeptInv, RP!IInv,
         UNCHANGED vars, RP!RecoverGroup
  PROVE  Recovering'
<1>1. /\ r_phase = "group" /\ RP!AssertsHold(r_i, r_idx)
      /\ UNCHANGED <<r_n, r_id, r_e, r_count, r_threshold, r_refused>>
  <2>1. r_phase = "group"
    BY DEF RP!RecoverGroup
  <2>2. RP!AssertsHold(r_i, r_idx)
    BY <2>1, PrintableLines, RoomAssumption, NoLineAssumption, RP!GroupAsserts
  <2> QED BY <2>1, <2>2 DEF RP!RecoverGroup, RP!header
<1>2. /\ r_i \in Index /\ r_i < count[ROOT]
      /\ RP!SecretOf(r_i, r_idx) = shares[r_i][SecretX] /\ RP!DigestFits(r_i, r_idx)
  BY <1>1, GroupGives
<1> DEFINE secret == RP!SecretOf(r_i, r_idx)
           whole  == RP!Completed(r_i, r_idx)
<1>3. /\ r_shares' = [r_shares EXCEPT ![r_i] = whole, ![ROOT] = RP!Put(r_shares[ROOT], r_i, secret)]
      /\ r_phase' \in {"root", "groups"}
  <2>1. /\ r_shares' = [r_shares EXCEPT ![r_i] = whole, ![ROOT] = RP!Put(@, r_i, secret)]
        /\ RP!NextGroup(RP!Cardinality(RP!Loaded(ROOT) \cup {r_i}))
    BY <1>1, <1>2, SameNames DEF RP!RecoverGroup
  <2>2. r_i # ROOT
    BY <1>2, SetFacts DEF Index
  <2>3. r_shares' = [r_shares EXCEPT ![r_i] = whole, ![ROOT] = RP!Put(r_shares[ROOT], r_i, secret)]
    BY ONLY <2>1, <2>2
  <2> QED BY <2>1, <2>3 DEF RP!NextGroup
<1>4. /\ r_i \in Sets /\ ROOT \in Sets /\ r_i # ROOT /\ DOMAIN r_shares = Sets
      /\ RP!Untouched(r_i)
  <2>1. DOMAIN r_shares = Sets
    BY SameNames DEF RP!IInv, RP!TypeOK
  <2>2. r_i \in Sets /\ ROOT \in Sets /\ r_i # ROOT /\ r_i >= r_i
    BY <1>2, SetFacts DEF Sets, Index
  <2>3. \A g \in Index : g >= r_i => RP!Untouched(g)
    BY <1>1, SameNames DEF RP!IInv, RP!LoopInv
  <2> QED BY <1>2, <2>1, <2>2, <2>3
<1>5. /\ DOMAIN whole \cap Index = DOMAIN r_shares[r_i] \cap Index
      /\ \A k \in DOMAIN r_shares[r_i] : whole[k] = r_shares[r_i][k]
  <2>1. DOMAIN whole \cap RP!Index = DOMAIN r_shares[r_i] \cap RP!Index
    BY PrintableLines, RoomAssumption, NoLineAssumption, RP!CompletedDomain
  <2>2. \A k \in DOMAIN r_shares[r_i] : whole[k] = r_shares[r_i][k]
    BY <1>4, PrintableLines, RoomAssumption, NoLineAssumption, RP!CompletedKeeps
  <2> QED BY <2>1, <2>2, SameNames
<1> HIDE DEF secret, whole
<1>6. /\ r_shares'[r_i] = whole
      /\ r_shares'[ROOT] = RP!Put(r_shares[ROOT], r_i, secret)
      /\ \A s \in Sets : s # r_i /\ s # ROOT => r_shares'[s] = r_shares[s]
  BY <1>3, <1>4
<1>7. UNCHANGED <<n, e, threshold, count, shares>>
  BY DEF vars, options
<1>8. SharesKept'
  <2>1. ASSUME NEW g \in Index, NEW k \in RP!Loaded(g)'
        PROVE  g < count[ROOT] /\ k < count[g] /\ r_shares'[g][k] = shares[g][k]
    <3>1. g \in Sets /\ g # ROOT
      BY SetFacts DEF Sets, Index
    <3>2. k \in DOMAIN r_shares'[g] /\ k \in Index
      BY <2>1, SameNames DEF RP!Loaded
    <3>3. k \in DOMAIN r_shares[g] /\ r_shares'[g][k] = r_shares[g][k]
      <4>1. CASE g = r_i
        BY <1>5, <1>6, <3>2, <4>1
      <4>2. CASE g # r_i
        BY <1>6, <3>1, <3>2, <4>2
      <4> QED BY <4>1, <4>2
    <3>4. k \in RP!Loaded(g)
      BY <3>2, <3>3, SameNames DEF RP!Loaded
    <3> QED BY <3>3, <3>4 DEF KeptInv, SharesKept
  <2> QED BY <1>7, <2>1 DEF SharesKept
<1>9. RootKept'
  <2>1. shares[r_i][SecretX] = shares[ROOT][r_i]
    <3>1. cur = count[ROOT] - 1 /\ count[ROOT] \in 1 .. MaxShares
      BY DEF SplitInv, ProgressInv, OptionsInv
    <3>2. r_i <= cur
      BY <1>2, <3>1, SetFacts DEF Index
    <3> QED BY <1>2, <3>2 DEF InheritInv, Inherits
  <2>2. ASSUME NEW g \in RP!Loaded(ROOT)'
        PROVE  g < count[ROOT] /\ r_shares'[ROOT][g] = shares[ROOT][g]
    <3>1. CASE g = r_i
      <4>1. r_shares'[ROOT][g] = secret
        BY <1>6, <3>1 DEF RP!Put
      <4> QED BY <1>2, <2>1, <3>1, <4>1 DEF secret
    <3>2. CASE g # r_i
      <4>1. g \in DOMAIN r_shares'[ROOT] /\ g \in Index
        BY <2>2, SameNames DEF RP!Loaded
      <4>2. g \in DOMAIN r_shares[ROOT] /\ r_shares'[ROOT][g] = r_shares[ROOT][g]
        BY <1>6, <3>2, <4>1 DEF RP!Put
      <4>3. g \in RP!Loaded(ROOT)
        BY <4>1, <4>2, SameNames DEF RP!Loaded
      <4> QED BY <4>2, <4>3 DEF KeptInv, RootKept
    <3> QED BY <3>1, <3>2
  <2>3. r_phase' # "decrypt"
    BY <1>3
  <2> QED BY <1>7, <2>2, <2>3 DEF RootKept
<1>10. HeaderKept' /\ GroupsKept'
  BY <1>1, <1>7 DEF KeptInv, HeaderKept, GroupsKept
<1>11. r_refused' = NoLine
  BY <1>1 DEF KeptInv
<1> QED BY <1>3, <1>8, <1>9, <1>10, <1>11
        DEF Recovering, KeptInv, RefusedForCause, RecoversTheSecret

LEMMA RootRecovered ==
  ASSUME SplitInv, SharesInv, phase = "printed", KeptInv, RP!IInv, UNCHANGED vars, RP!RecoverRoot
  PROVE  Recovering'
<1> DEFINE used  == RP!Loaded(ROOT)
           whole == RP!Completed(ROOT, used)
<1>1. r_phase = "root" /\ RP!Untouched(ROOT) /\ RP!AssertsHold(ROOT, used)
  <2>1. r_phase = "root"
    BY DEF RP!RecoverRoot
  <2> QED BY <2>1, SameNames DEF RP!IInv, RP!LoopInv, RP!AssertsHold, RP!Untouched
<1>2. RP!SecretOf(ROOT, used) = shares[ROOT][SecretX] /\ RP!DigestFits(ROOT, used)
  BY <1>1, RootGives
<1>3. /\ r_shares' = [r_shares EXCEPT ![ROOT] = whole] /\ r_phase' = "decrypt"
      /\ UNCHANGED <<r_n, r_id, r_e, r_count, r_threshold, r_refused>>
  BY <1>1, <1>2, SameNames DEF RP!RecoverRoot, RP!header
<1>4. /\ DOMAIN whole \cap Index = DOMAIN r_shares[ROOT] \cap Index
      /\ \A k \in DOMAIN r_shares[ROOT] : whole[k] = r_shares[ROOT][k]
  <2>1. DOMAIN whole \cap RP!Index = DOMAIN r_shares[ROOT] \cap RP!Index
    BY PrintableLines, RoomAssumption, NoLineAssumption, RP!CompletedDomain
  <2>2. \A k \in DOMAIN r_shares[ROOT] : whole[k] = r_shares[ROOT][k]
    BY <1>1, PrintableLines, RoomAssumption, NoLineAssumption, RP!CompletedKeeps
  <2> QED BY <2>1, <2>2, SameNames
<1>5. whole[SecretX] = shares[ROOT][SecretX]
  <2>1. whole[SecretX] = RP!SecretOf(ROOT, used)
    <3>1. \A f, v : RP!Put(f, SecretX, v)[SecretX] = v
      BY DEF RP!Put
    <3> QED BY <3>1, SameNames DEF RP!Completed
  <2> QED BY ONLY <1>2, <2>1
<1> HIDE DEF whole
<1>6. /\ ROOT \in Sets /\ r_shares'[ROOT] = whole
      /\ \A s \in Sets : s # ROOT => r_shares'[s] = r_shares[s]
  <2>1. DOMAIN r_shares = Sets
    BY SameNames DEF RP!IInv, RP!TypeOK
  <2> QED BY <1>3, <2>1, SetFacts
<1>7. UNCHANGED <<n, e, threshold, count, shares>>
  BY DEF vars, options
<1>8. SharesKept'
  <2>1. ASSUME NEW g \in Index
        PROVE  RP!Loaded(g)' = RP!Loaded(g) /\ r_shares'[g] = r_shares[g]
    <3>1. g \in Sets /\ g # ROOT
      BY SetFacts DEF Sets, Index
    <3> QED BY <1>6, <3>1 DEF RP!Loaded
  <2> QED BY <1>7, <2>1 DEF KeptInv, SharesKept
<1>9. RootKept'
  <2>1. RP!Loaded(ROOT)' = RP!Loaded(ROOT)
    BY <1>4, <1>6, SameNames DEF RP!Loaded
  <2>2. \A g \in RP!Loaded(ROOT) : g \in DOMAIN r_shares[ROOT]
    BY DEF RP!Loaded
  <2>3. \A g \in RP!Loaded(ROOT) : g < count[ROOT] /\ r_shares'[ROOT][g] = shares[ROOT][g]
    BY <1>4, <1>6, <2>2 DEF KeptInv, RootKept
  <2> QED BY <1>5, <1>6, <1>7, <2>1, <2>3 DEF RootKept
<1>10. HeaderKept' /\ GroupsKept'
  BY <1>3, <1>7 DEF KeptInv, HeaderKept, GroupsKept
<1>11. r_refused' = NoLine
  BY <1>1, <1>3 DEF KeptInv
<1> QED BY <1>3, <1>8, <1>9, <1>10, <1>11
        DEF Recovering, KeptInv, RefusedForCause, RecoversTheSecret

(* What is decrypted is the secret that was split, under the same header. *)
LEMMA SecretDecrypted ==
  ASSUME KeptInv, RP!IInv, UNCHANGED vars, RP!DecryptSecret
  PROVE  Recovering'
<1>1. /\ r_phase = "decrypt" /\ SecretX \in DOMAIN r_shares[ROOT] /\ r_plaintext = NoSecret
      /\ RP!Quorum(ROOT) /\ RP!ReadingInv
  BY SameNames DEF RP!DecryptSecret, RP!IInv, RP!LoopInv
<1>2. /\ r_plaintext' = Decrypt(r_id, r_e, r_shares[ROOT][SecretX]) /\ r_phase' = "done"
      /\ UNCHANGED <<r_n, r_id, r_e, r_count, r_threshold, r_shares, r_refused>>
  BY <1>1, SameNames DEF RP!DecryptSecret, RP!header, RP!store
<1>3. r_n # 0
  <2>1. r_threshold[ROOT] # 0
    BY <1>1 DEF RP!Quorum
  <2> QED BY <1>1, <2>1, SameNames, SetFacts DEF RP!ReadingInv
<1>4. r_n = n /\ r_id = Id /\ r_e = e /\ r_shares[ROOT][SecretX] = shares[ROOT][SecretX]
  BY <1>1, <1>3 DEF KeptInv, HeaderKept, RootKept
<1>5. UNCHANGED <<n, e, threshold, count, shares>>
  BY DEF vars, options
<1>6. KeptInv'
  BY <1>1, <1>2, StoreKept
<1>7. RecoversTheSecret'
  BY <1>2, <1>4, <1>5 DEF RecoversTheSecret
<1> QED BY <1>2, <1>6, <1>7 DEF Recovering, RefusedForCause

(* The inductive invariant of the two runs: the one that recovers has not  *)
(* begun before the other one is over, and keeps to what was printed.      *)
BackupInv ==
  /\ SplitInv /\ SharesInv /\ InheritInv /\ PrintedInv
  /\ RP!IInv /\ (phase # "printed" => RP!Init)
  /\ Recovering

LEMMA BackupBegins == ASSUME InRange PROVE BackupInit => BackupInv
<1> SUFFICES ASSUME BackupInit PROVE BackupInv
  OBVIOUS
<1>1. SplitInv /\ SharesInv /\ RP!Init
  BY Begins, SharesBegin, SameInit DEF BackupInit
<1>2. cur = ROOT /\ phase = "enter"
  BY DEF BackupInit, Init
<1>3. InheritInv
  <2>1. \A g \in Index : ~(g <= ROOT)
    BY RoomAssumption DEF Index, ROOT
  <2> QED BY <1>2, <2>1 DEF InheritInv
<1>4. RP!IInv
  BY <1>1, PrintableLines, RoomAssumption, NoLineAssumption, RP!InitInvariant
<1>5. KeptInv /\ r_phase = "mnemonics"
  BY <1>1, EmptyKept DEF RP!Init
<1> QED BY <1>1, <1>2, <1>3, <1>4, <1>5
        DEF BackupInv, PrintedInv, Recovering, RefusedForCause, RecoversTheSecret

LEMMA RecoverSteps ==
  ASSUME RP!IInv, RP!Next \/ UNCHANGED RP!vars
  PROVE  RP!IInv'
BY PrintableLines, RoomAssumption, NoLineAssumption, RP!StepInvariant

LEMMA RecoverVars == UNCHANGED r_vars => UNCHANGED RP!vars
BY DEF r_vars, RP!vars, RP!header, RP!store, RP!loop

(* While the backup is made nothing is recovered. *)
LEMMA SplitRunKeeps ==
  ASSUME BackupInv, SplitRun
  PROVE  BackupInv'
<1>1. Next /\ UNCHANGED r_vars /\ SplitInv /\ SharesInv /\ InheritInv
  BY DEF SplitRun, BackupInv
<1>2. SplitInv' /\ SharesInv'
  BY <1>1, EnterSetGoesOn, DrawShareGoesOn, ComputeSharesGoesOn, PrintKeeps,
     EnterSetWhole, DrawShareWhole, ComputeSharesWhole, SharesStay DEF Next
<1>3. InheritInv' /\ PrintedInv'
  BY <1>1, SplitInherits, PrintsAll
<1>4. RP!Init
  BY <1>1, PrintedIsOver DEF BackupInv
<1>5. RP!IInv'
  BY <1>1, RecoverVars, RecoverSteps DEF BackupInv
<1>6. RP!Init'
  BY <1>1, <1>4 DEF r_vars, RP!Init
<1>7. RP!Init' => KeptInv'
  BY EmptyKept, PTL
<1>8. r_phase' = "mnemonics"
  BY <1>6 DEF RP!Init
<1> QED BY <1>2, <1>3, <1>5, <1>6, <1>7, <1>8
        DEF BackupInv, Recovering, RefusedForCause, RecoversTheSecret

(* The backup stays as it is when it is read. *)
LEMMA BackupStays ==
  ASSUME BackupInv, UNCHANGED vars, phase = "printed", RP!IInv', Recovering'
  PROVE  BackupInv'
<1>1. UNCHANGED <<n, e, threshold, count, shares, cur, i, phase, printed>>
  BY DEF vars, options
<1>2. SplitInv'
  BY <1>1 DEF BackupInv, SplitInv, OptionsInv, ProgressInv, Done
<1>3. SharesInv'
  BY <1>1 DEF BackupInv, SharesInv
<1>4. InheritInv'
  BY <1>1 DEF BackupInv, InheritInv, Inherits
<1>5. PrintedInv'
  BY <1>1 DEF BackupInv, PrintedInv, Mnemonic
<1> QED BY <1>1, <1>2, <1>3, <1>4, <1>5 DEF BackupInv

LEMMA TypeKeeps ==
  ASSUME BackupInv, Type
  PROVE  BackupInv'
<1>1. PICK m \in printed : R!AddMnemonic(Line(m))
  BY DEF Type
<1>2. phase = "printed" /\ UNCHANGED vars
  BY DEF Type
<1>3. /\ SplitInv /\ SharesInv /\ PrintedInv /\ KeptInv /\ RP!IInv
      /\ RP!AddMnemonic(Line(m))
  BY <1>1, SameAdd DEF BackupInv, Recovering
<1>4. Recovering'
  BY <1>2, <1>3, TypedKept DEF Recovering
<1>5. Line(m) \in Printable
  BY <1>2, <1>3, PrintedLines DEF IsLine
<1>6. RP!Next
  BY <1>3, <1>5 DEF RP!Next
<1>7. RP!IInv'
  BY <1>3, <1>6, RecoverSteps
<1> QED BY <1>2, <1>4, <1>7, BackupStays

LEMMA RecoverRunKeeps ==
  ASSUME BackupInv, UNCHANGED vars, (phase = "printed" /\ RP!EndOfInput) \/ RP!Compute
  PROVE  BackupInv'
<1>1. /\ SplitInv /\ SharesInv /\ InheritInv /\ KeptInv /\ RP!IInv
      /\ phase # "printed" => RP!Init
  BY DEF BackupInv, Recovering
<1>2. phase = "printed"
  <2>1. CASE RP!Compute
    <3>1. r_phase # "mnemonics"
      BY <2>1 DEF RP!Compute, RP!CheckQuorum, RP!SkipGroup, RP!EnterGroup, RP!TakeShare,
                  RP!RecoverGroup, RP!RecoverRoot, RP!DecryptSecret
    <3> QED BY <1>1, <3>1 DEF RP!Init
  <2> QED BY <2>1
<1>3. Recovering'
  BY <1>1, <1>2, ReadingOn, QuorumTested, GroupRecovered, RootRecovered, SecretDecrypted
     DEF RP!Compute
<1>4. RP!IInv'
  BY <1>1, RecoverSteps DEF RP!Next
<1> QED BY <1>2, <1>3, <1>4, BackupStays

LEMMA BackupRests ==
  ASSUME BackupInv, UNCHANGED vars, UNCHANGED r_vars
  PROVE  BackupInv'
<1>1. UNCHANGED <<n, e, threshold, count, shares, cur, i, phase, printed>>
  BY DEF vars, options
<1>2. UNCHANGED <<r_n, r_id, r_e, r_count, r_threshold, r_available, r_shares, r_plaintext,
                  r_phase, r_i, r_j, r_idx, r_refused>>
  BY DEF r_vars
<1>3. SplitInv' /\ SharesInv'
  BY <1>1 DEF BackupInv, SplitInv, OptionsInv, ProgressInv, Done, SharesInv
<1>4. InheritInv' /\ PrintedInv'
  BY <1>1 DEF BackupInv, InheritInv, Inherits, PrintedInv, Mnemonic
<1>5. RP!IInv'
  BY RecoverVars, RecoverSteps DEF BackupInv
<1>6. phase' # "printed" => RP!Init'
  BY <1>1, <1>2 DEF BackupInv, RP!Init
<1>7. KeptInv'
  BY <1>1, <1>2 DEF BackupInv, Recovering, KeptInv, HeaderKept, GroupsKept, SharesKept, RootKept,
                    RP!Loaded
<1>8. RefusedForCause' /\ RecoversTheSecret'
  BY <1>1, <1>2 DEF BackupInv, Recovering, RefusedForCause, RecoversTheSecret, Sufficient, R!Loaded
<1> QED BY <1>3, <1>4, <1>5, <1>6, <1>7, <1>8 DEF BackupInv, Recovering

LEMMA BackupGoesOn == BackupInv /\ [BackupNext]_allvars => BackupInv'
<1> SUFFICES ASSUME BackupInv, [BackupNext]_allvars PROVE BackupInv'
  OBVIOUS
<1>1. CASE SplitRun
  BY <1>1, SplitRunKeeps
<1>2. CASE Type
  BY <1>2, TypeKeeps
<1>3. CASE StopTyping
  BY <1>3, SameEnd, RecoverRunKeeps DEF StopTyping
<1>4. CASE RecoverRun
  BY <1>4, SameCompute, RecoverRunKeeps DEF RecoverRun
<1>5. CASE Finished
  <2>1. UNCHANGED vars /\ UNCHANGED r_vars
    BY <1>5 DEF Finished, R!Exited, R!vars, R!header, R!store, R!loop, r_vars
  <2> QED BY <2>1, BackupRests
<1>6. CASE UNCHANGED allvars
  BY <1>6, BackupRests DEF allvars
<1> QED BY <1>1, <1>2, <1>3, <1>4, <1>5, <1>6 DEF BackupNext

THEOREM BackupInvariant == ASSUME InRange PROVE BackupSpec => []BackupInv
<1>1. BackupInit => BackupInv
  BY BackupBegins
<1>2. BackupInv /\ [BackupNext]_allvars => BackupInv'
  BY BackupGoesOn
<1> QED BY <1>1, <1>2, PTL DEF BackupSpec

(* What the recover mode prints is the master secret that was split, with  *)
(* its length, whichever of the mnemonics were kept and in whatever order  *)
(* they were typed: split, print, read and recover, from end to end.       *)
THEOREM TheSecretIsRecovered == ASSUME InRange PROVE BackupSpec => []RecoversTheSecret
<1>1. BackupInv => RecoversTheSecret
  BY DEF BackupInv, Recovering
<1> QED BY <1>1, BackupInvariant, PTL

(* Mnemonics of one backup are refused only when one was typed twice or    *)
(* when there are too few of them.                                         *)
THEOREM OnlyRefusedForCause == ASSUME InRange PROVE BackupSpec => []RefusedForCause
<1>1. BackupInv => RefusedForCause
  BY DEF BackupInv, Recovering
<1> QED BY <1>1, BackupInvariant, PTL

(* The run that splits is one of Split: what is proved of Split holds in a *)
(* backup too.                                                             *)
THEOREM BackupSplits == BackupSpec => Spec
<1>1. BackupInit => Init
  BY DEF BackupInit
<1>2. [BackupNext]_allvars => [Next]_vars
  BY DEF BackupNext, SplitRun, Type, StopTyping, RecoverRun, Finished, allvars
<1> QED BY <1>1, <1>2, PTL DEF BackupSpec, Spec
==============================================================================
