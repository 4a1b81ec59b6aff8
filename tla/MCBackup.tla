------------------------------- MODULE MCBackup -------------------------------
(***************************************************************************)
(* Backups over GF(8), where digest and secret are at the low three bits   *)
(* of 254 and 255: single groups of every threshold, several groups with   *)
(* groups and members to spare, and one small backup of every length.      *)
(***************************************************************************)
EXTENDS Backup

CONSTANTS jobs, nl, ns

MCPol == {0, 1}

MCMac(key, data) == gf256_add(gf256_mul(key, data[1]), data[2])

V(a, b) == [o \in Offsets |-> IF o = 1 THEN ToByte(a) ELSE ToByte(b)]

MCDraws == {V(1, 6), V(7, 2)}

S(x, GT, groups) == [e |-> x, GT |-> GT, groups |-> groups]
G(T, N)          == [T |-> T, N |-> N]

Specs ==
  {S(0, 1, <<G(T, 4)>>) : T \in 1 .. 4} \cup
  {S(31, 2, <<G(1, 1), G(2, 3), G(2, 2)>>), S(1, 1, <<G(2, 3), G(3, 3)>>)}

Job(spec, size) == [spec |-> spec, n |-> size, secret |-> V(3, 5)]

MCJobs ==
  CASE jobs = "usual" ->
         {Job(spec, 16) : spec \in Specs} \cup
         {Job(S(0, 1, <<G(1, 1), G(2, 2)>>), 2 * k) : k \in 8 .. 32}
    [] jobs = "no threshold" ->
         {Job(S(0, 0, <<G(T, 2)>>), 16) : T \in 1 .. 2}
==============================================================================
