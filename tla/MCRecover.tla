----------------------------- MODULE MCRecover -----------------------------
(***************************************************************************)
(* Recover on small sets of lines.  Interpolation is a free constructor:   *)
(* a value remembers the points it was computed from, so two recoveries    *)
(* agree only when they used the same shares.  A digest fails when one of  *)
(* the points is the corrupt value.                                        *)
(***************************************************************************)
EXTENDS Recover, TLC

CONSTANTS nl, ns, good, bad

MCInterpolate(pts, x) == <<{<<k, pts[k]>> : k \in DOMAIN pts}, x>>

Corrupt(v) == \E p \in v[1] : p[2] = bad
MCDigestOK(d, s) == ~Corrupt(s)
MCDecrypt(i1, e1, s) == <<i1, e1, s>>

(* A well-formed line of 20 words. *)
Line(GT, G, T, GI, I, d) ==
  [readable |-> TRUE, words |-> 20, sound |-> TRUE, pad |-> TRUE, id |-> 7, e |-> 0,
   GI |-> GI, GT |-> GT, G |-> G, I |-> I, T |-> T, data |-> d]

(* Two groups, thresholds 1 and 2, three members, member 0 may be corrupt; *)
(* and a line for a group that is not there.                               *)
TwoGroups ==
  {Line(GT, 2, T, GI, I, IF c /\ I = 0 THEN bad ELSE good) :
     GT \in 1 .. 3, T \in 1 .. 2, GI \in 0 .. 1, I \in 0 .. 2, c \in BOOLEAN}
  \cup {Line(3, 2, 1, 2, 0, good)}

(* One group whose lines are broken in every way a line can be.            *)
Broken ==
  LET l == Line(1, 1, 2, 0, 0, good) IN
    {l, [l EXCEPT !.I = 1], [l EXCEPT !.I = 2], [l EXCEPT !.readable = FALSE],
     [l EXCEPT !.sound = FALSE], [l EXCEPT !.pad = FALSE],
     [l EXCEPT !.I = 1, !.pad = FALSE], [l EXCEPT !.I = 1, !.words = 33],
     [l EXCEPT !.words = 19], [l EXCEPT !.words = 21], [l EXCEPT !.words = 60],
     [l EXCEPT !.I = 1, !.id = 8], [l EXCEPT !.I = 1, !.e = 1], [l EXCEPT !.I = 1, !.GT = 2],
     [l EXCEPT !.I = 1, !.G = 2], [l EXCEPT !.GI = 1], [l EXCEPT !.I = 1, !.T = 3]}

MCLines == TwoGroups \cup Broken
============================================================================
