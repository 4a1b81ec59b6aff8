------------------------------- MODULE Combine -------------------------------
(***************************************************************************)
(* What combining mnemonics promises, without counters, loops, early exits *)
(* or an order: a set of shares that agree with each other is collected;   *)
(* when the input is closed the lowest groups and the lowest shares of     *)
(* each decide the secret, or the run is refused.                          *)
(***************************************************************************)
EXTENDS Mnemonic, FiniteSets

CONSTANTS
  NoLine,              \* no line: not an element of Lines
  NoSecret,            \* nothing recovered yet
  Interpolate(_, _),   \* points (a function from index to value), x |-> value at x
  DigestOK(_, _),      \* digest share, secret |-> the digest matches
  Decrypt(_, _, _)     \* id, e, encrypted secret |-> master secret

DigestX == 254         \* x-coordinate of the digest share
SecretX == 255         \* x-coordinate of the secret

VARIABLES
  accepted,            \* the shares collected so far
  verdict,             \* "open", "closed", "recovered" or "refused"
  culprit,             \* the line that was refused, if a line was
  secret               \* the recovered master secret

vars == <<accepted, verdict, culprit, secret>>

Consistent(S) ==
  /\ \A a \in S : a.GI < a.header.G
  /\ \A a, b \in S :
       /\ a.header = b.header
       /\ a.GI = b.GI => a.T = b.T
       /\ a.GI = b.GI /\ a.I = b.I => a = b

Acceptable(l) ==
  /\ WellFormed(l) /\ l.pad
  /\ Share(l) \notin accepted
  /\ Consistent(accepted \cup {Share(l)})

------------------------------------------------------------------------------
(* The set of the k least elements of S: fewer than k are below each.      *)
Least(S, k) == {x \in S : Cardinality({y \in S : y < x}) < k}

(* The value at x = 255 and the digest check of a set with this threshold. *)
SecretOf(pts, t) ==
  IF t = 1 THEN pts[CHOOSE k \in DOMAIN pts : TRUE] ELSE Interpolate(pts, SecretX)

DigestFits(pts, t) ==
  t = 1 \/ DigestOK(Interpolate(pts, DigestX), Interpolate(pts, SecretX))

Of(g)        == {a \in accepted : a.GI = g}
ThresholdOf(g) == (CHOOSE a \in Of(g) : TRUE).T
HeaderOf     == (CHOOSE a \in accepted : TRUE).header
Members(g)   == {a.I : a \in Of(g)}
Full         == {g \in Index : Of(g) # {} /\ Cardinality(Members(g)) >= ThresholdOf(g)}
Enough       == accepted # {} /\ Cardinality(Full) >= HeaderOf.GT

UsedGroups   == Least(Full, HeaderOf.GT)
GroupPoints(g) ==
  [k \in Least(Members(g), ThresholdOf(g)) |->
     (CHOOSE a \in Of(g) : a.I = k).data]
RootPoints   == [g \in UsedGroups |-> SecretOf(GroupPoints(g), ThresholdOf(g))]

Genuine ==
  /\ \A g \in UsedGroups : DigestFits(GroupPoints(g), ThresholdOf(g))
  /\ DigestFits(RootPoints, HeaderOf.GT)

MasterSecret == Decrypt(HeaderOf.id, HeaderOf.e, SecretOf(RootPoints, HeaderOf.GT))
------------------------------------------------------------------------------
Init == accepted = {} /\ verdict = "open" /\ culprit = NoLine /\ secret = NoSecret

Accept(l) ==
  /\ verdict = "open" /\ Acceptable(l)
  /\ accepted' = accepted \cup {Share(l)}
  /\ UNCHANGED <<verdict, culprit, secret>>

Refuse(l) ==
  /\ verdict = "open" /\ ~Acceptable(l)
  /\ verdict' = "refused" /\ culprit' = l /\ accepted' = {}
  /\ UNCHANGED secret

Close ==
  /\ verdict = "open" /\ verdict' = "closed"
  /\ UNCHANGED <<accepted, culprit, secret>>

Conclude ==
  /\ verdict = "closed"
  /\ \/ /\ Enough /\ Genuine
        /\ verdict' = "recovered" /\ secret' = MasterSecret
        /\ UNCHANGED accepted
     \/ /\ ~(Enough /\ Genuine)
        /\ verdict' = "refused" /\ accepted' = {}
        /\ UNCHANGED secret
  /\ UNCHANGED culprit

Next == (\E l \in Lines : Accept(l) \/ Refuse(l)) \/ Close \/ Conclude

(* Once the input is closed the run must come to a conclusion. *)
Spec == Init /\ [][Next]_vars /\ WF_vars(Conclude)
==============================================================================
