------------------------------ MODULE SplitSpec ------------------------------
(***************************************************************************)
(* What a command line may ask of the split mode.  A specification is a    *)
(* record of the iteration exponent e, the group threshold GT and the      *)
(* sequence of the groups, a group being [T, N] for "TofN".                *)
(***************************************************************************)
EXTENDS Integers, Sequences

CONSTANT MaxShares   \* MAX_SHARES

ASSUME SharesAssumption == MaxShares \in Nat

MaxExp == 32

(* What parse_options_split and the end of parse_options let through. *)
Accepted(spec) ==
  /\ spec.e \in 0 .. MaxExp
  /\ spec.GT \in 0 .. MaxShares
  /\ Len(spec.groups) \in 1 .. MaxShares
  /\ spec.GT <= Len(spec.groups)
  /\ \A g \in 1 .. Len(spec.groups) :
       spec.groups[g].T \in 1 .. MaxShares /\ spec.groups[g].N \in spec.groups[g].T .. MaxShares
==============================================================================
