---------------------------- MODULE RecoverProofs ----------------------------
(***************************************************************************)
(* Proofs about Recover for every MaxShares, every set of lines and every  *)
(* interpolation, digest and cipher.                                       *)
(***************************************************************************)
EXTENDS Recover, FiniteSetTheorems, TLAPS

USE DEF ROOT, DigestX, SecretX

LEMMA SetsFacts ==
  /\ MaxShares \in Nat \ {0} /\ MaxShares < 255
  /\ Index \subseteq Nat /\ Index \subseteq Sets /\ ROOT \in Sets /\ ROOT \notin Index
  /\ 0 \in Index
  /\ \A k \in Index : k + 1 # MaxShares => k + 1 \in Index
  /\ DigestX \notin Index /\ SecretX \notin Index
  /\ MaxId \in Nat /\ MaxE \in Nat
BY MaxSharesAssumption DEF Sets, Index, MaxId, MaxE

LEMMA IndexFacts == \A k \in Index : k \in Sets /\ k # ROOT /\ k \in Nat
BY DEF Sets, Index, ROOT

LEMMA IndexNonNegative == \A k \in Index : ~(k < 0)
BY DEF Index

(* The indices of a set of shares can be counted. *)
LEMMA IndexSets ==
  ASSUME NEW S \in SUBSET Index
  PROVE  /\ IsFiniteSet(S)
         /\ Cardinality(S) \in 0 .. MaxShares
<1>1. IsFiniteSet(Index) /\ Cardinality(Index) = MaxShares
  BY FS_Interval, MaxSharesAssumption DEF Index
<1>2. IsFiniteSet(S) /\ Cardinality(S) <= MaxShares
  BY <1>1, FS_Subset
<1>3. Cardinality(S) \in Nat
  BY <1>2, FS_CardinalityType
<1> QED BY <1>2, <1>3, MaxSharesAssumption

(* A smaller set of indices has fewer elements, or is the same set. *)
LEMMA IndexSubset ==
  ASSUME NEW S \in SUBSET Index, NEW T \in SUBSET S
  PROVE  Cardinality(T) <= Cardinality(S)
BY IndexSets, FS_Subset

LEMMA IndexAdd ==
  ASSUME NEW S \in SUBSET Index, NEW k
  PROVE  Cardinality(S \cup {k}) =
           IF k \in S THEN Cardinality(S) ELSE Cardinality(S) + 1
BY IndexSets, FS_AddElement

(* One more iteration of a loop over the indices. *)
LEMMA Prefix ==
  ASSUME NEW S \in SUBSET Index, NEW k \in Index
  PROVE  /\ {x \in S : x < k + 1} = {x \in S : x < k} \cup (IF k \in S THEN {k} ELSE {})
         /\ k + 1 = MaxShares => {x \in S : x < k + 1} = S
         /\ {x \in S : x < 0} = {}
<1>1. \A x \in S : x \in Nat /\ x < MaxShares /\ (x < k + 1 <=> x < k \/ x = k)
  BY MaxSharesAssumption DEF Index
<1>2. {x \in S : x < k + 1} = {x \in S : x < k} \cup (IF k \in S THEN {k} ELSE {})
  <2>1. CASE k \in S
    BY <1>1, <2>1
  <2>2. CASE k \notin S
    BY <1>1, <2>2
  <2> QED BY <2>1, <2>2
<1>3. k + 1 = MaxShares => {x \in S : x < k + 1} = S
  BY <1>1
<1>4. {x \in S : x < 0} = {}
  BY <1>1
<1> QED BY <1>2, <1>3, <1>4

LEMMA BytesPositive ==
  ASSUME NEW l, LineType(l), WellFormed(l)
  PROVE  Bytes(l) \in Nat /\ Bytes(l) # 0
BY DEF LineType, WellFormed, Bytes, MinWords

------------------------------------------------------------------------------
(* The program starts in the inductive invariant. *)
THEOREM InitInvariant == Init => IInv
<1> SUFFICES ASSUME Init PROVE IInv
  OBVIOUS
<1> USE SetsFacts DEF Init
<1>1. TypeOK
  BY NoLineAssumption DEF TypeOK, Phases
<1>2. \A s \in Sets : Loaded(s) = {}
  BY DEF Loaded
<1>3. \A g \in Index : ~Quorum(g)
  BY DEF Quorum
<1>4. CountersExact
  <2>1. {g \in Index : Quorum(g)} = {}
    BY <1>3
  <2> QED BY <2>1, <1>2, FS_EmptySet DEF CountersExact
<1>5. ReadingInv
  BY <1>2 DEF ReadingInv
<1>6. LoopInv
  BY <1>2 DEF LoopInv, Untouched
<1>7. NoAssertFails
  BY DEF NoAssertFails
<1> QED BY <1>1, <1>4, <1>5, <1>6, <1>7 DEF IInv

------------------------------------------------------------------------------
(* The refusals end the program: only the types matter afterwards. *)
LEMMA AdoptedTypes ==
  ASSUME TypeOK, NEW l \in Lines, WellFormed(l), AdoptHeader(l)
  PROVE  /\ n' \in Nat /\ n' # 0 /\ id' \in -1 .. MaxId /\ e' \in -1 .. MaxE
         /\ count' = l.G /\ l.G \in 1 .. MaxShares
         /\ RootThreshold(l) \in [Sets -> 0 .. MaxShares]
         /\ GroupThreshold(l) \in [Sets -> 0 .. MaxShares]
<1>1. LineType(l)
  BY LinesAssumption
<1>2. Bytes(l) \in Nat /\ Bytes(l) # 0
  BY <1>1, BytesPositive
<1>3. l.id \in 0 .. MaxId /\ l.e \in 0 .. MaxE /\ l.G \in 1 .. MaxShares
      /\ l.GT \in 1 .. MaxShares /\ l.T \in 1 .. MaxShares /\ l.GI \in Index
  BY <1>1 DEF LineType
<1>4. 0 .. MaxId \subseteq -1 .. MaxId /\ 0 .. MaxE \subseteq -1 .. MaxE
  BY SetsFacts
<1>5. n' \in Nat /\ n' # 0 /\ id' \in -1 .. MaxId /\ e' \in -1 .. MaxE /\ count' = l.G
  BY <1>2, <1>3, <1>4 DEF AdoptHeader
<1>6. RootThreshold(l) \in [Sets -> 0 .. MaxShares]
  BY <1>3, SetsFacts DEF TypeOK, RootThreshold
<1>7. GroupThreshold(l) \in [Sets -> 0 .. MaxShares]
  <2>1. l.T \in 0 .. MaxShares
    BY <1>3
  <2>2. l.GI \in Sets
    BY <1>3, SetsFacts
  <2> QED BY <1>6, <2>1, <2>2 DEF GroupThreshold
<1> QED BY <1>3, <1>5, <1>6, <1>7

LEMMA FatalInvariant ==
  ASSUME TypeOK', phase' = "fatal", plaintext' = NoSecret
  PROVE  IInv'
BY DEF IInv, CountersExact, ReadingInv, LoopInv, NoAssertFails

LEMMA RefusalInvariant ==
  ASSUME IInv, NEW l \in Lines, AddMnemonic(l), ~LoadShare(l)
  PROVE  IInv'
<1>1. TypeOK /\ phase = "mnemonics" /\ plaintext' = NoSecret
  BY DEF IInv, AddMnemonic, LoopInv
<1>2. phase' = "fatal" /\ refused' = l /\ UNCHANGED <<available, loop>>
  BY DEF AddMnemonic, RejectMalformed, RejectMismatch, RejectGroupIndex,
         RejectMemberThreshold, RejectDuplicate, RejectPadding, Fatal, store
<1>3. \/ UNCHANGED <<header, store>>
      \/ /\ WellFormed(l) /\ AdoptHeader(l)
         /\ threshold' \in {RootThreshold(l), GroupThreshold(l)}
         /\ shares' \in {shares, LoadedShares(l)}
  BY DEF AddMnemonic, RejectMalformed, RejectMismatch, RejectGroupIndex,
         RejectMemberThreshold, RejectDuplicate, RejectPadding, Placed
<1>4. LineType(l)
  BY LinesAssumption
<1>5. /\ DOMAIN LoadedShares(l) = Sets
      /\ \A s \in Sets : DOMAIN (LoadedShares(l)[s]) \subseteq Index \cup {DigestX, SecretX}
  BY <1>1, <1>4, SetsFacts DEF TypeOK, LineType, LoadedShares, Put
<1>6. TypeOK'
  <2>1. CASE UNCHANGED <<header, store>>
    BY <1>1, <1>2, <2>1 DEF TypeOK, header, store, loop, Phases
  <2>2. CASE /\ WellFormed(l) /\ AdoptHeader(l)
             /\ threshold' \in {RootThreshold(l), GroupThreshold(l)}
             /\ shares' \in {shares, LoadedShares(l)}
    <3>1. /\ n' \in Nat /\ id' \in -1 .. MaxId /\ e' \in -1 .. MaxE
          /\ count' \in 0 .. MaxShares /\ threshold' \in [Sets -> 0 .. MaxShares]
      BY <1>1, <2>2, AdoptedTypes
    <3> QED BY <1>1, <1>2, <1>5, <2>2, <3>1 DEF TypeOK, loop, Phases
  <2> QED BY <1>3, <2>1, <2>2
<1> QED BY <1>1, <1>2, <1>6, FatalInvariant

------------------------------------------------------------------------------
(* An accepted share: the group's counter moves with its shares, and the   *)
(* root's exactly when the group reaches its threshold.                    *)
LEMMA LoadShareInvariant ==
  ASSUME IInv, NEW l \in Lines, AddMnemonic(l), LoadShare(l)
  PROVE  IInv'
<1> DEFINE g == l.GI
           k == l.I
<1>1. /\ phase = "mnemonics" /\ phase' = "mnemonics" /\ UNCHANGED <<refused, plaintext, i, j, idx>>
      /\ Placed(l) /\ threshold[g] \in {0, l.T} /\ k \notin Loaded(g) /\ AdoptHeader(l)
      /\ threshold' = GroupThreshold(l) /\ shares' = LoadedShares(l)
      /\ available' = IncrementAvailable(g, l.T)
  BY DEF AddMnemonic, LoadShare, loop
<1>2. /\ g \in Index /\ k \in Index /\ g \in Sets /\ g # ROOT /\ g \in Nat
      /\ l.T \in 1 .. MaxShares /\ l.GT \in 1 .. MaxShares /\ l.G \in 1 .. MaxShares /\ g < l.G
  <2>1. /\ g \in Index /\ k \in Index /\ l.T \in 1 .. MaxShares
        /\ l.GT \in 1 .. MaxShares /\ l.G \in 1 .. MaxShares
    <3>1. LineType(l)
      BY LinesAssumption
    <3> QED BY ONLY <3>1 DEF LineType
  <2>2. g < l.G
    BY <1>1 DEF Placed
  <2>3. g \in Sets /\ g # ROOT /\ g \in Nat
    BY ONLY <2>1, IndexFacts
  <2> QED BY <2>1, <2>2, <2>3
<1>3. TypeOK /\ CountersExact /\ ReadingInv /\ LoopInv
  BY DEF IInv
<1>4. n # 0 => threshold[ROOT] = l.GT /\ count = l.G
  BY <1>1 DEF Placed, Matches, Header
<1>5. /\ n' \in Nat /\ n' # 0 /\ id' \in -1 .. MaxId /\ e' \in -1 .. MaxE
      /\ count' = l.G /\ threshold' \in [Sets -> 0 .. MaxShares]
  BY <1>1, <1>3, AdoptedTypes DEF Placed
<1>6. /\ threshold'[ROOT] = l.GT /\ threshold'[g] = l.T
      /\ \A h \in Index : h # g => threshold'[h] = threshold[h]
  BY <1>1, <1>2, <1>3, SetsFacts DEF GroupThreshold, RootThreshold, TypeOK
<1>7. /\ DOMAIN shares' = Sets
      /\ DOMAIN shares'[g] = DOMAIN shares[g] \cup {k}
      /\ \A s \in Sets : s # g => shares'[s] = shares[s]
  BY <1>1, <1>2, <1>3 DEF LoadedShares, Put, TypeOK
<1>8. Loaded(g)' = Loaded(g) \cup {k} /\ \A s \in Sets : s # g => Loaded(s)' = Loaded(s)
  BY <1>2, <1>7 DEF Loaded
<1>9. /\ available'[g] = available[g] + 1
      /\ available'[ROOT] = IF available[g] + 1 = l.T THEN available[ROOT] + 1 ELSE available[ROOT]
      /\ \A h \in Index : h # g => available'[h] = available[h]
      /\ DOMAIN available' = Sets
  BY <1>1, <1>2, <1>3, SetsFacts DEF IncrementAvailable, TypeOK
<1>10. /\ available[g] = Cardinality(Loaded(g))
       /\ available[ROOT] = Cardinality({h \in Index : Quorum(h)})
       /\ \A h \in Index : available[h] = Cardinality(Loaded(h)) /\ available[h] \in Nat
       /\ available[ROOT] \in Nat
  BY <1>1, <1>2, <1>3, SetsFacts DEF CountersExact, TypeOK
<1>11. \A h \in Index : available'[h] = Cardinality(Loaded(h)')
  <2>1. Loaded(g) \in SUBSET Index
    BY DEF Loaded
  <2>2. Cardinality(Loaded(g) \cup {k}) = Cardinality(Loaded(g)) + 1
    BY <1>1, <2>1, IndexAdd
  <2> QED BY <1>8, <1>9, <1>10, <2>2, SetsFacts
<1>12. Quorum(g) <=> available[g] >= l.T
  <2>1. CASE threshold[g] = 0
    <3>1. Loaded(g) = {}
      BY <1>1, <1>2, <1>3, <2>1 DEF ReadingInv
    <3>2. available[g] = 0
      BY <1>10, <3>1, FS_EmptySet
    <3> QED BY <1>2, <2>1, <3>2 DEF Quorum
  <2>2. CASE threshold[g] = l.T
    BY <1>2, <2>2 DEF Quorum
  <2> QED BY <1>1, <2>1, <2>2
<1>13. Quorum(g)' <=> available[g] + 1 >= l.T
  BY <1>2, <1>6, <1>9 DEF Quorum
<1>14. \A h \in Index : h # g => (Quorum(h)' <=> Quorum(h))
  BY <1>6, <1>9 DEF Quorum
<1>15. available'[ROOT] = Cardinality({h \in Index : Quorum(h)'})
  <2> DEFINE Q == {h \in Index : Quorum(h)}
  <2>1. Q \in SUBSET Index
    OBVIOUS
  <2>2. CASE available[g] + 1 = l.T
    <3>1. ~Quorum(g) /\ Quorum(g)'
      BY <1>2, <1>10, <1>12, <1>13, <2>2
    <3>2. {h \in Index : Quorum(h)'} = Q \cup {g} /\ g \notin Q
      BY <1>2, <1>14, <3>1
    <3>3. Cardinality(Q \cup {g}) = Cardinality(Q) + 1
      BY <2>1, <3>2, IndexAdd
    <3> QED BY <1>9, <1>10, <2>2, <3>2, <3>3
  <2>3. CASE available[g] + 1 # l.T
    <3>1. Quorum(g)' <=> Quorum(g)
      BY <1>2, <1>10, <1>12, <1>13, <2>3
    <3>2. {h \in Index : Quorum(h)'} = Q
      BY <1>14, <3>1
    <3> QED BY <1>9, <1>10, <2>3, <3>2
  <2> QED BY <2>2, <2>3
<1>16. available' \in [Sets -> 0 .. MaxShares]
  <2>1. \A h \in Index : available'[h] \in 0 .. MaxShares
    <3> TAKE h \in Index
    <3>1. Loaded(h)' \in SUBSET Index
      BY DEF Loaded
    <3> QED BY <3>1, <1>11, IndexSets
  <2>2. available'[ROOT] \in 0 .. MaxShares
    <3>1. {h \in Index : Quorum(h)'} \in SUBSET Index
      OBVIOUS
    <3> QED BY <3>1, <1>15, IndexSets
  <2>3. available' \in [Sets -> Int]
    <3>1. available \in [Sets -> Int] /\ available[g] + 1 \in Int
          /\ available[ROOT] + 1 \in Int
      BY <1>2, <1>3, <1>10, SetsFacts DEF TypeOK
    <3> QED BY <1>1, <3>1 DEF IncrementAvailable
  <2> QED BY <2>1, <2>2, <2>3 DEF Sets
<1>17. TypeOK'
  <2>1. \A s \in Sets : DOMAIN shares'[s] \subseteq Index \cup {DigestX, SecretX}
    BY <1>2, <1>3, <1>7 DEF TypeOK
  <2>2. count' \in 0 .. MaxShares
    BY <1>2, <1>5
  <2> QED BY <1>1, <1>3, <1>5, <1>7, <1>16, <2>1, <2>2 DEF TypeOK, Phases
<1>18. CountersExact'
  BY <1>11, <1>15 DEF CountersExact
<1>19. ReadingInv'
  <2>1. \A h \in Index : threshold[h] # 0 => h < l.G
    <3>1. CASE n = 0
      BY <1>1, <1>3, <3>1, SetsFacts DEF ReadingInv
    <3>2. CASE n # 0
      <4>1. \A h \in Index : threshold[h] # 0 => h < count
        BY <1>1, <1>3 DEF ReadingInv
      <4> QED BY <1>4, <3>2, <4>1
    <3> QED BY <3>1, <3>2
  <2>2. \A h \in Index : /\ threshold'[h] = 0 => Loaded(h)' = {}
                         /\ threshold'[h] # 0 => h < count'
    <3> TAKE h \in Index
    <3>1. CASE h = g
      BY <1>2, <1>5, <1>6, <3>1
    <3>2. CASE h # g
      BY <1>1, <1>3, <1>5, <1>6, <1>8, <2>1, <3>2, SetsFacts DEF ReadingInv
    <3> QED BY <3>1, <3>2
  <2> QED BY <1>2, <1>5, <2>2 DEF ReadingInv
<1>20. LoopInv'
  <2>1. Loaded(ROOT)' = {}
    BY <1>1, <1>2, <1>3, <1>8, SetsFacts DEF LoopInv
  <2>2. \A s \in Sets : Untouched(s)'
    BY <1>1, <1>2, <1>3, <1>7, SetsFacts DEF LoopInv, Untouched
  <2> QED BY <1>1, <1>3, <2>1, <2>2 DEF LoopInv
<1>21. NoAssertFails'
  BY <1>1 DEF NoAssertFails
<1> QED BY <1>17, <1>18, <1>19, <1>20, <1>21 DEF IInv

------------------------------------------------------------------------------
(* A step that leaves thresholds, counters and the groups' shares alone.   *)
LEMMA StoreKept ==
  ASSUME IInv, phase # "fatal", UNCHANGED <<header, threshold, available>>,
         \A g \in Index : Loaded(g)' = Loaded(g)
  PROVE  /\ CountersExact' /\ ReadingInv'
         /\ \A s : Quorum(s)' <=> Quorum(s)
         /\ {g \in Index : Quorum(g)'} = {g \in Index : Quorum(g)}
<1>1. \A s : Quorum(s)' <=> Quorum(s)
  BY DEF Quorum
<1>2. {g \in Index : Quorum(g)'} = {g \in Index : Quorum(g)}
  BY <1>1
<1>3. CountersExact'
  BY <1>2 DEF IInv, CountersExact
<1>4. ReadingInv'
  BY DEF IInv, ReadingInv, header
<1> QED BY <1>1, <1>2, <1>3, <1>4

(* The end of an iteration of the root's loop. *)
LEMMA NextGroupInvariant ==
  ASSUME IInv, phase \in {"groups", "group"},
         UNCHANGED <<header, threshold, available, j, idx, plaintext, refused>>,
         DOMAIN shares' = Sets,
         \A s \in Sets : DOMAIN shares'[s] \subseteq Index \cup {DigestX, SecretX},
         \A g \in Index : Loaded(g)' = Loaded(g),
         \A g \in Index : g > i => shares'[g] = shares[g],
         Loaded(ROOT)' = {g \in Index : g < i + 1 /\ Quorum(g)},
         Cardinality(Loaded(ROOT)') <= threshold[ROOT],
         Untouched(ROOT)',
         NextGroup(Cardinality(Loaded(ROOT)'))
  PROVE  IInv'
<1> DEFINE Q == {g \in Index : Quorum(g)}
<1>1. TypeOK /\ CountersExact /\ LoopInv
  BY DEF IInv
<1>2. i \in Index /\ i \in Nat /\ phase # "fatal"
  BY <1>1, SetsFacts DEF TypeOK
<1>3. /\ CountersExact' /\ ReadingInv'
      /\ \A s : Quorum(s)' <=> Quorum(s)
  BY <1>2, StoreKept
<1>4. Quorum(ROOT) /\ plaintext = NoSecret
      /\ \A g \in Index : g >= i => Untouched(g)
  BY <1>1 DEF LoopInv
<1>5. Loaded(ROOT)' = {g \in Q : g < i + 1} /\ Q \in SUBSET Index
  OBVIOUS
<1>6. i + 1 = MaxShares => Cardinality(Loaded(ROOT)') = threshold[ROOT]
  <2> SUFFICES ASSUME i + 1 = MaxShares
               PROVE  Cardinality(Loaded(ROOT)') = threshold[ROOT]
    OBVIOUS
  <2>1. Loaded(ROOT)' = Q
    BY <1>2, <1>5, Prefix
  <2>2. Cardinality(Q) = available[ROOT]
    BY <1>1, <1>2 DEF CountersExact
  <2>3. available[ROOT] >= threshold[ROOT] /\ available[ROOT] \in Nat /\ threshold[ROOT] \in Nat
    BY <1>1, <1>4, SetsFacts DEF Quorum, TypeOK
  <2>4. Cardinality(Loaded(ROOT)') = available[ROOT]
    BY <2>1, <2>2
  <2>5. available[ROOT] <= threshold[ROOT]
    BY <2>4
  <2> HIDE DEF Q
  <2> QED BY <2>3, <2>4, <2>5
<1>7. CASE phase' = "root" /\ i' = i
  <2>1. Cardinality(Loaded(ROOT)') = threshold'[ROOT]
    BY <1>2, <1>6, <1>7 DEF NextGroup
  <2>2. LoopInv'
    BY <1>3, <1>4, <1>7, <2>1 DEF LoopInv
  <2>3. TypeOK'
    BY <1>1, <1>7 DEF TypeOK, Phases, header
  <2> QED BY <1>3, <1>7, <2>2, <2>3 DEF IInv, NoAssertFails
<1>8. CASE phase' = "groups" /\ i' = i + 1
  <2>1. Cardinality(Loaded(ROOT)') # threshold[ROOT] /\ i + 1 # MaxShares
    BY <1>8 DEF NextGroup
  <2>2. Cardinality(Loaded(ROOT)') < threshold'[ROOT]
    <3>1. Loaded(ROOT)' \in SUBSET Index
      BY DEF Loaded
    <3>2. Cardinality(Loaded(ROOT)') \in Int /\ threshold[ROOT] \in Int
      BY <1>1, <3>1, IndexSets, SetsFacts DEF TypeOK
    <3> QED BY <2>1, <3>2
  <2>3. i' \in Index
    BY <1>2, <1>8, <2>1, SetsFacts
  <2>4. \A g \in Index : g >= i' => Untouched(g)'
    <3> TAKE g \in Index
    <3>1. g >= i' => g > i /\ g >= i
      BY <1>2, <1>8, SetsFacts
    <3> QED BY <1>4, <3>1 DEF Untouched
  <2>5. Loaded(ROOT)' = {g \in Index : g < i' /\ Quorum(g)'}
    BY <1>3, <1>8
  <2>6. LoopInv'
    BY <1>3, <1>4, <1>8, <2>2, <2>4, <2>5 DEF LoopInv
  <2>7. TypeOK'
    BY <1>1, <1>8, <2>3 DEF TypeOK, Phases, header
  <2> QED BY <1>3, <1>8, <2>6, <2>7 DEF IInv, NoAssertFails
<1> QED BY <1>7, <1>8 DEF NextGroup

------------------------------------------------------------------------------
(* Steps of the loops that leave the sets alone. *)
LEMMA EndOfInputInvariant ==
  ASSUME IInv, EndOfInput
  PROVE  IInv'
<1>1. /\ phase = "mnemonics" /\ phase' = "quorum"
      /\ UNCHANGED <<header, store, loop, plaintext, refused>>
  BY DEF EndOfInput
<1>2. CountersExact' /\ ReadingInv'
  BY <1>1, StoreKept DEF store, Loaded
<1>3. TypeOK'
  BY <1>1 DEF IInv, TypeOK, header, store, loop, Phases
<1>4. LoopInv'
  BY <1>1 DEF IInv, LoopInv, store, Loaded, Untouched
<1> QED BY <1>1, <1>2, <1>3, <1>4 DEF IInv, NoAssertFails

LEMMA CheckQuorumInvariant ==
  ASSUME IInv, CheckQuorum
  PROVE  IInv'
<1>1. /\ phase = "quorum" /\ i' = 0
      /\ UNCHANGED <<header, store, j, idx, plaintext, refused>>
      /\ TypeOK /\ LoopInv
  BY DEF CheckQuorum, IInv
<1>2. phase' \in Phases => TypeOK'
  <2>1. 0 \in Index
    BY SetsFacts
  <2> QED BY <1>1, <2>1 DEF TypeOK, header, store
<1>3. CASE ~Quorum(ROOT)
  <2>1. phase' = "fatal" /\ plaintext' = NoSecret
    <3>1. plaintext = NoSecret
      BY <1>1 DEF LoopInv
    <3>2. phase' = "fatal"
      BY <1>3 DEF CheckQuorum
    <3> QED BY <1>1, <3>1, <3>2
  <2>2. TypeOK'
    BY <1>2, <2>1 DEF Phases
  <2> QED BY <2>1, <2>2, FatalInvariant
<1>4. CASE Quorum(ROOT)
  <2>1. phase' = "groups"
    BY <1>4 DEF CheckQuorum
  <2>2. CountersExact' /\ ReadingInv' /\ \A s : Quorum(s)' <=> Quorum(s)
    BY <1>1, StoreKept DEF store, Loaded
  <2>3. TypeOK'
    BY <1>2, <2>1 DEF Phases
  <2>4. Loaded(ROOT) = {} /\ Loaded(ROOT)' = {} /\ \A s \in Sets : Untouched(s)'
    BY <1>1 DEF LoopInv, store, Loaded, Untouched
  <2>5. Loaded(ROOT)' = {g \in Index : g < i' /\ Quorum(g)'}
    <3>1. \A g \in Index : ~(g < i')
      BY <1>1, SetsFacts
    <3> QED BY <2>4, <3>1
  <2>6. Cardinality(Loaded(ROOT)') < threshold'[ROOT]
    <3>1. threshold[ROOT] \in Nat /\ threshold[ROOT] # 0
      BY <1>1, <1>4, SetsFacts DEF TypeOK, Quorum
    <3>2. Cardinality(Loaded(ROOT)') = 0
      BY <2>4, FS_EmptySet
    <3> QED BY <1>1, <3>1, <3>2 DEF store
  <2>7. LoopInv'
    BY <1>1, <1>4, <2>1, <2>2, <2>4, <2>5, <2>6, SetsFacts DEF LoopInv
  <2> QED BY <2>1, <2>2, <2>3, <2>7 DEF IInv, NoAssertFails
<1> QED BY <1>3, <1>4

LEMMA SkipGroupInvariant ==
  ASSUME IInv, SkipGroup
  PROVE  IInv'
<1>1. /\ phase = "groups" /\ ~Quorum(i) /\ NextGroup(Cardinality(Loaded(ROOT)))
      /\ UNCHANGED <<header, store, j, idx, plaintext, refused>>
      /\ TypeOK /\ LoopInv
  BY DEF SkipGroup, IInv
<1>2. \A s : Loaded(s)' = Loaded(s)
  BY <1>1 DEF store, Loaded
<1>3. i \in Index
  BY <1>1 DEF TypeOK
<1>4. Loaded(ROOT) = {g \in Index : g < i + 1 /\ Quorum(g)}
  <2>1. Loaded(ROOT) = {g \in Index : g < i /\ Quorum(g)}
    BY <1>1 DEF LoopInv
  <2>2. \A g \in Index : g < i + 1 <=> g < i \/ g = i
    BY <1>3, SetsFacts
  <2> QED BY <1>1, <2>1, <2>2
<1>5. Cardinality(Loaded(ROOT)) <= threshold[ROOT]
  <2>1. Loaded(ROOT) \in SUBSET Index
    BY DEF Loaded
  <2>2. Cardinality(Loaded(ROOT)) \in Int /\ threshold[ROOT] \in Int
    BY <1>1, <2>1, IndexSets, SetsFacts DEF TypeOK
  <2>3. Cardinality(Loaded(ROOT)) < threshold[ROOT]
    BY <1>1 DEF LoopInv
  <2> QED BY <2>2, <2>3
<1>6. Untouched(ROOT)'
  BY <1>1 DEF LoopInv, store, Untouched
<1>7. DOMAIN shares' = Sets /\ UNCHANGED <<threshold, available, shares>>
      /\ \A s \in Sets : DOMAIN shares'[s] \subseteq Index \cup {DigestX, SecretX}
  BY <1>1 DEF TypeOK, store
<1> QED BY <1>1, <1>2, <1>4, <1>5, <1>6, <1>7, NextGroupInvariant

LEMMA EnterGroupInvariant ==
  ASSUME IInv, EnterGroup
  PROVE  IInv'
<1>1. /\ phase = "groups" /\ Quorum(i) /\ phase' = "shares" /\ j' = 0 /\ idx' = {}
      /\ UNCHANGED <<header, store, i, plaintext, refused>>
      /\ TypeOK /\ LoopInv
  BY DEF EnterGroup, IInv
<1>2. CountersExact' /\ ReadingInv' /\ \A s : Quorum(s)' <=> Quorum(s)
  BY <1>1, StoreKept DEF store, Loaded
<1>3. TypeOK'
  BY <1>1, SetsFacts DEF TypeOK, header, store, Phases
<1>4. idx' = {k \in Loaded(i)' : k < j'}
  <2>1. \A k \in Loaded(i)' : ~(k < j')
    BY <1>1, IndexNonNegative DEF Loaded
  <2> QED BY <1>1, <2>1
<1>5. Cardinality(idx') < threshold'[i]
  <2>1. i \in Sets /\ threshold \in [Sets -> 0 .. MaxShares]
    BY <1>1, SetsFacts DEF TypeOK
  <2>2. threshold[i] \in Nat /\ threshold[i] # 0
    BY <1>1, <2>1, SetsFacts DEF Quorum
  <2>3. threshold'[i] = threshold[i]
    BY <1>1 DEF store
  <2> QED BY <1>1, <2>2, <2>3, FS_EmptySet
<1>6. LoopInv'
  BY <1>1, <1>2, <1>4, <1>5 DEF LoopInv, store, Loaded, Untouched
<1> QED BY <1>1, <1>2, <1>3, <1>6 DEF IInv, NoAssertFails

(* The loop over a group's shares ends with exactly the threshold. *)
LEMMA TakeShareInvariant ==
  ASSUME IInv, TakeShare
  PROVE  IInv'
<1> DEFINE S == Loaded(i)
<1>1. /\ phase = "shares" /\ UNCHANGED <<header, store, i, plaintext, refused>>
      /\ idx' = idx \cup (IF j \in S THEN {j} ELSE {})
      /\ TypeOK /\ LoopInv /\ CountersExact
  BY DEF TakeShare, IInv
<1>2. CountersExact' /\ ReadingInv' /\ \A s : Quorum(s)' <=> Quorum(s)
  BY <1>1, StoreKept DEF store, Loaded
<1>3. i \in Index /\ j \in Index /\ S \in SUBSET Index /\ Quorum(i)
  BY <1>1 DEF TypeOK, Loaded, LoopInv
<1>4. idx = {k \in S : k < j} /\ Cardinality(idx) < threshold[i] /\ idx \in SUBSET Index
  BY <1>1 DEF LoopInv, TypeOK
<1>5. idx' = {k \in S : k < j + 1} /\ idx' \in SUBSET Index
  BY <1>1, <1>3, <1>4, Prefix
<1>6. /\ Cardinality(idx) \in Nat /\ Cardinality(idx') \in Nat /\ threshold[i] \in Nat
      /\ available[i] \in Nat /\ available[i] >= threshold[i]
      /\ available[i] = Cardinality(S)
  BY <1>1, <1>3, <1>4, <1>5, IndexSets, SetsFacts DEF TypeOK, Quorum, CountersExact
<1>7. Cardinality(idx') <= threshold[i]
  <2>1. Cardinality(idx') \in {Cardinality(idx), Cardinality(idx) + 1}
    <3>1. CASE j \in S
      BY <1>1, <1>4, <3>1, IndexAdd
    <3>2. CASE j \notin S
      BY <1>1, <3>2
    <3> QED BY <3>1, <3>2
  <2> QED BY <2>1, <1>4, <1>6
<1>8. j + 1 = MaxShares => Cardinality(idx') = threshold[i]
  <2> SUFFICES ASSUME j + 1 = MaxShares
               PROVE  Cardinality(idx') = threshold[i]
    OBVIOUS
  <2>1. idx' = S
    BY <1>3, <1>5, Prefix
  <2>2. Cardinality(idx') = available[i]
    BY <1>6, <2>1
  <2> QED BY <1>6, <1>7, <2>2
<1>9. Loaded(i)' = S /\ threshold' = threshold /\ UNCHANGED <<shares, i>>
  BY <1>1 DEF store, Loaded
<1>10. CASE phase' = "group" /\ j' = j
  <2>1. Cardinality(idx') = threshold[i]
    BY <1>1, <1>8, <1>10 DEF TakeShare
  <2>2. idx' \subseteq Loaded(i)'
    BY <1>5, <1>9
  <2>3. LoopInv'
    BY <1>1, <1>2, <1>9, <1>10, <2>1, <2>2 DEF LoopInv, Loaded, Untouched
  <2>4. TypeOK'
    BY <1>1, <1>5, <1>10 DEF TypeOK, header, store, Phases
  <2> QED BY <1>2, <1>10, <2>3, <2>4 DEF IInv, NoAssertFails
<1>11. CASE phase' = phase /\ j' = j + 1
  <2>1. Cardinality(idx') # threshold[i] /\ j + 1 # MaxShares
    BY <1>1, <1>11 DEF TakeShare
  <2>2. Cardinality(idx') < threshold'[i']
    BY <1>6, <1>7, <1>9, <2>1
  <2>3. idx' = {k \in Loaded(i)' : k < j'}
    BY <1>5, <1>9, <1>11
  <2>4. LoopInv'
    BY <1>1, <1>2, <1>9, <1>11, <2>2, <2>3 DEF LoopInv, Loaded, Untouched
  <2>5. TypeOK'
    BY <1>1, <1>3, <1>5, <1>11, <2>1, SetsFacts DEF TypeOK, header, store, Phases
  <2> QED BY <1>1, <1>2, <1>11, <2>4, <2>5 DEF IInv, NoAssertFails
<1> QED BY <1>10, <1>11 DEF TakeShare

------------------------------------------------------------------------------
(* The ends of slip0039_recover. *)
LEMMA PutDomain ==
  ASSUME NEW f, NEW k, NEW v
  PROVE  DOMAIN Put(f, k, v) = DOMAIN f \cup {k}
BY DEF Put

LEMMA CompletedDomain ==
  ASSUME NEW s, NEW used
  PROVE  /\ DOMAIN Completed(s, used) \subseteq DOMAIN shares[s] \cup {DigestX, SecretX}
         /\ SecretX \in DOMAIN Completed(s, used)
         /\ DOMAIN Completed(s, used) \cap Index = DOMAIN shares[s] \cap Index
<1> DEFINE D == DOMAIN Completed(s, used)
<1>1. D \in {DOMAIN shares[s] \cup {SecretX}, (DOMAIN shares[s] \cup {DigestX}) \cup {SecretX}}
  <2>1. \A v : DOMAIN Put(shares[s], SecretX, v) = DOMAIN shares[s] \cup {SecretX}
    BY DEF Put
  <2>2. \A v, w : DOMAIN Put(Put(shares[s], DigestX, v), SecretX, w)
                   = (DOMAIN shares[s] \cup {DigestX}) \cup {SecretX}
    <3> TAKE v, w
    <3>1. PICK f : f = Put(shares[s], DigestX, v)
      OBVIOUS
    <3>2. DOMAIN f = DOMAIN shares[s] \cup {DigestX}
      BY <3>1 DEF Put
    <3>3. DOMAIN Put(f, SecretX, w) = DOMAIN f \cup {SecretX}
      BY DEF Put
    <3> QED BY <3>1, <3>2, <3>3
  <2> QED BY <2>1, <2>2 DEF Completed
<1> HIDE DEF D
<1>2. /\ D \subseteq DOMAIN shares[s] \cup {DigestX, SecretX}
      /\ SecretX \in D
      /\ D \cap Index = DOMAIN shares[s] \cap Index
  BY <1>1, SetsFacts
<1> QED BY <1>2 DEF D

(* The asserts behind the loop over the shares of a group hold. *)
LEMMA GroupAsserts ==
  ASSUME IInv, phase = "group"
  PROVE  AssertsHold(i, idx)
<1>1. i \in Index /\ i >= i
  BY SetsFacts DEF IInv, TypeOK
<1> QED BY <1>1 DEF IInv, LoopInv, AssertsHold, Untouched

LEMMA RecoverGroupInvariant ==
  ASSUME IInv, RecoverGroup
  PROVE  IInv'
<1>1. /\ phase = "group" /\ AssertsHold(i, idx) /\ TypeOK /\ LoopInv
      /\ UNCHANGED <<header, threshold, available, j, idx, plaintext, refused>>
  BY GroupAsserts DEF RecoverGroup, IInv
<1>2. i \in Index /\ i \in Sets /\ i # ROOT /\ ROOT \in Sets
  <2>1. i \in Index
    BY <1>1 DEF TypeOK
  <2> QED BY <2>1, SetsFacts
<1>3. CASE ~DigestFits(i, idx)
  <2>1. phase' = "fatal" /\ i' = i /\ shares' = [shares EXCEPT ![i] = Completed(i, idx)]
    BY <1>1, <1>3 DEF RecoverGroup
  <2>2. /\ DOMAIN shares' = Sets
        /\ \A s \in Sets : DOMAIN shares'[s] \subseteq Index \cup {DigestX, SecretX}
    BY <1>1, <1>2, <2>1, CompletedDomain DEF TypeOK
  <2>3. TypeOK'
    BY <1>1, <2>1, <2>2 DEF TypeOK, header, Phases
  <2>4. plaintext' = NoSecret
    BY <1>1 DEF LoopInv
  <2> QED BY <2>1, <2>3, <2>4, FatalInvariant
<1>4. CASE DigestFits(i, idx)
  <2>1. /\ shares' = [shares EXCEPT ![i]    = Completed(i, idx),
                                    ![ROOT] = Put(@, i, SecretOf(i, idx))]
        /\ NextGroup(Cardinality(Loaded(ROOT) \cup {i}))
    BY <1>1, <1>4 DEF RecoverGroup
  <2>2. /\ DOMAIN shares' = Sets
        /\ shares'[i] = Completed(i, idx)
        /\ DOMAIN shares'[ROOT] = DOMAIN shares[ROOT] \cup {i}
        /\ \A s \in Sets : s # i /\ s # ROOT => shares'[s] = shares[s]
    <3>1. DOMAIN shares = Sets
      BY <1>1 DEF TypeOK
    <3>2. /\ shares'[ROOT] = Put(shares[ROOT], i, SecretOf(i, idx))
          /\ DOMAIN shares' = Sets /\ shares'[i] = Completed(i, idx)
          /\ \A s \in Sets : s # i /\ s # ROOT => shares'[s] = shares[s]
      BY <1>2, <2>1, <3>1
    <3>3. DOMAIN Put(shares[ROOT], i, SecretOf(i, idx)) = DOMAIN shares[ROOT] \cup {i}
      BY PutDomain
    <3> QED BY <3>2, <3>3
  <2>3. \A s \in Sets : DOMAIN shares'[s] \subseteq Index \cup {DigestX, SecretX}
    BY <1>1, <1>2, <2>2, CompletedDomain DEF TypeOK
  <2>4. Loaded(ROOT)' = Loaded(ROOT) \cup {i} /\ Untouched(ROOT)'
    <3>1. Untouched(ROOT)
      BY <1>1 DEF LoopInv
    <3> QED BY <1>2, <2>2, <3>1, SetsFacts DEF Loaded, Untouched
  <2>5. \A g \in Index : Loaded(g)' = Loaded(g)
    <3> TAKE g \in Index
    <3>1. CASE g = i
      BY <2>2, <3>1, CompletedDomain DEF Loaded
    <3>2. CASE g # i
      BY <2>2, <3>2, SetsFacts DEF Loaded
    <3> QED BY <3>1, <3>2
  <2>6. Loaded(ROOT)' = {g \in Index : g < i + 1 /\ Quorum(g)} /\ i \notin Loaded(ROOT)
    <3>1. Loaded(ROOT) = {g \in Index : g < i /\ Quorum(g)} /\ Quorum(i)
      BY <1>1 DEF LoopInv
    <3>2. \A g \in Index : g < i + 1 <=> g < i \/ g = i
      BY <1>2, SetsFacts
    <3>3. ~(i < i)
      BY <1>2, SetsFacts
    <3> QED BY <1>2, <2>4, <3>1, <3>2, <3>3
  <2>7. Cardinality(Loaded(ROOT)') <= threshold[ROOT]
    <3>1. Loaded(ROOT) \in SUBSET Index
      BY DEF Loaded
    <3>2. Cardinality(Loaded(ROOT)') = Cardinality(Loaded(ROOT)) + 1
      BY <2>4, <2>6, <3>1, IndexAdd
    <3>3. Cardinality(Loaded(ROOT)) \in Nat /\ threshold[ROOT] \in Nat
      BY <1>1, <3>1, IndexSets, SetsFacts DEF TypeOK
    <3>4. Cardinality(Loaded(ROOT)) < threshold[ROOT]
      BY <1>1 DEF LoopInv
    <3> QED BY <3>2, <3>3, <3>4
  <2>8. NextGroup(Cardinality(Loaded(ROOT)'))
    BY <2>1, <2>4
  <2>9. \A g \in Index : g > i => shares'[g] = shares[g]
    BY <1>2, <2>2, SetsFacts
  <2> QED BY <1>1, <2>2, <2>3, <2>4, <2>5, <2>6, <2>7, <2>8, <2>9, NextGroupInvariant
<1> QED BY <1>3, <1>4

LEMMA RecoverRootInvariant ==
  ASSUME IInv, RecoverRoot
  PROVE  IInv'
<1>1. /\ phase = "root" /\ TypeOK /\ LoopInv /\ AssertsHold(ROOT, Loaded(ROOT))
  BY DEF RecoverRoot, IInv, LoopInv, AssertsHold, Untouched
<1>2. /\ shares' = [shares EXCEPT ![ROOT] = Completed(ROOT, Loaded(ROOT))]
      /\ phase' \in {"decrypt", "fatal"}
      /\ UNCHANGED <<header, loop, threshold, available, plaintext, refused>>
  BY <1>1 DEF RecoverRoot
<1>3. /\ DOMAIN shares' = Sets
      /\ shares'[ROOT] = Completed(ROOT, Loaded(ROOT))
      /\ \A g \in Index : shares'[g] = shares[g]
      /\ \A s \in Sets : DOMAIN shares'[s] \subseteq Index \cup {DigestX, SecretX}
  BY <1>1, <1>2, SetsFacts, CompletedDomain DEF TypeOK
<1>4. TypeOK'
  BY <1>1, <1>2, <1>3 DEF TypeOK, header, loop, Phases
<1>5. plaintext' = NoSecret
  BY <1>1, <1>2 DEF LoopInv
<1>6. CASE phase' = "fatal"
  BY <1>4, <1>5, <1>6, FatalInvariant
<1>7. CASE phase' = "decrypt"
  <2>1. /\ CountersExact' /\ ReadingInv'
        /\ \A s : Quorum(s)' <=> Quorum(s)
    BY <1>1, <1>2, <1>3, StoreKept DEF Loaded
  <2>2. SecretX \in DOMAIN shares'[ROOT]
    BY <1>3, CompletedDomain
  <2>3. LoopInv'
    BY <1>1, <1>5, <1>7, <2>1, <2>2 DEF LoopInv
  <2> QED BY <1>4, <1>7, <2>1, <2>3 DEF IInv, NoAssertFails
<1> QED BY <1>2, <1>6, <1>7

LEMMA DecryptSecretInvariant ==
  ASSUME IInv, DecryptSecret
  PROVE  IInv'
<1>1. /\ phase = "decrypt" /\ phase' = "done" /\ TypeOK /\ LoopInv
      /\ UNCHANGED <<header, store, i, j, idx, refused>>
  BY DEF DecryptSecret, IInv, LoopInv
<1>2. /\ CountersExact' /\ ReadingInv'
      /\ \A s : Quorum(s)' <=> Quorum(s)
  BY <1>1, StoreKept DEF store, Loaded
<1>3. TypeOK'
  BY <1>1 DEF TypeOK, header, store, Phases
<1>4. LoopInv'
  BY <1>1, <1>2 DEF LoopInv
<1> QED BY <1>1, <1>2, <1>3, <1>4 DEF IInv, NoAssertFails

------------------------------------------------------------------------------
LEMMA StutterInvariant ==
  ASSUME IInv, UNCHANGED vars
  PROVE  IInv'
<1>1. UNCHANGED <<n, id, e, count, threshold, available, shares, i, j, idx,
                  plaintext, phase, refused>>
  BY DEF vars, header, store, loop
<1>2. \A s : (Quorum(s)' <=> Quorum(s)) /\ Loaded(s)' = Loaded(s)
            /\ (Untouched(s)' <=> Untouched(s))
  BY <1>1 DEF Quorum, Loaded, Untouched
<1>3. TypeOK' /\ NoAssertFails'
  BY <1>1 DEF IInv, TypeOK, NoAssertFails
<1>4. CountersExact' /\ ReadingInv'
  BY <1>1, <1>2 DEF IInv, CountersExact, ReadingInv
<1>5. LoopInv'
  BY <1>1, <1>2 DEF IInv, LoopInv
<1> QED BY <1>3, <1>4, <1>5 DEF IInv

(* Every step of the program keeps the inductive invariant. *)
THEOREM StepInvariant == IInv /\ [Next]_vars => IInv'
<1> SUFFICES ASSUME IInv, [Next]_vars PROVE IInv'
  OBVIOUS
<1>1. ASSUME NEW l \in Lines, AddMnemonic(l) PROVE IInv'
  BY <1>1, RefusalInvariant, LoadShareInvariant
<1>2. CASE EndOfInput
  BY <1>2, EndOfInputInvariant
<1>3. CASE Compute
  BY <1>3, CheckQuorumInvariant, SkipGroupInvariant, EnterGroupInvariant,
     TakeShareInvariant, RecoverGroupInvariant, RecoverRootInvariant,
     DecryptSecretInvariant DEF Compute
<1>4. CASE Exited
  BY <1>4, StutterInvariant DEF Exited
<1>5. CASE UNCHANGED vars
  BY <1>5, StutterInvariant
<1> QED BY <1>1, <1>2, <1>3, <1>4, <1>5 DEF Next

(* The inductive invariant holds throughout: see IInv in Recover. *)
THEOREM Invariant == Spec => []IInv
BY InitInvariant, StepInvariant, PTL DEF Spec

(* The variables keep their types: no counter, threshold or index leaves   *)
(* its range, for any number of lines.                                     *)
THEOREM TypeCorrect == Spec => []TypeOK
<1>1. IInv => TypeOK
  BY DEF IInv
<1> QED BY <1>1, Invariant, PTL

(* The available counters (slip0039.c:224-232) are exact whenever they are *)
(* read, whatever lines were typed in whatever order.                      *)
THEOREM CountersAreExact == Spec => []CountersExact
<1>1. IInv => CountersExact
  BY DEF IInv
<1> QED BY <1>1, Invariant, PTL

(* No assert of slip0039_recover and slip0039_decrypt can fail.            *)
THEOREM NoAssertEverFails == Spec => []NoAssertFails
<1>1. IInv => NoAssertFails
  BY DEF IInv
<1> QED BY <1>1, Invariant, PTL

(* A secret is printed only under a header with GT <= G: groups beyond the *)
(* count are refused, so that many groups could not have their quorum.     *)
THEOREM GroupThresholdIsMet == Spec => []GroupThresholdMet
<1>1. IInv => GroupThresholdMet
  <2> SUFFICES ASSUME IInv, phase = "done" PROVE threshold[ROOT] <= count
    BY DEF GroupThresholdMet
  <2> DEFINE Q == {g \in Index : Quorum(g)}
  <2>1. TypeOK /\ CountersExact /\ ReadingInv /\ LoopInv
    BY DEF IInv
  <2>2. /\ threshold[ROOT] \in Nat /\ threshold[ROOT] # 0 /\ available[ROOT] \in Nat
        /\ available[ROOT] >= threshold[ROOT] /\ available[ROOT] = Cardinality(Q)
    BY <2>1, SetsFacts DEF TypeOK, CountersExact, LoopInv, Quorum
  <2>3. count \in Nat
    BY <2>1, MaxSharesAssumption DEF TypeOK
  <2>4. Q \in SUBSET (0 .. count - 1)
    <3>1. \A g \in Index : Quorum(g) => g < count
      BY <2>1 DEF ReadingInv, Quorum
    <3>2. \A g \in Q : g \in Nat /\ g < count
      BY <3>1, SetsFacts
    <3> HIDE DEF Q
    <3> QED BY <2>3, <3>2
  <2>5. Cardinality(Q) <= count
    <3>1. IsFiniteSet(0 .. count - 1) /\ Cardinality(0 .. count - 1) = count
      BY <2>3, FS_Interval
    <3> QED BY <2>4, <3>1, FS_Subset
  <2> QED BY <2>2, <2>3, <2>5
<1> QED BY <1>1, Invariant, PTL

------------------------------------------------------------------------------
(* What has been accepted stays as it is. *)

(* An index that is not in use takes nothing away. *)
LEMMA PutKeeps ==
  ASSUME NEW f, NEW k, NEW v, k \notin DOMAIN f
  PROVE  \A x \in DOMAIN f : x \in DOMAIN Put(f, k, v) /\ Put(f, k, v)[x] = f[x]
BY DEF Put

(* Later mnemonics have to match the header, a threshold is written once,  *)
(* and a share goes where there was none.                                  *)
LEMMA AddMnemonicKeeps ==
  ASSUME IInv, NEW l \in Lines, AddMnemonic(l)
  PROVE  KeepsAccepted
<1>1. CASE UNCHANGED <<header, store>>
  BY <1>1 DEF KeepsAccepted, header, store
<1>2. CASE /\ WellFormed(l) /\ Matches(l) /\ AdoptHeader(l)
           /\ threshold' \in {RootThreshold(l), GroupThreshold(l)}
           /\ shares' = shares \/ (shares' = LoadedShares(l) /\ l.I \notin Loaded(l.GI))
  <2>1. TypeOK /\ l.GI \in Index /\ l.I \in Index
    BY LinesAssumption DEF IInv, LineType
  <2>2. n # 0 => UNCHANGED <<n, id, e, count, threshold[ROOT]>>
    <3> SUFFICES ASSUME n # 0 PROVE UNCHANGED <<n, id, e, count, threshold[ROOT]>>
      OBVIOUS
    <3>1. UNCHANGED <<n, id, e, count>> /\ threshold[ROOT] = l.GT
      BY <1>2 DEF Matches, Header, AdoptHeader
    <3>2. threshold'[ROOT] = l.GT
      BY <1>2, <2>1, SetsFacts DEF TypeOK, RootThreshold, GroupThreshold
    <3> QED BY <3>1, <3>2
  <2>3. \A g \in Index : threshold[g] # 0 => threshold'[g] = threshold[g]
    BY <1>2, <2>1, SetsFacts DEF TypeOK, RootThreshold, GroupThreshold
  <2>4. \A s \in Sets : \A k \in DOMAIN shares[s] :
          k \in DOMAIN shares'[s] /\ shares'[s][k] = shares[s][k]
    <3>1. CASE shares' = LoadedShares(l) /\ l.I \notin Loaded(l.GI)
      <4>1. l.I \notin DOMAIN shares[l.GI]
        BY <2>1, <3>1 DEF Loaded
      <4>2. DOMAIN shares = Sets
        BY <2>1 DEF TypeOK
      <4>3. /\ shares'[l.GI] = Put(shares[l.GI], l.I, l.data)
            /\ \A s \in Sets : s # l.GI => shares'[s] = shares[s]
        BY <2>1, <3>1, <4>2, SetsFacts DEF LoadedShares
      <4> QED BY <4>1, <4>3, PutKeeps
    <3> QED BY <1>2, <3>1
  <2> QED BY <2>2, <2>3, <2>4 DEF KeepsAccepted
<1>3. \/ UNCHANGED <<header, store>>
      \/ /\ WellFormed(l) /\ Matches(l) /\ AdoptHeader(l)
         /\ threshold' \in {RootThreshold(l), GroupThreshold(l)}
         /\ shares' = shares \/ (shares' = LoadedShares(l) /\ l.I \notin Loaded(l.GI))
  BY DEF AddMnemonic, RejectMalformed, RejectMismatch, RejectGroupIndex,
         RejectMemberThreshold, RejectDuplicate, RejectPadding, LoadShare, Placed
<1> QED BY <1>1, <1>2, <1>3

LEMMA CompletedKeeps ==
  ASSUME NEW s, NEW used, Untouched(s)
  PROVE  \A k \in DOMAIN shares[s] :
           k \in DOMAIN Completed(s, used) /\ Completed(s, used)[k] = shares[s][k]
<1> DEFINE f == shares[s]
<1>1. DigestX \notin DOMAIN f /\ SecretX \notin DOMAIN f
  BY DEF Untouched
<1>2. \A v : \A k \in DOMAIN f : k \in DOMAIN Put(f, SecretX, v) /\ Put(f, SecretX, v)[k] = f[k]
  BY <1>1, PutKeeps
<1>3. \A v, w : \A k \in DOMAIN f :
        /\ k \in DOMAIN Put(Put(f, DigestX, v), SecretX, w)
        /\ Put(Put(f, DigestX, v), SecretX, w)[k] = f[k]
  <2> TAKE v, w
  <2> DEFINE h == Put(f, DigestX, v)
  <2>1. DOMAIN h = DOMAIN f \cup {DigestX}
    BY DEF Put
  <2>2. DOMAIN h = DOMAIN f \cup {DigestX} /\ \A k \in DOMAIN f : h[k] = f[k]
    BY <1>1, <2>1, PutKeeps
  <2>3. SecretX \notin DOMAIN h
    BY <1>1, <2>2
  <2> HIDE DEF h, f
  <2>4. \A k \in DOMAIN h : k \in DOMAIN Put(h, SecretX, w) /\ Put(h, SecretX, w)[k] = h[k]
    BY <2>3, PutKeeps
  <2> QED BY <2>2, <2>4 DEF h
<1> HIDE DEF f
<1>4. Completed(s, used) = Put(f, SecretX, SecretOf(s, used)) \/
      \E v : Completed(s, used) = Put(Put(f, DigestX, v), SecretX, SecretOf(s, used))
  BY DEF Completed, f
<1>5. \A k \in DOMAIN f : k \in DOMAIN Completed(s, used) /\ Completed(s, used)[k] = f[k]
  BY <1>2, <1>3, <1>4
<1> QED BY <1>5 DEF f

(* slip0039_recover adds a group's digest and secret, and the root's share *)
(* for the group, at places that were empty.                               *)
LEMMA RecoverKeeps ==
  ASSUME IInv, RecoverGroup \/ RecoverRoot
  PROVE  KeepsAccepted
<1>1. TypeOK /\ LoopInv
  BY DEF IInv
<1>2. UNCHANGED <<n, id, e, count, threshold>>
  BY DEF RecoverGroup, RecoverRoot, header, store, Abort
<1>3. \A s \in Sets : \A k \in DOMAIN shares[s] :
        k \in DOMAIN shares'[s] /\ shares'[s][k] = shares[s][k]
  <2>1. CASE shares' = shares
    BY <2>1
  <2>2. CASE phase = "root" /\ shares' = [shares EXCEPT ![ROOT] = Completed(ROOT, Loaded(ROOT))]
    <3>1. Untouched(ROOT)
      BY <1>1, <2>2 DEF LoopInv
    <3>2. /\ shares'[ROOT] = Completed(ROOT, Loaded(ROOT))
          /\ \A s \in Sets : s # ROOT => shares'[s] = shares[s]
      BY <1>1, <2>2, SetsFacts DEF TypeOK
    <3> QED BY <3>1, <3>2, CompletedKeeps
  <2>3. ASSUME phase = "group",
               \/ shares' = [shares EXCEPT ![i] = Completed(i, idx)]
               \/ shares' = [shares EXCEPT ![i]    = Completed(i, idx),
                                           ![ROOT] = Put(@, i, SecretOf(i, idx))]
        PROVE  \A s \in Sets : \A k \in DOMAIN shares[s] :
                 k \in DOMAIN shares'[s] /\ shares'[s][k] = shares[s][k]
    <3>1. i \in Index /\ i \in Sets /\ i # ROOT /\ i \in Nat
      BY <1>1, SetsFacts DEF TypeOK
    <3>2. Untouched(i) /\ i \notin DOMAIN shares[ROOT]
      <4>1. Loaded(ROOT) = {g \in Index : g < i /\ Quorum(g)}
        BY <1>1, <2>3 DEF LoopInv
      <4>2. i \notin Loaded(ROOT)
        BY <3>1, <4>1
      <4>3. Untouched(i)
        BY <1>1, <2>3, <3>1 DEF LoopInv
      <4> QED BY <3>1, <4>2, <4>3 DEF Loaded
    <3>3. /\ shares'[i] = Completed(i, idx)
          /\ shares'[ROOT] \in {shares[ROOT], Put(shares[ROOT], i, SecretOf(i, idx))}
          /\ \A s \in Sets : s # i /\ s # ROOT => shares'[s] = shares[s]
      BY <1>1, <2>3, <3>1, SetsFacts DEF TypeOK
    <3>4. \A k \in DOMAIN shares[ROOT] :
            k \in DOMAIN shares'[ROOT] /\ shares'[ROOT][k] = shares[ROOT][k]
      <4> DEFINE f == shares[ROOT]
                 v == SecretOf(i, idx)
      <4>1. \A k \in DOMAIN f : k \in DOMAIN Put(f, i, v) /\ Put(f, i, v)[k] = f[k]
        BY <3>2, PutKeeps
      <4>2. shares'[ROOT] = f \/ shares'[ROOT] = Put(f, i, v)
        BY <3>3
      <4> HIDE DEF f, v
      <4>3. \A k \in DOMAIN f : k \in DOMAIN shares'[ROOT] /\ shares'[ROOT][k] = f[k]
        BY <4>1, <4>2
      <4> QED BY <4>3 DEF f
    <3>5. \A k \in DOMAIN shares[i] : k \in DOMAIN shares'[i] /\ shares'[i][k] = shares[i][k]
      BY <3>2, <3>3, CompletedKeeps
    <3> QED BY <3>3, <3>4, <3>5
  <2> QED BY <2>1, <2>2, <2>3 DEF RecoverGroup, RecoverRoot, Abort, store
<1> QED BY <1>2, <1>3 DEF KeepsAccepted

LEMMA UntouchedKeeps ==
  ASSUME UNCHANGED <<header, store>>
  PROVE  KeepsAccepted
BY DEF KeepsAccepted, header, store

(* The header, the thresholds and the shares that have been accepted are   *)
(* never overwritten, by reading more lines or by recovering.              *)
THEOREM AcceptedIsKept == Spec => NeverOverwritten
<1>1. IInv /\ [Next]_vars => [KeepsAccepted]_vars
  <2> SUFFICES ASSUME IInv, Next PROVE KeepsAccepted
    OBVIOUS
  <2>1. ASSUME NEW l \in Lines, AddMnemonic(l) PROVE KeepsAccepted
    BY <2>1, AddMnemonicKeeps
  <2>2. CASE RecoverGroup \/ RecoverRoot
    BY <2>2, RecoverKeeps
  <2>3. CASE EndOfInput \/ CheckQuorum \/ SkipGroup \/ EnterGroup \/ TakeShare \/ Exited
    <3>1. UNCHANGED <<header, store>>
      BY <2>3 DEF EndOfInput, CheckQuorum, SkipGroup, EnterGroup, TakeShare, Exited, vars
    <3> QED BY <3>1, UntouchedKeeps
  <2>4. CASE DecryptSecret
    <3>1. UNCHANGED <<header, store>>
      BY <2>4 DEF DecryptSecret, Abort
    <3> QED BY <3>1, UntouchedKeeps
  <2> QED BY <2>1, <2>2, <2>3, <2>4 DEF Next, Compute
<1> QED BY <1>1, Invariant, PTL DEF Spec, NeverOverwritten
-------------------------------------------------------------------------------
(* The recover mode implements Combine, but for its liveness: whatever is  *)
(* accepted, refused, or recovered is what Combine says of the set of the  *)
(* shares, without counters, loops or the order of the lines.              *)

HIDE DEF ROOT, DigestX, SecretX

TheHeader == [id |-> id, e |-> e, GT |-> threshold[ROOT], G |-> count, n |-> n]

(* The accepted share k of group g. *)
Kept(g, k) ==
  [header |-> TheHeader, GI |-> g, I |-> k, T |-> threshold[g], data |-> shares[g][k]]

(* What the loops must have collected when they end. *)
UsedShares(g) == C!Least(Loaded(g), threshold[g])
Complete      == {g \in Index : Quorum(g)}
UsedGroups    == C!Least(Complete, threshold[ROOT])

(* A group whose secret is a share of the root. *)
Recovered(g) ==
  /\ UsedShares(g) # {}
  /\ shares[ROOT][g] = SecretOf(g, UsedShares(g))
  /\ DigestFits(g, UsedShares(g))

RootRecovered ==
  /\ Loaded(ROOT) # {}
  /\ shares[ROOT][SecretX] = SecretOf(ROOT, Loaded(ROOT))
  /\ DigestFits(ROOT, Loaded(ROOT))

(* Thresholds and the header are there only with a share, and the loops    *)
(* take the least groups and the least shares of each.                     *)
CombineInv ==
  /\ phase # "fatal" =>
       /\ n # 0 => threshold[ROOT] # 0 /\ \E g \in Index : Loaded(g) # {}
       /\ \A g \in Index : threshold[g] # 0 => Loaded(g) # {}
  /\ phase = "group" => idx = UsedShares(i)
  /\ phase \in {"root", "decrypt"} => Loaded(ROOT) = UsedGroups
  /\ phase \in {"groups", "shares", "group", "root", "decrypt"} =>
       \A g \in Loaded(ROOT) : Recovered(g)
  /\ phase = "decrypt" => RootRecovered
------------------------------------------------------------------------------
LEMMA SameCardinality == \A S : C!Cardinality(S) = Cardinality(S)
BY DEF C!Cardinality, Cardinality

LEMMA AcceptedFacts ==
  ASSUME phase # "fatal"
  PROVE  /\ \A g, k \in Index : k \in Loaded(g) => Kept(g, k) \in AcceptedShares
         /\ \A a \in AcceptedShares : \E g, k \in Index : k \in Loaded(g) /\ a = Kept(g, k)
         /\ \A a \in AcceptedShares :
              /\ a.header = TheHeader /\ a.GI \in Index /\ a.I \in Loaded(a.GI)
              /\ a.T = threshold[a.GI] /\ a.data = shares[a.GI][a.I]
<1> DEFINE P == {q \in Index \X Index : q[2] \in DOMAIN shares[q[1]]}
<1>1. AcceptedShares = {Kept(p[1], p[2]) : p \in P}
  BY DEF AcceptedShares, Kept, TheHeader
<1>2. \A g, k \in Index : k \in Loaded(g) => <<g, k>> \in P
  BY DEF Loaded
<1>3. \A p \in P : p[1] \in Index /\ p[2] \in Index /\ p[2] \in Loaded(p[1])
  BY DEF Loaded
<1> HIDE DEF P
<1>4. \A g, k \in Index : k \in Loaded(g) => Kept(g, k) \in AcceptedShares
  <2> TAKE g, k \in Index
  <2> HAVE k \in Loaded(g)
  <2> DEFINE q == <<g, k>>
  <2>1. q \in P /\ q[1] = g /\ q[2] = k
    BY <1>2
  <2> HIDE DEF q
  <2>2. Kept(q[1], q[2]) \in AcceptedShares
    BY <1>1, <2>1
  <2> QED BY <2>1, <2>2
<1>5. \A a \in AcceptedShares : \E g, k \in Index : k \in Loaded(g) /\ a = Kept(g, k)
  BY <1>1, <1>3
<1>6. \A g, k \in Index : /\ Kept(g, k).header = TheHeader /\ Kept(g, k).GI = g
                          /\ Kept(g, k).I = k /\ Kept(g, k).T = threshold[g]
                          /\ Kept(g, k).data = shares[g][k]
  BY DEF Kept
<1> QED BY <1>4, <1>5, <1>6

(* The same as a formula, to be used of the next state as well. *)
AcceptedAreLoaded ==
  /\ \A g, k \in Index : k \in Loaded(g) => Kept(g, k) \in AcceptedShares
  /\ \A a \in AcceptedShares : \E g, k \in Index : k \in Loaded(g) /\ a = Kept(g, k)

LEMMA AcceptedAre == phase # "fatal" => AcceptedAreLoaded
BY AcceptedFacts DEF AcceptedAreLoaded

(* What Combine computes from the set of shares, in terms of the arrays. *)
LEMMA MembersFacts ==
  ASSUME phase # "fatal", NEW g \in Index
  PROVE  /\ C!Members(g) = Loaded(g)
         /\ C!Of(g) # {} <=> Loaded(g) # {}
         /\ Loaded(g) # {} => C!ThresholdOf(g) = threshold[g]
         /\ \A k \in Loaded(g) : (CHOOSE a \in C!Of(g) : a.I = k).data = shares[g][k]
<1>1. \A a \in C!Of(g) : a.I \in Loaded(g) /\ a.T = threshold[g] /\ a.data = shares[g][a.I]
  BY AcceptedFacts DEF C!Of
<1>2. \A k \in Loaded(g) : Kept(g, k) \in C!Of(g) /\ Kept(g, k).I = k
  <2> TAKE k \in Loaded(g)
  <2>1. k \in Index
    BY DEF Loaded
  <2>2. Kept(g, k).GI = g /\ Kept(g, k).I = k
    BY DEF Kept
  <2> QED BY <2>1, <2>2, AcceptedFacts DEF C!Of
<1>3. C!Members(g) = Loaded(g)
  BY <1>1, <1>2 DEF C!Members
<1>4. C!Of(g) # {} <=> Loaded(g) # {}
  BY <1>1, <1>2
<1>5. Loaded(g) # {} => C!ThresholdOf(g) = threshold[g]
  BY <1>1, <1>4 DEF C!ThresholdOf
<1>6. \A k \in Loaded(g) : (CHOOSE a \in C!Of(g) : a.I = k).data = shares[g][k]
  <2> TAKE k \in Loaded(g)
  <2>1. \E a \in C!Of(g) : a.I = k
    BY <1>2
  <2> DEFINE c == CHOOSE a \in C!Of(g) : a.I = k
  <2>2. c \in C!Of(g) /\ c.I = k
    BY <2>1
  <2> QED BY <1>1, <2>2
<1> QED BY <1>3, <1>4, <1>5, <1>6

LEMMA HeaderFact ==
  ASSUME phase # "fatal", AcceptedShares # {}
  PROVE  C!HeaderOf = TheHeader
BY AcceptedFacts DEF C!HeaderOf
------------------------------------------------------------------------------
(* Shares that the program keeps agree with each other. *)
THEOREM KeptAgree == IInv /\ phase # "fatal" => C!Consistent(AcceptedShares)
<1> SUFFICES ASSUME IInv, phase # "fatal"
             PROVE  C!Consistent(AcceptedShares)
  OBVIOUS
<1>1. \A g \in Index : Loaded(g) # {} => g < count
  BY DEF IInv, ReadingInv
<1>2. TheHeader.G = count
  BY DEF TheHeader
<1>3. \A a \in AcceptedShares : a.GI < a.header.G
  BY <1>1, <1>2, AcceptedFacts
<1>4. ASSUME NEW a \in AcceptedShares, NEW b \in AcceptedShares
      PROVE  /\ a.header = b.header
             /\ a.GI = b.GI => a.T = b.T
             /\ a.GI = b.GI /\ a.I = b.I => a = b
  <2>1. a.header = b.header /\ (a.GI = b.GI => a.T = b.T)
    BY AcceptedFacts
  <2>2. a = Kept(a.GI, a.I) /\ b = Kept(b.GI, b.I)
    <3>1. \A g, k : Kept(g, k).GI = g /\ Kept(g, k).I = k
      BY DEF Kept
    <3> QED BY <3>1, AcceptedFacts
  <2> QED BY <2>1, <2>2
<1> QED BY <1>3, <1>4 DEF C!Consistent
------------------------------------------------------------------------------
LEMMA QuorumFacts ==
  ASSUME IInv, CombineInv, phase # "fatal"
  PROVE  /\ \A g \in Index : Quorum(g) <=> Loaded(g) # {} /\ Cardinality(Loaded(g)) >= threshold[g]
         /\ \A g \in Complete : Loaded(g) # {}
         /\ C!Full = Complete
         /\ C!Enough <=> Quorum(ROOT)
         /\ Quorum(ROOT) => C!HeaderOf = TheHeader /\ C!UsedGroups = UsedGroups
<1>1. TypeOK /\ CountersExact /\ ReadingInv
  BY DEF IInv
<1>2. \A g \in Index : threshold[g] # 0 <=> Loaded(g) # {}
  BY <1>1 DEF ReadingInv, CombineInv
<1>3. \A g \in Index : Quorum(g) <=> Loaded(g) # {} /\ Cardinality(Loaded(g)) >= threshold[g]
  BY <1>1, <1>2 DEF CountersExact, Quorum
<1>4. C!Full = Complete
  <2>1. \A g \in Index : g \in C!Full <=> Quorum(g)
    BY <1>3, MembersFacts, SameCardinality DEF C!Full, C!Index, Index
  <2>2. C!Full \subseteq Index
    BY DEF C!Full, C!Index, Index
  <2> QED BY <2>1, <2>2 DEF Complete
<1>5. AcceptedShares # {} <=> \E g \in Index : Loaded(g) # {}
  <2>1. \A g \in Index : \A k \in Loaded(g) : k \in Index
    BY DEF Loaded
  <2> QED BY <2>1, AcceptedFacts
<1>6. available[ROOT] = Cardinality(Complete) /\ Complete \in SUBSET Index
  BY <1>1 DEF CountersExact, Complete
<1>7. TheHeader.GT = threshold[ROOT]
  BY DEF TheHeader
<1>8. (\E g \in Index : Loaded(g) # {}) => threshold[ROOT] # 0
  <2>1. n = 0 => \A g \in Index : threshold[g] = 0
    BY <1>1, SetsFacts DEF ReadingInv
  <2> QED BY <1>2, <2>1 DEF CombineInv
<1>9. Quorum(ROOT) => \E g \in Index : Loaded(g) # {}
  <2> SUFFICES ASSUME Quorum(ROOT), Complete = {} PROVE FALSE
    BY <1>3 DEF Complete
  <2>1. available[ROOT] = 0
    BY <1>6, FS_EmptySet
  <2>2. threshold[ROOT] \in Nat
    BY <1>1, SetsFacts DEF TypeOK
  <2> QED BY <2>1, <2>2 DEF Quorum
<1>10. C!Enough <=> Quorum(ROOT)
  BY <1>4, <1>5, <1>6, <1>7, <1>8, <1>9, HeaderFact, SameCardinality DEF C!Enough, Quorum
<1>11. Quorum(ROOT) => C!HeaderOf = TheHeader /\ C!UsedGroups = UsedGroups
  BY <1>4, <1>5, <1>7, <1>9, HeaderFact DEF C!UsedGroups, UsedGroups
<1>12. \A g \in Complete : Loaded(g) # {}
  BY <1>3 DEF Complete
<1> QED BY <1>3, <1>4, <1>10, <1>11, <1>12

(* The same value is computed from the same points. *)
LEMMA ValueFacts ==
  ASSUME NEW s, NEW used
  PROVE  /\ used # {} => C!SecretOf(Points(s, used), threshold[s]) = SecretOf(s, used)
         /\ C!DigestFits(Points(s, used), threshold[s]) <=> DigestFits(s, used)
<1> DEFINE pts == Points(s, used)
<1>1. DOMAIN pts = used /\ \A k \in used : pts[k] = shares[s][k]
  BY DEF Points
<1>2. used # {} => pts[CHOOSE k \in DOMAIN pts : TRUE] = shares[s][CHOOSE k \in used : TRUE]
  BY <1>1
<1>3. C!SecretX = SecretX /\ C!DigestX = DigestX
  BY DEF C!SecretX, SecretX, C!DigestX, DigestX
<1>4. C!DigestFits(pts, threshold[s]) <=> DigestFits(s, used)
  BY <1>3 DEF C!DigestFits, DigestFits
<1> HIDE DEF pts
<1>5. used # {} => C!SecretOf(pts, threshold[s]) =
        IF threshold[s] = 1 THEN shares[s][CHOOSE k \in used : TRUE] ELSE Interpolate(pts, SecretX)
  BY <1>2, <1>3 DEF C!SecretOf
<1> QED BY <1>4, <1>5 DEF pts, SecretOf

LEMMA GroupFacts ==
  ASSUME IInv, CombineInv, phase # "fatal", NEW g \in Complete
  PROVE  /\ C!GroupPoints(g) = Points(g, UsedShares(g))
         /\ C!ThresholdOf(g) = threshold[g]
<1>1. g \in Index /\ Loaded(g) # {}
  BY QuorumFacts DEF Complete
<1>2. C!Members(g) = Loaded(g) /\ C!ThresholdOf(g) = threshold[g]
  BY <1>1, MembersFacts
<1>3. C!Least(C!Members(g), C!ThresholdOf(g)) = UsedShares(g)
  BY <1>2 DEF UsedShares
<1>4. \A k \in UsedShares(g) : (CHOOSE a \in C!Of(g) : a.I = k).data = shares[g][k]
  BY <1>1, MembersFacts DEF UsedShares, C!Least
<1> QED BY <1>2, <1>3, <1>4 DEF C!GroupPoints, Points

LEMMA RootFacts ==
  ASSUME IInv, CombineInv, phase \in {"root", "decrypt"}
  PROVE  /\ C!RootPoints = Points(ROOT, Loaded(ROOT))
         /\ C!Genuine <=> DigestFits(ROOT, Loaded(ROOT))
         /\ C!HeaderOf = TheHeader /\ C!Enough
<1>1. /\ Loaded(ROOT) = C!UsedGroups /\ C!HeaderOf = TheHeader /\ C!Enough
      /\ Loaded(ROOT) \subseteq Complete
      /\ \A g \in Loaded(ROOT) : Recovered(g)
  <2>1. Quorum(ROOT)
    BY DEF IInv, LoopInv
  <2>2. Loaded(ROOT) = UsedGroups /\ \A g \in Loaded(ROOT) : Recovered(g)
    BY DEF CombineInv
  <2> QED BY <2>1, <2>2, QuorumFacts DEF UsedGroups, C!Least
<1>2. \A g \in Loaded(ROOT) :
        /\ C!SecretOf(C!GroupPoints(g), C!ThresholdOf(g)) = shares[ROOT][g]
        /\ C!DigestFits(C!GroupPoints(g), C!ThresholdOf(g))
  <2> TAKE g \in Loaded(ROOT)
  <2>1. C!GroupPoints(g) = Points(g, UsedShares(g)) /\ C!ThresholdOf(g) = threshold[g]
    BY <1>1, GroupFacts
  <2>2. /\ UsedShares(g) # {} /\ shares[ROOT][g] = SecretOf(g, UsedShares(g))
        /\ DigestFits(g, UsedShares(g))
    BY <1>1 DEF Recovered
  <2> QED BY <2>1, <2>2, ValueFacts
<1>3. C!RootPoints = Points(ROOT, Loaded(ROOT))
  BY <1>1, <1>2 DEF C!RootPoints, Points
<1>4. TheHeader.GT = threshold[ROOT]
  BY DEF TheHeader
<1>5. C!DigestFits(C!RootPoints, C!HeaderOf.GT) <=> DigestFits(ROOT, Loaded(ROOT))
  BY <1>1, <1>3, <1>4, ValueFacts
<1> QED BY <1>1, <1>2, <1>3, <1>5 DEF C!Genuine
------------------------------------------------------------------------------
(* A loop that has looked at the indices up to m, and stops there because  *)
(* it has k of them or as it was the last, has the k least ones.           *)
LEMMA LeastPrefix ==
  ASSUME NEW S \in SUBSET Index, NEW m \in Index, NEW k \in Nat,
         Cardinality({x \in S : x < m}) < k,
         Cardinality({x \in S : x < m + 1}) = k \/ m + 1 = MaxShares
  PROVE  {x \in S : x < m + 1} = C!Least(S, k)
<1> DEFINE L       == {x \in S : x < m + 1}
           Below(x) == {y \in S : y < x}
<1>1. \A x \in Index : x \in Nat /\ x < MaxShares
  BY MaxSharesAssumption DEF Index
<1>2. \A x \in S : Below(x) \in SUBSET Index /\ Cardinality(Below(x)) \in Nat
  BY IndexSets
<1>3. ASSUME NEW x \in L PROVE Cardinality(Below(x)) < k
  <2>1. Below(m) \in SUBSET Index
    OBVIOUS
  <2>2. Below(x) \in SUBSET Below(m)
    BY <1>1
  <2>3. Cardinality(Below(x)) <= Cardinality(Below(m))
    BY <2>1, <2>2, IndexSubset
  <2>4. Cardinality(Below(m)) \in Nat
    BY <2>1, IndexSets
  <2> QED BY <1>2, <1>3, <2>3, <2>4
<1>4. ASSUME NEW x \in S, x \notin L PROVE ~(Cardinality(Below(x)) < k)
  <2>1. m + 1 # MaxShares /\ m + 1 <= x
    BY <1>1, <1>4
  <2>2. L \in SUBSET Below(x)
    BY <1>1, <2>1
  <2>3. Cardinality(L) <= Cardinality(Below(x))
    BY <1>2, <2>2, IndexSubset
  <2>4. Cardinality(L) = k
    BY <2>1
  <2> HIDE DEF L, Below
  <2> QED BY <1>2, <1>4, <2>3, <2>4
<1>5. C!Least(S, k) = {x \in S : Cardinality(Below(x)) < k}
  BY SameCardinality DEF C!Least
<1> HIDE DEF Below
<1> QED BY <1>3, <1>4, <1>5

(* What a secret and a digest depend on. *)
LEMMA ValueKept ==
  ASSUME NEW CONSTANT s, NEW CONSTANT used, used # {}, threshold'[s] = threshold[s],
         \A k \in used : shares'[s][k] = shares[s][k]
  PROVE  SecretOf(s, used)' = SecretOf(s, used) /\ (DigestFits(s, used)' <=> DigestFits(s, used))
<1>1. Points(s, used)' = Points(s, used)
  BY DEF Points
<1>2. threshold[s] = 1 => shares'[s][CHOOSE k \in used : TRUE] = shares[s][CHOOSE k \in used : TRUE]
  OBVIOUS
<1> QED BY <1>1, <1>2 DEF SecretOf, DigestFits

(* A group stays recovered while its shares are kept. *)
LEMMA RecoveredKept ==
  ASSUME NEW g \in Index, Recovered(g), UNCHANGED threshold, Loaded(g)' = Loaded(g),
         \A k \in Loaded(g) : shares'[g][k] = shares[g][k],
         shares'[ROOT][g] = shares[ROOT][g]
  PROVE  Recovered(g)'
<1>1. UsedShares(g)' = UsedShares(g) /\ UsedShares(g) \subseteq Loaded(g)
  BY DEF UsedShares, C!Least
<1>2. PICK used : used = UsedShares(g)
  OBVIOUS
<1>3. /\ used # {} /\ used = UsedShares(g)' /\ \A k \in used : shares'[g][k] = shares[g][k]
      /\ shares[ROOT][g] = SecretOf(g, used) /\ DigestFits(g, used)
  BY <1>1, <1>2 DEF Recovered
<1>4. SecretOf(g, used)' = SecretOf(g, used) /\ (DigestFits(g, used)' <=> DigestFits(g, used))
  BY <1>3, ValueKept
<1> QED BY <1>3, <1>4 DEF Recovered
------------------------------------------------------------------------------
(* Steps that keep the accepted shares. *)
LEMMA AcceptedUnchanged ==
  ASSUME phase # "fatal", phase' # "fatal", UNCHANGED <<header, threshold>>,
         \A g \in Index : Loaded(g)' = Loaded(g),
         \A g \in Index : \A k \in Loaded(g) : shares'[g][k] = shares[g][k]
  PROVE  AcceptedShares' = AcceptedShares
<1> DEFINE P == {q \in Index \X Index : q[2] \in Loaded(q[1])}
<1>1. AcceptedShares = {Kept(p[1], p[2]) : p \in P}
  BY DEF AcceptedShares, Kept, TheHeader, Loaded
<1>2. AcceptedShares' = {Kept(p[1], p[2])' : p \in P'}
  BY DEF AcceptedShares, Kept, TheHeader, Loaded
<1>3. P' = P
  <2>1. \A q \in Index \X Index : q[2] \in Loaded(q[1])' <=> q[2] \in Loaded(q[1])
    OBVIOUS
  <2> QED BY <2>1
<1>4. \A p \in P : Kept(p[1], p[2])' = Kept(p[1], p[2])
  <2> TAKE p \in P
  <2>1. p[1] \in Index /\ p[2] \in Loaded(p[1])
    OBVIOUS
  <2>2. shares'[p[1]][p[2]] = shares[p[1]][p[2]]
    BY <2>1
  <2> QED BY <2>2 DEF Kept, TheHeader, header
<1> HIDE DEF P
<1> QED BY <1>1, <1>2, <1>3, <1>4

LEMMA RefusedAll == phase = "fatal" => AcceptedShares = {}
BY DEF AcceptedShares

(* What Combine would accept is what the program does not refuse. *)
LEMMA RefusalsJustified ==
  ASSUME IInv, CombineInv, NEW l \in Lines, AddMnemonic(l), ~LoadShare(l)
  PROVE  ~C!Acceptable(l)
<1>1. phase = "mnemonics" /\ TypeOK /\ ReadingInv
  BY DEF AddMnemonic, IInv
<1>2. SUFFICES ASSUME C!WellFormed(l), l.pad, C!Share(l) \notin AcceptedShares,
                      C!Consistent(AcceptedShares \cup {C!Share(l)})
               PROVE  FALSE
  BY DEF C!Acceptable
<1> DEFINE a == C!Share(l)
<1>3. /\ a.header = Header(l) /\ a.GI = l.GI /\ a.I = l.I /\ a.T = l.T
      /\ a.header.G = l.G
  BY DEF C!Share, C!Header, C!Bytes, Header, Bytes
<1>4. WellFormed(l)
  BY <1>2 DEF C!WellFormed, C!WORDS, C!MinWords, C!Surplus, WellFormed, WORDS, MinWords, Surplus
<1>5. a.GI < a.header.G /\ \A b \in AcceptedShares :
        /\ a # b /\ a.header = b.header
        /\ a.GI = b.GI => a.T = b.T
        /\ a.GI = b.GI => a.I # b.I
  BY <1>2 DEF C!Consistent
<1> HIDE DEF a
<1>6. Matches(l)
  <2> SUFFICES ASSUME n # 0 PROVE TheHeader = Header(l)
    BY DEF Matches, TheHeader
  <2>1. PICK g \in Index : Loaded(g) # {}
    BY <1>1 DEF CombineInv
  <2>2. PICK k \in Loaded(g) : k \in Index
    BY <2>1 DEF Loaded
  <2>3. Kept(g, k) \in AcceptedShares /\ Kept(g, k).header = TheHeader
    BY <1>1, <2>2, AcceptedFacts
  <2> QED BY <1>3, <1>5, <2>3
<1>7. l.GI \in Index /\ l.I \in Index /\ l.G \in Int /\ l.GI \in Int /\ l.GI < l.G
  <2>1. l.GI \in Index /\ l.I \in Index /\ l.G \in Int
    BY LinesAssumption, MaxSharesAssumption DEF LineType
  <2>2. l.GI < l.G
    BY <1>3, <1>5
  <2>3. l.GI \in Int
    BY <2>1, MaxSharesAssumption DEF Index
  <2> QED BY <2>1, <2>2, <2>3
<1>8. threshold[l.GI] \in {0, l.T}
  <2> SUFFICES ASSUME threshold[l.GI] # 0 PROVE threshold[l.GI] = l.T
    OBVIOUS
  <2>1. PICK k \in Loaded(l.GI) : k \in Index
    BY <1>1, <1>7 DEF CombineInv, Loaded
  <2>2. Kept(l.GI, k) \in AcceptedShares
    BY <1>1, <1>7, <2>1, AcceptedFacts
  <2>3. Kept(l.GI, k).GI = l.GI /\ Kept(l.GI, k).T = threshold[l.GI]
    BY DEF Kept
  <2> QED BY <1>3, <1>5, <2>2, <2>3
<1>9. l.I \notin Loaded(l.GI)
  <2> SUFFICES ASSUME l.I \in Loaded(l.GI) PROVE FALSE
    OBVIOUS
  <2>1. Kept(l.GI, l.I) \in AcceptedShares
    BY <1>1, <1>7, AcceptedFacts
  <2>2. Kept(l.GI, l.I).GI = l.GI /\ Kept(l.GI, l.I).I = l.I
    BY DEF Kept
  <2> QED BY <1>3, <1>5, <2>1, <2>2
<1>10. Placed(l)
  BY <1>4, <1>6, <1>7 DEF Placed
<1>11. ~(l.GI >= l.G)
  BY <1>7
<1> QED BY <1>2, <1>4, <1>6, <1>8, <1>9, <1>10, <1>11
       DEF AddMnemonic, RejectMalformed, RejectMismatch, RejectGroupIndex,
           RejectMemberThreshold, RejectDuplicate, RejectPadding

(* A share that is loaded is the one that Combine accepts. *)
LEMMA LoadShareStep ==
  ASSUME IInv, CombineInv, NEW l \in Lines, AddMnemonic(l), LoadShare(l)
  PROVE  /\ AcceptedShares' = AcceptedShares \cup {Share(l)}
         /\ Share(l) \notin AcceptedShares
         /\ CombineInv'
<1> DEFINE g == l.GI
           k == l.I
<1>1. /\ phase = "mnemonics" /\ phase' = "mnemonics" /\ TypeOK /\ ReadingInv
      /\ Placed(l) /\ threshold[g] \in {0, l.T} /\ k \notin Loaded(g) /\ AdoptHeader(l)
      /\ threshold' = GroupThreshold(l) /\ shares' = LoadedShares(l)
  BY DEF AddMnemonic, LoadShare, IInv
<1>2. /\ g \in Index /\ k \in Index /\ g \in Sets /\ g # ROOT /\ l.T # 0 /\ l.GT # 0
  <2>1. g \in Index /\ k \in Index /\ l.T # 0 /\ l.GT # 0
    BY LinesAssumption DEF LineType
  <2> QED BY <2>1, SetsFacts
<1>3. /\ threshold'[ROOT] = l.GT /\ threshold'[g] = l.T
      /\ \A h \in Index : h # g => threshold'[h] = threshold[h]
  BY <1>1, <1>2, SetsFacts DEF GroupThreshold, RootThreshold, TypeOK
<1>4. /\ shares'[g] = Put(shares[g], k, l.data)
      /\ \A h \in Index : h # g => shares'[h] = shares[h]
  BY <1>1, <1>2, SetsFacts DEF LoadedShares, TypeOK
<1>5. /\ DOMAIN Put(shares[g], k, l.data) = DOMAIN shares[g] \cup {k}
      /\ Put(shares[g], k, l.data)[k] = l.data
      /\ \A x \in DOMAIN shares[g] : x # k => Put(shares[g], k, l.data)[x] = shares[g][x]
  BY DEF Put
<1>6. /\ Loaded(g)' = Loaded(g) \cup {k}
      /\ \A h \in Index : h # g => Loaded(h)' = Loaded(h)
  BY <1>2, <1>4, <1>5 DEF Loaded
<1>7. TheHeader' = Header(l) /\ n' # 0
  <2>1. Bytes(l) # 0
    <3>1. LineType(l) /\ WellFormed(l)
      BY <1>1, LinesAssumption DEF Placed
    <3> QED BY <3>1, BytesPositive
  <2> QED BY <1>1, <1>3, <2>1 DEF TheHeader, Header, AdoptHeader
<1>8. (\E h \in Index : Loaded(h) # {}) => TheHeader = Header(l)
  <2>1. n = 0 => \A h \in Index : Loaded(h) = {}
    BY <1>1, SetsFacts DEF ReadingInv
  <2> QED BY <1>1, <2>1 DEF Placed, Matches, TheHeader
<1>9. Kept(g, k)' = Share(l)
  BY <1>3, <1>4, <1>5, <1>7 DEF Kept, Share
<1>10. ASSUME NEW h \in Index, NEW x \in Loaded(h)
       PROVE  Kept(h, x)' = Kept(h, x) /\ x \in Loaded(h)' /\ x \in Index
  <2>1. threshold'[h] = threshold[h]
    <3>1. CASE h = g
      <4>1. threshold[g] # 0
        BY <1>1, <1>10, <3>1 DEF ReadingInv
      <4> QED BY <1>1, <1>3, <3>1, <4>1
    <3> QED BY <1>3, <3>1
  <2>2. shares'[h][x] = shares[h][x]
    <3>1. CASE h = g
      <4>1. x # k /\ x \in DOMAIN shares[g]
        BY <1>1, <1>10, <3>1 DEF Loaded
      <4> QED BY <1>4, <1>5, <3>1, <4>1
    <3> QED BY <1>4, <3>1
  <2>3. TheHeader' = TheHeader
    BY <1>7, <1>8, <1>10
  <2>4. x \in Loaded(h)' /\ x \in Index
    BY <1>6, <1>10 DEF Loaded
  <2> QED BY <2>1, <2>2, <2>3, <2>4 DEF Kept
<1>11. /\ \A h, x \in Index : x \in Loaded(h)' => Kept(h, x)' \in AcceptedShares'
       /\ \A a \in AcceptedShares' : \E h, x \in Index : x \in Loaded(h)' /\ a = Kept(h, x)'
  <2>1. (phase # "fatal")'
    BY <1>1
  <2>2. AcceptedAreLoaded'
    BY <2>1, AcceptedAre, PTL
  <2> QED BY <2>2 DEF AcceptedAreLoaded
<1>12. Share(l) \in AcceptedShares' /\ AcceptedShares \subseteq AcceptedShares'
  <2>1. Share(l) \in AcceptedShares'
    BY <1>2, <1>6, <1>9, <1>11
  <2>2. ASSUME NEW a \in AcceptedShares PROVE a \in AcceptedShares'
    <3>1. PICK h \in Index, x \in Index : x \in Loaded(h) /\ a = Kept(h, x)
      BY <1>1, <2>2, AcceptedFacts
    <3> QED BY <1>10, <1>11, <3>1
  <2> QED BY <2>1, <2>2
<1>13. ASSUME NEW a \in AcceptedShares' PROVE a \in AcceptedShares \cup {Share(l)}
  <2>1. PICK h \in Index, x \in Index : x \in Loaded(h)' /\ a = Kept(h, x)'
    BY <1>11, <1>13
  <2>2. CASE x \in Loaded(h)
    BY <1>1, <1>10, <2>1, <2>2, AcceptedFacts
  <2>3. CASE x \notin Loaded(h)
    BY <1>6, <1>9, <2>1, <2>3
  <2> QED BY <2>2, <2>3
<1>14. Share(l) \notin AcceptedShares
  <2>1. Share(l).GI = g /\ Share(l).I = k
    BY DEF Share
  <2> QED BY <1>1, <2>1, AcceptedFacts
<1>15. CombineInv'
  <2>1. \A h \in Index : threshold'[h] # 0 => Loaded(h)' # {}
    <3> TAKE h \in Index
    <3>1. CASE h = g
      BY <1>6, <3>1
    <3>2. CASE h # g
      BY <1>1, <1>3, <1>6, <3>2 DEF CombineInv
    <3> QED BY <3>1, <3>2
  <2>2. threshold'[ROOT] # 0 /\ \E h \in Index : Loaded(h)' # {}
    BY <1>2, <1>3, <1>6
  <2> QED BY <1>1, <2>1, <2>2 DEF CombineInv
<1> QED BY <1>12, <1>13, <1>14, <1>15
------------------------------------------------------------------------------
(* While lines are read. *)
LEMMA AddMnemonicCombines ==
  ASSUME IInv, CombineInv, NEW l \in Lines, AddMnemonic(l)
  PROVE  CombineInv' /\ [C!Next]_(C!vars)
<1>1. phase = "mnemonics" /\ plaintext' = plaintext
  BY DEF AddMnemonic
<1>2. Share(l) = C!Share(l) /\ (C!WellFormed(l) <=> WellFormed(l))
  BY DEF Share, C!Share, Header, C!Header, Bytes, C!Bytes, WellFormed, C!WellFormed,
         WORDS, C!WORDS, MinWords, C!MinWords, Surplus, C!Surplus
<1>3. CASE LoadShare(l)
  <2>1. /\ AcceptedShares' = AcceptedShares \cup {C!Share(l)}
        /\ C!Share(l) \notin AcceptedShares /\ CombineInv'
    BY <1>2, <1>3, LoadShareStep
  <2>2. /\ phase' = "mnemonics" /\ refused' = refused /\ l.pad /\ WellFormed(l)
    BY <1>1, <1>3 DEF LoadShare, Placed
  <2>3. C!Consistent(AcceptedShares)'
    <3>1. IInv'
      BY <1>3, LoadShareInvariant
    <3>2. (IInv /\ phase # "fatal")'
      BY <2>2, <3>1
    <3> QED BY <3>2, KeptAgree, PTL
  <2>4. C!Consistent(AcceptedShares')
    BY <2>3 DEF C!Consistent
  <2>5. C!Acceptable(l)
    BY <1>2, <2>1, <2>2, <2>4 DEF C!Acceptable
  <2>6. Verdict = "open" /\ Verdict' = "open"
    BY <1>1, <2>2 DEF Verdict
  <2>7. C!Accept(l)
    BY <1>1, <2>1, <2>2, <2>5, <2>6 DEF C!Accept
  <2> QED BY <2>1, <2>7 DEF C!Next
<1>4. CASE ~LoadShare(l)
  <2>1. ~C!Acceptable(l)
    BY <1>4, RefusalsJustified
  <2>2. phase' = "fatal" /\ refused' = l
    BY <1>4 DEF AddMnemonic, RejectMalformed, RejectMismatch, RejectGroupIndex,
       RejectMemberThreshold, RejectDuplicate, RejectPadding, Fatal
  <2>3. AcceptedShares' = {}
    BY <2>2 DEF AcceptedShares
  <2>4. Verdict = "open" /\ Verdict' = "refused"
    BY <1>1, <2>2 DEF Verdict
  <2>5. C!Refuse(l)
    BY <1>1, <2>1, <2>2, <2>3, <2>4 DEF C!Refuse
  <2>6. CombineInv'
    BY <2>2 DEF CombineInv
  <2> QED BY <2>5, <2>6 DEF C!Next
<1> QED BY <1>3, <1>4

(* Steps between the end of the input and the verdict change nothing that  *)
(* Combine has.                                                            *)
LEMMA ClosedStutters ==
  ASSUME phase \in {"quorum", "groups", "shares", "group", "root", "decrypt"},
         phase' \in {"quorum", "groups", "shares", "group", "root", "decrypt"},
         AcceptedShares' = AcceptedShares, UNCHANGED <<plaintext, refused>>
  PROVE  UNCHANGED C!vars
<1>1. Verdict = "closed" /\ Verdict' = "closed"
  BY DEF Verdict
<1> QED BY <1>1 DEF C!vars

LEMMA StoreUnchanged ==
  ASSUME phase # "fatal", phase' # "fatal", UNCHANGED <<header, store>>
  PROVE  /\ AcceptedShares' = AcceptedShares
         /\ \A s : Loaded(s)' = Loaded(s) /\ (Quorum(s)' <=> Quorum(s))
         /\ \A g : UsedShares(g)' = UsedShares(g) /\ (Recovered(g)' <=> Recovered(g))
         /\ UsedGroups' = UsedGroups /\ Complete' = Complete
<1>1. UNCHANGED <<threshold, available, shares>>
  BY DEF store
<1>2. \A s : Loaded(s)' = Loaded(s) /\ (Quorum(s)' <=> Quorum(s))
  BY <1>1 DEF Loaded, Quorum
<1>3. \A g : UsedShares(g)' = UsedShares(g)
  BY <1>1, <1>2 DEF UsedShares
<1>4. \A g : Recovered(g)' <=> Recovered(g)
  BY <1>1, <1>3 DEF Recovered, SecretOf, DigestFits, Points
<1>5. Complete' = Complete
  BY <1>2 DEF Complete
<1>6. UsedGroups' = UsedGroups
  BY <1>1, <1>5 DEF UsedGroups
<1>7. AcceptedShares' = AcceptedShares
  BY <1>1, <1>2, AcceptedUnchanged
<1> QED BY <1>2, <1>3, <1>4, <1>5, <1>6, <1>7

(* Giving up with a message is Combine's refusal when there is not enough  *)
(* or a digest does not fit.                                               *)
LEMMA GivingUp ==
  ASSUME phase \in {"quorum", "groups", "shares", "group", "root", "decrypt"},
         phase' = "fatal", ~(C!Enough /\ C!Genuine), UNCHANGED <<plaintext, refused>>
  PROVE  C!Conclude /\ CombineInv'
<1>1. Verdict = "closed" /\ Verdict' = "refused"
  BY DEF Verdict
<1>2. AcceptedShares' = {}
  BY DEF AcceptedShares
<1>3. C!Conclude
  BY <1>1, <1>2 DEF C!Conclude
<1>4. CombineInv'
  BY DEF CombineInv
<1> QED BY <1>3, <1>4

LEMMA EndOfInputCombines ==
  ASSUME IInv, CombineInv, EndOfInput
  PROVE  CombineInv' /\ [C!Next]_(C!vars)
<1>1. /\ phase = "mnemonics" /\ phase' = "quorum"
      /\ UNCHANGED <<header, store, plaintext, refused, n, threshold>>
  BY DEF EndOfInput, header, store
<1>2. AcceptedShares' = AcceptedShares /\ \A s : Loaded(s)' = Loaded(s)
  BY <1>1, StoreUnchanged
<1>3. Verdict = "open" /\ Verdict' = "closed"
  BY <1>1 DEF Verdict
<1>4. C!Close
  BY <1>1, <1>2, <1>3 DEF C!Close
<1>5. CombineInv'
  BY <1>1, <1>2 DEF CombineInv
<1> QED BY <1>4, <1>5 DEF C!Next

LEMMA CheckQuorumCombines ==
  ASSUME IInv, CombineInv, CheckQuorum
  PROVE  CombineInv' /\ [C!Next]_(C!vars)
<1>1. phase = "quorum" /\ UNCHANGED <<header, store, plaintext, refused, n, threshold>>
  BY DEF CheckQuorum, header, store
<1>2. CASE Quorum(ROOT)
  <2>1. phase' = "groups"
    BY <1>2 DEF CheckQuorum
  <2>2. AcceptedShares' = AcceptedShares /\ \A s : Loaded(s)' = Loaded(s)
    BY <1>1, <2>1, StoreUnchanged
  <2>3. Loaded(ROOT) = {}
    BY <1>1 DEF IInv, LoopInv
  <2>4. CombineInv'
    BY <1>1, <2>1, <2>2, <2>3 DEF CombineInv
  <2> QED BY <1>1, <2>1, <2>2, <2>4, ClosedStutters
<1>3. CASE ~Quorum(ROOT)
  <2>1. phase' = "fatal"
    BY <1>3 DEF CheckQuorum
  <2>2. ~C!Enough
    BY <1>1, <1>3, QuorumFacts
  <2> QED BY <1>1, <2>1, <2>2, GivingUp DEF C!Next
<1> QED BY <1>2, <1>3
------------------------------------------------------------------------------
(* The loops. *)
LEMMA SkipGroupCombines ==
  ASSUME IInv, CombineInv, SkipGroup
  PROVE  CombineInv' /\ [C!Next]_(C!vars)
<1>1. /\ phase = "groups" /\ ~Quorum(i) /\ NextGroup(Cardinality(Loaded(ROOT)))
      /\ UNCHANGED <<header, store, plaintext, refused, n, threshold>>
  BY DEF SkipGroup, header, store
<1>2. phase' \in {"groups", "root"}
  BY <1>1 DEF NextGroup
<1>3. /\ AcceptedShares' = AcceptedShares /\ \A s : Loaded(s)' = Loaded(s)
      /\ \A g : Recovered(g)' <=> Recovered(g)
      /\ UsedGroups' = UsedGroups
  BY <1>1, <1>2, StoreUnchanged
<1>4. phase' = "root" => Loaded(ROOT) = UsedGroups
  <2> SUFFICES ASSUME phase' = "root" PROVE Loaded(ROOT) = UsedGroups
    OBVIOUS
  <2>1. /\ i \in Index /\ threshold[ROOT] \in Nat
        /\ Cardinality(Loaded(ROOT)) = threshold[ROOT] \/ i + 1 = MaxShares
    BY <1>1, SetsFacts DEF NextGroup, IInv, TypeOK
  <2>2. /\ Loaded(ROOT) = {g \in Complete : g < i} /\ Complete \in SUBSET Index
        /\ Cardinality(Loaded(ROOT)) < threshold[ROOT] /\ i \notin Complete
    BY <1>1 DEF IInv, LoopInv, Complete
  <2>3. {g \in Complete : g < i + 1} = {g \in Complete : g < i}
    BY <2>1, <2>2, Prefix
  <2>4. /\ Cardinality({g \in Complete : g < i}) < threshold[ROOT]
        /\ Cardinality({g \in Complete : g < i + 1}) = threshold[ROOT] \/ i + 1 = MaxShares
    BY <2>1, <2>2, <2>3
  <2>5. {g \in Complete : g < i + 1} = C!Least(Complete, threshold[ROOT])
    BY <2>1, <2>2, <2>4, LeastPrefix
  <2> QED BY <2>2, <2>3, <2>5 DEF UsedGroups
<1>5. CombineInv'
  BY <1>1, <1>2, <1>3, <1>4 DEF CombineInv
<1> QED BY <1>1, <1>2, <1>3, <1>5, ClosedStutters

LEMMA EnterGroupCombines ==
  ASSUME IInv, CombineInv, EnterGroup
  PROVE  CombineInv' /\ [C!Next]_(C!vars)
<1>1. /\ phase = "groups" /\ phase' = "shares"
      /\ UNCHANGED <<header, store, plaintext, refused, n, threshold>>
  BY DEF EnterGroup, header, store
<1>2. /\ AcceptedShares' = AcceptedShares /\ \A s : Loaded(s)' = Loaded(s)
      /\ \A g : Recovered(g)' <=> Recovered(g)
  BY <1>1, StoreUnchanged
<1>3. CombineInv'
  BY <1>1, <1>2 DEF CombineInv
<1> QED BY <1>1, <1>2, <1>3, ClosedStutters

LEMMA TakeShareCombines ==
  ASSUME IInv, CombineInv, TakeShare
  PROVE  CombineInv' /\ [C!Next]_(C!vars)
<1> DEFINE S == Loaded(i)
<1>1. /\ phase = "shares" /\ phase' \in {"shares", "group"}
      /\ UNCHANGED <<header, store, i, plaintext, refused, n, threshold>>
      /\ idx' = idx \cup (IF j \in S THEN {j} ELSE {})
      /\ phase' = "group" => Cardinality(idx') = threshold[i] \/ j + 1 = MaxShares
  BY DEF TakeShare, header, store
<1>2. /\ AcceptedShares' = AcceptedShares /\ \A s : Loaded(s)' = Loaded(s)
      /\ \A g : (Recovered(g)' <=> Recovered(g)) /\ UsedShares(g)' = UsedShares(g)
  BY <1>1, StoreUnchanged
<1>3. phase' = "group" => idx' = UsedShares(i)
  <2>1. i \in Index /\ j \in Index /\ threshold[i] \in Nat /\ S \in SUBSET Index
    BY SetsFacts DEF IInv, TypeOK, Loaded
  <2>2. idx = {k \in S : k < j} /\ Cardinality(idx) < threshold[i]
    BY <1>1 DEF IInv, LoopInv
  <2>3. idx' = {k \in S : k < j + 1}
    BY <1>1, <2>1, <2>2, Prefix
  <2> SUFFICES ASSUME phase' = "group" PROVE idx' = UsedShares(i)
    OBVIOUS
  <2>4. /\ Cardinality({k \in S : k < j}) < threshold[i]
        /\ Cardinality({k \in S : k < j + 1}) = threshold[i] \/ j + 1 = MaxShares
    BY <1>1, <2>2, <2>3
  <2> HIDE DEF S
  <2>5. {k \in S : k < j + 1} = C!Least(S, threshold[i])
    BY <2>1, <2>4, LeastPrefix
  <2> QED BY <2>3, <2>5 DEF S, UsedShares
<1>4. CombineInv'
  <2>1. phase' = "group" => idx' = UsedShares(i)'
    BY <1>1, <1>3 DEF UsedShares, Loaded, store
  <2>2. i' = i
    BY <1>1
  <2> QED BY <1>1, <1>2, <2>1, <2>2 DEF CombineInv
<1> QED BY <1>1, <1>2, <1>4, ClosedStutters
------------------------------------------------------------------------------
(* The ends of slip0039_recover.  What is computed goes where nothing was. *)
LEMMA RecoverGroupCombines ==
  ASSUME IInv, CombineInv, RecoverGroup
  PROVE  CombineInv' /\ [C!Next]_(C!vars)
<1>1. /\ phase = "group" /\ AssertsHold(i, idx) /\ TypeOK /\ LoopInv
      /\ UNCHANGED <<header, threshold, idx, plaintext, refused>>
      /\ i \in Index /\ i # ROOT /\ i \in Sets /\ ROOT \in Sets /\ i \in Nat
  BY GroupAsserts, SetsFacts DEF RecoverGroup, IInv, TypeOK
<1>2. idx = UsedShares(i) /\ idx \subseteq Loaded(i) /\ Quorum(i) /\ Quorum(ROOT)
      /\ idx # {} /\ i \in Complete
  <2>1. idx = UsedShares(i) /\ idx \subseteq Loaded(i) /\ Quorum(i) /\ Quorum(ROOT)
        /\ Cardinality(idx) = threshold[i]
    BY <1>1 DEF LoopInv, CombineInv
  <2>2. idx # {}
    BY <2>1, FS_EmptySet DEF Quorum
  <2> QED BY <1>1, <2>1, <2>2 DEF Complete
<1>3. C!HeaderOf = TheHeader /\ C!UsedGroups = UsedGroups
  BY <1>1, <1>2, QuorumFacts
<1>4. /\ Loaded(ROOT) = {g \in Complete : g < i} /\ Complete \in SUBSET Index
      /\ Cardinality(Loaded(ROOT)) < threshold[ROOT] /\ i \notin Loaded(ROOT)
  BY <1>1, SetsFacts DEF LoopInv, Complete
<1>5. CASE ~DigestFits(i, idx)
  <2>1. phase' = "fatal"
    BY <1>1, <1>5 DEF RecoverGroup
  <2>2. i \in C!UsedGroups
    BY <1>2, <1>3, <1>4, SameCardinality DEF UsedGroups, C!Least
  <2>3. ~C!DigestFits(C!GroupPoints(i), C!ThresholdOf(i))
    <3>1. C!GroupPoints(i) = Points(i, idx) /\ C!ThresholdOf(i) = threshold[i]
      BY <1>1, <1>2, GroupFacts
    <3> QED BY <1>5, <3>1, ValueFacts
  <2>4. ~C!Genuine
    BY <2>2, <2>3 DEF C!Genuine
  <2> QED BY <1>1, <2>1, <2>4, GivingUp DEF C!Next
<1>6. CASE DigestFits(i, idx)
  <2>1. /\ shares' = [shares EXCEPT ![i]    = Completed(i, idx),
                                    ![ROOT] = Put(@, i, SecretOf(i, idx))]
        /\ NextGroup(Cardinality(Loaded(ROOT) \cup {i}))
        /\ available' = available
    BY <1>1, <1>6 DEF RecoverGroup
  <2>2. /\ shares'[i] = Completed(i, idx)
        /\ shares'[ROOT] = Put(shares[ROOT], i, SecretOf(i, idx))
        /\ \A g \in Index : g # i => shares'[g] = shares[g]
    BY <1>1, <2>1, SetsFacts DEF TypeOK
  <2>3. \A g \in Index : Loaded(g)' = Loaded(g)
    <3> TAKE g \in Index
    <3>1. CASE g = i
      BY <2>2, <3>1, CompletedDomain DEF Loaded
    <3>2. CASE g # i
      BY <2>2, <3>2 DEF Loaded
    <3> QED BY <3>1, <3>2
  <2>4. \A g \in Index : \A k \in Loaded(g) : shares'[g][k] = shares[g][k]
    <3> TAKE g \in Index
    <3> TAKE k \in Loaded(g)
    <3>1. CASE g = i
      <4>1. Untouched(i)
        BY <1>1 DEF LoopInv
      <4> QED BY <2>2, <3>1, <4>1, CompletedKeeps DEF Loaded
    <3>2. CASE g # i
      BY <2>2, <3>2
    <3> QED BY <3>1, <3>2
  <2>5. /\ DOMAIN shares'[ROOT] = DOMAIN shares[ROOT] \cup {i}
        /\ shares'[ROOT][i] = SecretOf(i, idx)
        /\ \A g \in Loaded(ROOT) : shares'[ROOT][g] = shares[ROOT][g]
    BY <1>4, <2>2 DEF Put, Loaded
  <2>6. Loaded(ROOT)' = Loaded(ROOT) \cup {i}
    BY <1>1, <2>5 DEF Loaded
  <2>7. phase' \in {"groups", "root"}
    BY <2>1 DEF NextGroup
  <2>8. AcceptedShares' = AcceptedShares
    BY <1>1, <2>3, <2>4, <2>7, AcceptedUnchanged
  <2>9. \A g \in Loaded(ROOT)' : Recovered(g)'
    <3> TAKE g \in Loaded(ROOT)'
    <3>1. g \in Index
      BY DEF Loaded
    <3>2. CASE g # i
      <4>1. g \in Loaded(ROOT) /\ Recovered(g)
        BY <1>1, <2>6, <3>2 DEF CombineInv
      <4> QED BY <1>1, <2>3, <2>4, <2>5, <3>1, <4>1, RecoveredKept
    <3>3. CASE g = i
      <4>1. UsedShares(g)' = UsedShares(g)
        BY <1>1, <2>3, <3>1 DEF UsedShares
      <4>2. PICK used : used = UsedShares(g)
        OBVIOUS
      <4>3. used = idx /\ used # {} /\ \A k \in used : k \in Loaded(g)
        BY <1>2, <3>3, <4>2
      <4>4. SecretOf(g, used)' = SecretOf(g, used) /\ (DigestFits(g, used)' <=> DigestFits(g, used))
        BY <1>1, <2>4, <3>1, <4>3, ValueKept
      <4>5. shares'[ROOT][g] = SecretOf(g, used) /\ DigestFits(g, used)
        BY <1>6, <2>5, <3>3, <4>3
      <4>6. UsedShares(g)' = used
        BY <4>1, <4>2
      <4> QED BY <4>3, <4>4, <4>5, <4>6 DEF Recovered
    <3> QED BY <3>2, <3>3
  <2>10. phase' = "root" => Loaded(ROOT)' = UsedGroups
    <3> SUFFICES ASSUME phase' = "root" PROVE Loaded(ROOT)' = UsedGroups
      OBVIOUS
    <3>1. Loaded(ROOT)' = {g \in Complete : g < i + 1}
      BY <1>1, <1>2, <1>4, <2>6, Prefix
    <3>2. Cardinality(Loaded(ROOT)') = threshold[ROOT] \/ i + 1 = MaxShares
      BY <2>1, <2>6 DEF NextGroup
    <3>3. threshold[ROOT] \in Nat
      BY <1>1, SetsFacts DEF TypeOK
    <3>4. /\ Cardinality({g \in Complete : g < i}) < threshold[ROOT]
          /\ Cardinality({g \in Complete : g < i + 1}) = threshold[ROOT] \/ i + 1 = MaxShares
      BY <1>4, <3>1, <3>2
    <3>5. {g \in Complete : g < i + 1} = C!Least(Complete, threshold[ROOT])
      <4>1. Complete \in SUBSET Index /\ i \in Index
        BY <1>1, <1>4
      <4> HIDE DEF Complete
      <4> QED BY ONLY <4>1, <3>3, <3>4, LeastPrefix
    <3> QED BY ONLY <3>1, <3>5 DEF UsedGroups
  <2>11. UsedGroups' = UsedGroups
    BY <1>1, <2>1 DEF UsedGroups, Complete, Quorum
  <2>12. CombineInv'
    <3>1. n' = n
      BY <1>1 DEF header
    <3> QED BY <1>1, <2>3, <2>7, <2>9, <2>10, <2>11, <3>1 DEF CombineInv
  <2> QED BY <1>1, <2>7, <2>8, <2>12, ClosedStutters
<1> QED BY <1>5, <1>6

LEMMA RecoverRootCombines ==
  ASSUME IInv, CombineInv, RecoverRoot
  PROVE  CombineInv' /\ [C!Next]_(C!vars)
<1>1. /\ phase = "root" /\ TypeOK /\ LoopInv /\ AssertsHold(ROOT, Loaded(ROOT))
  BY DEF RecoverRoot, IInv, LoopInv, AssertsHold, Untouched
<1>2. /\ shares' = [shares EXCEPT ![ROOT] = Completed(ROOT, Loaded(ROOT))]
      /\ phase' = IF DigestFits(ROOT, Loaded(ROOT)) THEN "decrypt" ELSE "fatal"
      /\ UNCHANGED <<header, threshold, available, plaintext, refused>>
  BY <1>1 DEF RecoverRoot
<1>3. /\ shares'[ROOT] = Completed(ROOT, Loaded(ROOT))
      /\ \A g \in Index : shares'[g] = shares[g]
  BY <1>1, <1>2, SetsFacts DEF TypeOK
<1>4. CASE ~DigestFits(ROOT, Loaded(ROOT))
  BY <1>1, <1>2, <1>4, RootFacts, GivingUp DEF C!Next
<1>5. CASE DigestFits(ROOT, Loaded(ROOT))
  <2>1. phase' = "decrypt"
    BY <1>2, <1>5
  <2>2. \A g \in Index : Loaded(g)' = Loaded(g)
    BY <1>3 DEF Loaded
  <2>3. AcceptedShares' = AcceptedShares
    BY <1>1, <1>2, <1>3, <2>1, <2>2, AcceptedUnchanged
  <2>4. Loaded(ROOT)' = Loaded(ROOT)
    BY <1>3, CompletedDomain DEF Loaded
  <2>5. \A k \in Loaded(ROOT) : shares'[ROOT][k] = shares[ROOT][k]
    <3>1. Untouched(ROOT)
      BY <1>1 DEF LoopInv
    <3> QED BY <1>3, <3>1, CompletedKeeps DEF Loaded
  <2>6. \A g \in Loaded(ROOT)' : Recovered(g)'
    <3> TAKE g \in Loaded(ROOT)'
    <3>1. g \in Index /\ g \in Loaded(ROOT) /\ Recovered(g)
      BY <1>1, <2>4 DEF Loaded, CombineInv
    <3> QED BY <1>2, <1>3, <2>2, <2>5, <3>1, RecoveredKept
  <2>7. Loaded(ROOT)' = UsedGroups /\ UsedGroups' = UsedGroups
    BY <1>1, <1>2, <2>4 DEF CombineInv, UsedGroups, Complete, Quorum
  <2>8. RootRecovered'
    <3>1. PICK used : used = Loaded(ROOT)
      OBVIOUS
    <3>2. used # {} /\ used = Loaded(ROOT)'
      <4>1. Cardinality(Loaded(ROOT)) = threshold[ROOT] /\ Quorum(ROOT)
        BY <1>1 DEF LoopInv
      <4> QED BY <2>4, <3>1, <4>1, FS_EmptySet DEF Quorum
    <3>3. shares'[ROOT][SecretX] = SecretOf(ROOT, used)
      BY <1>3, <3>1 DEF Completed, Put
    <3>4. SecretOf(ROOT, used)' = SecretOf(ROOT, used)
          /\ (DigestFits(ROOT, used)' <=> DigestFits(ROOT, used))
      BY <1>2, <2>5, <3>1, <3>2, ValueKept
    <3> QED BY <1>5, <3>1, <3>2, <3>3, <3>4 DEF RootRecovered
  <2>9. CombineInv'
    <3>1. n' = n
      BY <1>2 DEF header
    <3> QED BY <1>1, <1>2, <2>1, <2>2, <2>6, <2>7, <2>8, <3>1 DEF CombineInv
  <2> QED BY <1>1, <1>2, <2>1, <2>3, <2>9, ClosedStutters
<1> QED BY <1>4, <1>5

LEMMA DecryptSecretCombines ==
  ASSUME IInv, CombineInv, DecryptSecret
  PROVE  CombineInv' /\ [C!Next]_(C!vars)
<1>1. /\ phase = "decrypt" /\ phase' = "done" /\ UNCHANGED <<header, store, refused, n, threshold>>
      /\ plaintext' = Decrypt(id, e, shares[ROOT][SecretX])
  BY DEF DecryptSecret, IInv, LoopInv, header, store
<1>2. AcceptedShares' = AcceptedShares /\ \A s : Loaded(s)' = Loaded(s)
  BY <1>1, StoreUnchanged
<1>3. /\ RootRecovered /\ C!RootPoints = Points(ROOT, Loaded(ROOT))
      /\ C!Genuine /\ C!Enough /\ C!HeaderOf = TheHeader
  BY <1>1, RootFacts DEF CombineInv, RootRecovered
<1>4. TheHeader.id = id /\ TheHeader.e = e /\ TheHeader.GT = threshold[ROOT]
  BY DEF TheHeader
<1>5. C!SecretOf(C!RootPoints, C!HeaderOf.GT) = shares[ROOT][SecretX]
  BY <1>3, <1>4, ValueFacts DEF RootRecovered
<1>6. plaintext' = C!MasterSecret
  BY <1>1, <1>3, <1>4, <1>5 DEF C!MasterSecret
<1>7. Verdict = "closed" /\ Verdict' = "recovered"
  BY <1>1 DEF Verdict
<1>8. C!Conclude
  <2>1. AcceptedShares' = AcceptedShares /\ refused' = refused
    BY <1>1, <1>2
  <2>2. C!Enough /\ C!Genuine
    BY <1>3
  <2>3. plaintext' = C!MasterSecret /\ Verdict = "closed" /\ Verdict' = "recovered"
    BY <1>6, <1>7
  <2> QED BY ONLY <2>1, <2>2, <2>3 DEF C!Conclude
<1>9. CombineInv'
  BY <1>1, <1>2 DEF CombineInv
<1> QED BY <1>8, <1>9 DEF C!Next
------------------------------------------------------------------------------
LEMMA StutterCombines ==
  ASSUME CombineInv, UNCHANGED vars
  PROVE  CombineInv' /\ UNCHANGED C!vars
<1>1. UNCHANGED <<n, id, e, count, threshold, available, shares, i, j, idx,
                  plaintext, phase, refused>>
  BY DEF vars, header, store, loop
<1>2. \A s : Loaded(s)' = Loaded(s) /\ (Quorum(s)' <=> Quorum(s))
  BY <1>1 DEF Loaded, Quorum
<1>3. CombineInv'
  <2>1. /\ \A g : UsedShares(g)' = UsedShares(g) /\ UsedGroups' = UsedGroups
        /\ \A s, used : SecretOf(s, used)' = SecretOf(s, used)
        /\ \A s, used : DigestFits(s, used)' <=> DigestFits(s, used)
    BY <1>1, <1>2 DEF UsedShares, UsedGroups, Complete, SecretOf, DigestFits, Points
  <2>2. (RootRecovered' <=> RootRecovered) /\ \A g : Recovered(g)' <=> Recovered(g)
    BY <1>1, <1>2, <2>1 DEF Recovered, RootRecovered
  <2> QED BY <1>1, <1>2, <2>1, <2>2 DEF CombineInv
<1>4. AcceptedShares' = AcceptedShares /\ Verdict' = Verdict
  BY <1>1 DEF AcceptedShares, Verdict
<1> QED BY <1>1, <1>3, <1>4 DEF C!vars

LEMMA InitCombines == Init => CombineInv /\ C!Init
<1> SUFFICES ASSUME Init PROVE CombineInv /\ C!Init
  OBVIOUS
<1>1. n = 0 /\ \A s \in Sets : threshold[s] = 0 /\ Loaded(s) = {}
  BY DEF Init, Loaded
<1>2. AcceptedShares = {}
  <2>1. phase # "fatal" /\ \A g \in Index : Loaded(g) = {}
    BY <1>1, SetsFacts DEF Init
  <2> QED BY <2>1, AcceptedFacts
<1>3. Verdict = "open" /\ refused = NoLine /\ plaintext = NoSecret /\ phase = "mnemonics"
  BY DEF Init, Verdict
<1>4. CombineInv
  BY <1>1, <1>3, SetsFacts DEF CombineInv
<1> QED BY <1>2, <1>3, <1>4 DEF C!Init

LEMMA StepCombines ==
  IInv /\ CombineInv /\ [Next]_vars => CombineInv' /\ [C!Next]_(C!vars)
<1> SUFFICES ASSUME IInv, CombineInv, [Next]_vars
             PROVE  CombineInv' /\ [C!Next]_(C!vars)
  OBVIOUS
<1>1. ASSUME NEW l \in Lines, AddMnemonic(l)
      PROVE  CombineInv' /\ [C!Next]_(C!vars)
  BY <1>1, AddMnemonicCombines
<1>2. CASE EndOfInput
  BY <1>2, EndOfInputCombines
<1>3. CASE Compute
  BY <1>3, CheckQuorumCombines, SkipGroupCombines, EnterGroupCombines, TakeShareCombines,
     RecoverGroupCombines, RecoverRootCombines, DecryptSecretCombines DEF Compute
<1>4. CASE Exited \/ UNCHANGED vars
  BY <1>4, StutterCombines DEF Exited
<1> QED BY <1>1, <1>2, <1>3, <1>4 DEF Next

(* Recover implements Combine, but for the promise to come to an end:      *)
(* every step of the program is one of Combine or changes nothing that     *)
(* Combine has, for any lines, thresholds and number of shares.            *)
THEOREM Combines == Spec => C!Init /\ [][C!Next]_(C!vars)
<1>1. Init => CombineInv /\ C!Init
  BY InitCombines
<1>2. IInv /\ CombineInv /\ [Next]_vars => CombineInv' /\ [C!Next]_(C!vars)
  BY StepCombines
<1> QED BY <1>1, <1>2, Invariant, PTL DEF Spec
===============================================================================
