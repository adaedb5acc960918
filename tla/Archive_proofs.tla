----------------------------- MODULE Archive_proofs -----------------------------
(***************************************************************************)
(* Lemmas about archives of any size and any content, and theirs only: what*)
(* merging does, what is behind a record, and what the program makes of a  *)
(* proof built from it.  Whoever keeps archives, or plans with one, relies *)
(* on them.                                                                *)
(***************************************************************************)
EXTENDS Archive, FiniteSetTheorems, TLAPS

(***************************************************************************)
(* Merging, unfolded.                                                      *)
(***************************************************************************)
LEMMA MergingUnfolds ==
    ASSUME NEW archives, NEW g,
           g = [k \in DOMAIN archives |->
                   IF k = 1 THEN archives[1] ELSE Merged(g[k - 1], archives[k])]
    PROVE  Merging(archives) =
              [k \in DOMAIN archives |->
                  IF k = 1 THEN archives[1]
                  ELSE Merged(Merging(archives)[k - 1], archives[k])]
<1> DEFINE F(f) == [k \in DOMAIN archives |->
                      IF k = 1 THEN archives[1] ELSE Merged(f[k - 1], archives[k])]
           h == CHOOSE f : f = F(f)
<1>1. h = F(h)
  <2> HIDE DEF F
  <2>1. g = F(g)
    BY DEF F
  <2> QED
    BY <2>1
<1>2. Merging(archives) = h
  BY DEF Merging
<1> QED
  BY <1>1, <1>2

LEMMA MergeOfTwo ==
    ASSUME NEW A, NEW B
    PROVE  /\ Merging(<<A, B>>)[1] = A
           /\ MergeOf(<<A, B>>) = Merged(A, B)
<1> DEFINE s == <<A, B>>
           g == [k \in 1..2 |-> IF k = 1 THEN A ELSE Merged(A, B)]
<1>1. DOMAIN s = 1..2 /\ Len(s) = 2 /\ s[1] = A /\ s[2] = B
  OBVIOUS
<1>2. g = [k \in DOMAIN s |-> IF k = 1 THEN s[1] ELSE Merged(g[k - 1], s[k])]
  <2>1. g[1] = A
    OBVIOUS
  <2> QED
    BY <1>1, <2>1
<1> HIDE DEF g, s
<1>3. Merging(s) = [k \in DOMAIN s |->
                      IF k = 1 THEN s[1] ELSE Merged(Merging(s)[k - 1], s[k])]
  BY <1>2, MergingUnfolds
<1>4. Merging(s)[1] = A
  BY <1>1, <1>3
<1>5. Merging(s)[2] = Merged(A, B)
  BY <1>1, <1>3, <1>4
<1> QED
  BY <1>1, <1>4, <1>5 DEF MergeOf, s

LEMMA MergeOfThree ==
    ASSUME NEW A, NEW B, NEW C
    PROVE  /\ Merging(<<A, B, C>>)[1] = A
           /\ Merging(<<A, B, C>>)[2] = Merged(A, B)
           /\ MergeOf(<<A, B, C>>) = Merged(Merged(A, B), C)
<1> DEFINE s == <<A, B, C>>
           AB == Merged(A, B)
           ABC == Merged(AB, C)
           g == [k \in 1..3 |-> IF k = 1 THEN A ELSE IF k = 2 THEN AB ELSE ABC]
<1>1. DOMAIN s = 1..3 /\ Len(s) = 3 /\ s[1] = A /\ s[2] = B /\ s[3] = C
  OBVIOUS
<1>2. g = [k \in DOMAIN s |-> IF k = 1 THEN s[1] ELSE Merged(g[k - 1], s[k])]
  <2>1. g[1] = A /\ g[2] = AB
    OBVIOUS
  <2> QED
    BY <1>1, <2>1
<1> HIDE DEF g, s
<1>3. Merging(s) = [k \in DOMAIN s |->
                      IF k = 1 THEN s[1] ELSE Merged(Merging(s)[k - 1], s[k])]
  BY <1>2, MergingUnfolds
<1>4. Merging(s)[1] = A
  BY <1>1, <1>3
<1>5. Merging(s)[2] = AB
  BY <1>1, <1>3, <1>4
<1>6. Merging(s)[3] = ABC
  BY <1>1, <1>3, <1>5
<1> QED
  BY <1>1, <1>4, <1>5, <1>6 DEF MergeOf, s

\* When two archives, and three, can be merged.
LEMMA CanMergeTwo ==
    ASSUME NEW A, NEW B
    PROVE  CanMerge(<<A, B>>) <=>
              Valid(A) /\ Valid(B) /\ Joinable(A, B) /\ Valid(Merged(A, B))
<1> DEFINE s == <<A, B>>
<1>1. DOMAIN s = 1..2 /\ s[1] = A /\ s[2] = B
  OBVIOUS
<1>2. Merging(s)[1] = A /\ MergeOf(s) = Merged(A, B)
  BY MergeOfTwo
<1> HIDE DEF s
<1> QED
  BY <1>1, <1>2 DEF CanMerge, s

LEMMA CanMergeThree ==
    ASSUME NEW A, NEW B, NEW C
    PROVE  CanMerge(<<A, B, C>>) <=>
              /\ Valid(A) /\ Valid(B) /\ Valid(C)
              /\ Joinable(A, B) /\ Joinable(Merged(A, B), C)
              /\ Valid(Merged(Merged(A, B), C))
<1> DEFINE s == <<A, B, C>>
<1>1. DOMAIN s = 1..3 /\ s[1] = A /\ s[2] = B /\ s[3] = C
  OBVIOUS
<1>2. Merging(s)[1] = A /\ Merging(s)[2] = Merged(A, B)
      /\ MergeOf(s) = Merged(Merged(A, B), C)
  BY MergeOfThree
<1>3. CanMerge(s) <=>
        /\ \A k \in 1..3 : Valid(s[k])
        /\ \A k \in 2..3 : Joinable(Merging(s)[k - 1], s[k])
        /\ Valid(MergeOf(s))
  BY <1>1 DEF CanMerge
<1> HIDE DEF s
<1>4. (\A k \in 2..3 : Joinable(Merging(s)[k - 1], s[k])) <=>
        Joinable(A, B) /\ Joinable(Merged(A, B), C)
  BY <1>1, <1>2
<1> QED
  BY <1>1, <1>2, <1>3, <1>4 DEF s

(***************************************************************************)
(* Nodes and archives as the code decodes them, and what joining keeps.    *)
(***************************************************************************)
WellShaped(A) ==
    /\ IsFiniteSet(DOMAIN A)
    /\ A = [i \in DOMAIN A |-> A[i]]
    /\ \A i \in DOMAIN A : NodeShaped(A[i])

LEMMA SameNodes ==
    ASSUME NEW n, NEW q, NodeShaped(n), NodeShaped(q), Same(n, q), n.witness = q.witness
    PROVE  n = q
<1>1. n.hash = q.hash /\ n.source = q.source /\ n.created_at = q.created_at
  BY DEF Same, SnapshotOf
<1>2. n = [hash |-> n.hash, source |-> n.source, created_at |-> n.created_at,
           witness |-> n.witness]
  BY DEF NodeShaped
<1>3. q = [hash |-> q.hash, source |-> q.source, created_at |-> q.created_at,
           witness |-> q.witness]
  BY DEF NodeShaped
<1> QED
  BY <1>1, <1>2, <1>3

LEMMA JoinedCommutes ==
    ASSUME NEW n, NEW q, NodeShaped(n), NodeShaped(q), Compatible(n, q)
    PROVE  Joined(n, q) = Joined(q, n)
<1>1. CASE n.witness = Unknown /\ q.witness # Unknown
  BY <1>1 DEF Joined
<1>2. CASE n.witness # Unknown /\ q.witness = Unknown
  BY <1>2 DEF Joined
<1>3. CASE n.witness = q.witness
  BY <1>3, SameNodes DEF Joined, Compatible
<1> QED
  BY <1>1, <1>2, <1>3 DEF Compatible

LEMMA MergedAt ==
    ASSUME NEW A, NEW B
    PROVE  /\ DOMAIN Merged(A, B) = DOMAIN A \cup DOMAIN B
           /\ Merged(A, B) = [i \in DOMAIN A \cup DOMAIN B |-> Merged(A, B)[i]]
BY DEF Merged

LEMMA JoinableCommutes == \A A, B : Joinable(A, B) => Joinable(B, A)
BY DEF Joinable, Compatible, Same

LEMMA MergedCommutes ==
    ASSUME NEW A, NEW B, WellShaped(A), WellShaped(B), Joinable(A, B)
    PROVE  Merged(A, B) = Merged(B, A)
<1>1. ASSUME NEW i \in DOMAIN A \cup DOMAIN B PROVE Merged(A, B)[i] = Merged(B, A)[i]
  <2>1. CASE i \in DOMAIN A \cap DOMAIN B
    <3>1. Joined(A[i], B[i]) = Joined(B[i], A[i])
      BY <2>1, JoinedCommutes DEF WellShaped, Joinable
    <3> QED
      BY <2>1, <3>1 DEF Merged
  <2>2. CASE i \in DOMAIN A \ DOMAIN B
    BY <2>2 DEF Merged
  <2>3. CASE i \in DOMAIN B \ DOMAIN A
    BY <2>3 DEF Merged
  <2> QED
    BY <2>1, <2>2, <2>3
<1>2. DOMAIN A \cup DOMAIN B = DOMAIN B \cup DOMAIN A
  OBVIOUS
<1>3. /\ Merged(A, B) = [i \in DOMAIN A \cup DOMAIN B |-> Merged(A, B)[i]]
      /\ Merged(B, A) = [i \in DOMAIN B \cup DOMAIN A |-> Merged(B, A)[i]]
  BY MergedAt
<1> QED
  BY <1>1, <1>2, <1>3

LEMMA MergedAssociates ==
    ASSUME NEW A, NEW B, NEW C
    PROVE  Merged(Merged(A, B), C) = Merged(A, Merged(B, C))
<1> DEFINE L == Merged(Merged(A, B), C)
           R == Merged(A, Merged(B, C))
           D == DOMAIN A \cup DOMAIN B \cup DOMAIN C
<1>1. L = [i \in D |-> L[i]] /\ R = [i \in D |-> R[i]]
  <2>1. /\ DOMAIN Merged(A, B) \cup DOMAIN C = D
        /\ DOMAIN A \cup DOMAIN Merged(B, C) = D
    BY DEF Merged
  <2>2. /\ L = [i \in DOMAIN Merged(A, B) \cup DOMAIN C |-> L[i]]
        /\ R = [i \in DOMAIN A \cup DOMAIN Merged(B, C) |-> R[i]]
    BY MergedAt
  <2> HIDE DEF L, R
  <2> QED
    BY <2>1, <2>2
<1>2. ASSUME NEW i \in D PROVE L[i] = R[i]
  BY <1>2 DEF Merged, Joined
<1> HIDE DEF L, R
<1>3. L = R
  BY <1>1, <1>2
<1> QED
  BY <1>3 DEF L, R

LEMMA JoinableWithBoth ==
    ASSUME NEW A, NEW B, NEW C, Joinable(A, B)
    PROVE  Joinable(Merged(A, B), C) <=> Joinable(A, C) /\ Joinable(B, C)
<1>1. ASSUME NEW i \in DOMAIN A \cap DOMAIN B \cap DOMAIN C
      PROVE  Compatible(Merged(A, B)[i], C[i]) <=>
                Compatible(A[i], C[i]) /\ Compatible(B[i], C[i])
  <2>1. Merged(A, B)[i] = Joined(A[i], B[i]) /\ Compatible(A[i], B[i])
    BY DEF Joinable, Merged
  <2> QED
    BY <2>1 DEF Compatible, Same, Joined
<1>2. DOMAIN Merged(A, B) = DOMAIN A \cup DOMAIN B
  BY DEF Merged
<1>3. /\ \A i \in DOMAIN A \ DOMAIN B : Merged(A, B)[i] = A[i]
      /\ \A i \in DOMAIN B \ DOMAIN A : Merged(A, B)[i] = B[i]
  BY DEF Merged
<1> QED
  BY <1>1, <1>2, <1>3 DEF Joinable

LEMMA MergedShaped ==
    ASSUME NEW A, NEW B, WellShaped(A), WellShaped(B)
    PROVE  WellShaped(Merged(A, B))
<1>1. IsFiniteSet(DOMAIN A \cup DOMAIN B)
  BY FS_Union DEF WellShaped
<1>2. ASSUME NEW i \in DOMAIN A \cup DOMAIN B PROVE NodeShaped(Merged(A, B)[i])
  BY DEF WellShaped, Merged, Joined
<1>3. /\ DOMAIN Merged(A, B) = DOMAIN A \cup DOMAIN B
      /\ Merged(A, B) = [i \in DOMAIN A \cup DOMAIN B |-> Merged(A, B)[i]]
  BY MergedAt
<1> QED
  BY <1>1, <1>2, <1>3 DEF WellShaped

(***************************************************************************)
(* A part of an archive, with some of its nodes and of their witnesses.    *)
(***************************************************************************)
PartOfNode(n, q) == Same(n, q) /\ (n.witness # Unknown => n.witness = q.witness)

PartOf(P, A) == DOMAIN P \subseteq DOMAIN A /\ \A i \in DOMAIN P : PartOfNode(P[i], A[i])

LEMMA PartDependencies ==
    ASSUME NEW n, NEW q, PartOfNode(n, q)
    PROVE  /\ n.hash = q.hash /\ n.source = q.source /\ n.created_at = q.created_at
           /\ Range(NodeDependencies(n)) \subseteq Range(NodeDependencies(q))
           /\ DependenciesKnown(n) =>
                 DependenciesKnown(q) /\ NodeDependencies(n) = NodeDependencies(q)
<1>1. n.hash = q.hash /\ n.source = q.source /\ n.created_at = q.created_at
  BY DEF PartOfNode, Same, SnapshotOf
<1>2. CASE n.source.kind = "Pack" /\ n.witness = Unknown
  <2>1. Range(NodeDependencies(n)) = {}
    BY <1>2 DEF NodeDependencies, Range, Unknown
  <2> QED
    BY <1>1, <1>2, <2>1 DEF DependenciesKnown
<1>3. CASE ~(n.source.kind = "Pack" /\ n.witness = Unknown)
  <2>1. NodeDependencies(n) = NodeDependencies(q)
    BY <1>1, <1>3 DEF NodeDependencies, PartOfNode
  <2> QED
    BY <1>1, <1>3, <2>1 DEF DependenciesKnown, PartOfNode
<1> QED
  BY <1>2, <1>3

LEMMA PartCommits ==
    ASSUME NEW P, NEW A, PartOf(P, A), Commitments(A)
    PROVE  Commitments(P)
<1> SUFFICES ASSUME NEW i \in DOMAIN P
             PROVE  SnapshotHolds(P[i]) /\ ParentHolds(P, P[i]) /\ MembersHold(P, P[i])
  BY DEF Commitments
<1>1. /\ i \in DOMAIN A /\ SnapshotHolds(A[i]) /\ ParentHolds(A, A[i]) /\ MembersHold(A, A[i])
      /\ PartOfNode(P[i], A[i])
  BY DEF Commitments, PartOf
<1>2. /\ P[i].hash = A[i].hash /\ P[i].source = A[i].source
      /\ Range(NodeDependencies(P[i])) \subseteq Range(NodeDependencies(A[i]))
      /\ DependenciesKnown(P[i]) =>
            DependenciesKnown(A[i]) /\ NodeDependencies(P[i]) = NodeDependencies(A[i])
  BY <1>1, PartDependencies
<1>3. ASSUME NEW j \in DOMAIN P
      PROVE  /\ P[j].hash = A[j].hash /\ P[j].source = A[j].source
             /\ P[j].created_at = A[j].created_at /\ j \in DOMAIN A
  BY PartDependencies DEF PartOf
<1>4. SnapshotHolds(P[i])
  BY <1>1, <1>2 DEF SnapshotHolds, PartOfNode
<1>5. ParentHolds(P, P[i])
  BY <1>1, <1>2, <1>3 DEF ParentHolds, NodeFingerprint, BranchHashOf, NodeId
<1>6. ASSUME P[i].source.kind \in {"Batch", "Pack"}, DependenciesKnown(P[i]),
             Range(NodeDependencies(P[i])) \subseteq DOMAIN P
      PROVE  P[i].hash = AggregateHashOf([k \in DOMAIN NodeDependencies(P[i]) |->
                                             P[NodeDependencies(P[i])[k]]])
  <2> DEFINE ids == NodeDependencies(P[i])
             mine == [k \in DOMAIN ids |-> P[ids[k]]]
             theirs == [k \in DOMAIN ids |-> A[ids[k]]]
  <2>1. ids = NodeDependencies(A[i]) /\ DependenciesKnown(A[i])
    BY <1>2, <1>6
  <2> HIDE DEF ids
  <2>2. \A k \in DOMAIN ids : ids[k] \in DOMAIN P
    BY <1>6 DEF Range, ids
  <2>3. Range(ids) \subseteq DOMAIN A
    BY <2>2, <1>3 DEF Range
  <2>4. A[i].hash = AggregateHashOf(theirs)
    BY <1>1, <1>2, <1>6, <2>1, <2>3 DEF MembersHold
  <2>5. \A k \in DOMAIN ids : AggregateMember(mine[k]) = AggregateMember(theirs[k])
    BY <2>2, <1>3 DEF AggregateMember
  <2>6. [k \in DOMAIN mine |-> AggregateMember(mine[k])] =
        [k \in DOMAIN theirs |-> AggregateMember(theirs[k])]
    BY <2>5
  <2>7. AggregateHashOf(mine) = AggregateHashOf(theirs)
    BY <2>6 DEF AggregateHashOf
  <2> QED
    BY <1>2, <2>4, <2>7 DEF ids
<1>7. MembersHold(P, P[i])
  BY <1>6 DEF MembersHold
<1> QED
  BY <1>4, <1>5, <1>7

\* A part of an archive is an archive.
LEMMA PartIsValid ==
    ASSUME NEW P, NEW A, PartOf(P, A), Valid(A), IsFiniteSet(DOMAIN A)
    PROVE  Valid(P)
<1>1. ASSUME NEW i \in DOMAIN P
      PROVE  /\ i \in DOMAIN A /\ PartOfNode(P[i], A[i])
             /\ P[i].hash = A[i].hash /\ P[i].source = A[i].source
             /\ P[i].created_at = A[i].created_at
             /\ Range(NodeDependencies(P[i])) \subseteq Range(NodeDependencies(A[i]))
  BY PartDependencies DEF PartOf
<1>2. Cardinality(DOMAIN P) <= NodeLimit
  <2>1. /\ Cardinality(DOMAIN P) <= Cardinality(DOMAIN A)
        /\ Cardinality(DOMAIN P) \in Nat /\ Cardinality(DOMAIN A) \in Nat
    BY FS_Subset, FS_CardinalityType DEF PartOf
  <2> QED
    BY <2>1, LimitsAssumption DEF Valid
<1>3. ASSUME NEW i \in DOMAIN P PROVE NodeId(P[i]) = i /\ NodeParses(P[i])
  BY <1>1 DEF Valid, NodeId, NodeParses, PartOfNode
<1>4. CycleFree(P)
  <2> SUFFICES ASSUME NEW S \in SUBSET DOMAIN P, S # {}
               PROVE  \E i \in S : Range(NodeDependencies(P[i])) \cap S = {}
    BY DEF CycleFree
  <2>1. S \in SUBSET DOMAIN A
    BY <1>1
  <2>2. PICK i \in S : Range(NodeDependencies(A[i])) \cap S = {}
    BY <2>1 DEF Valid, CycleFree
  <2>3. Range(NodeDependencies(P[i])) \subseteq Range(NodeDependencies(A[i]))
    BY <1>1
  <2> QED
    BY <2>2, <2>3
<1>5. Commitments(P)
  BY PartCommits DEF Valid
<1> QED
  BY <1>2, <1>3, <1>4, <1>5 DEF Valid

(***************************************************************************)
(* The order of a merge.                                                   *)
(***************************************************************************)
Pairwise(A, B, C) == Joinable(A, B) /\ Joinable(A, C) /\ Joinable(B, C)

\* What can be merged, and into what, said without an order.
LEMMA MergeThree ==
    ASSUME NEW A, NEW B, NEW C
    PROVE  /\ CanMerge(<<A, B, C>>) <=>
                 /\ Valid(A) /\ Valid(B) /\ Valid(C) /\ Pairwise(A, B, C)
                 /\ Valid(Merged(Merged(A, B), C))
           /\ MergeOf(<<A, B, C>>) = Merged(Merged(A, B), C)
BY CanMergeThree, MergeOfThree, JoinableWithBoth DEF Pairwise

LEMMA LastComesFirst ==
    ASSUME NEW A, NEW B, NEW C, WellShaped(A), WellShaped(B), WellShaped(C),
           Pairwise(A, B, C)
    PROVE  Merged(Merged(B, C), A) = Merged(Merged(A, B), C)
<1>1. Joinable(B, A) /\ Joinable(C, A)
  BY JoinableCommutes DEF Pairwise
<1>2. Joinable(Merged(B, C), A)
  BY <1>1, JoinableWithBoth DEF Pairwise
<1>3. Merged(Merged(B, C), A) = Merged(A, Merged(B, C))
  BY <1>2, MergedShaped, MergedCommutes
<1> QED
  BY <1>3, MergedAssociates

LEMMA MergeThreeInAnyOrder ==
    ASSUME NEW A, NEW B, NEW C, WellShaped(A), WellShaped(B), WellShaped(C)
    PROVE  /\ MergeArchives(<<A, B, C>>) = MergeArchives(<<C, B, A>>)
           /\ MergeArchives(<<A, B, C>>) = MergeArchives(<<B, C, A>>)
<1>1. /\ Pairwise(A, B, C) <=> Pairwise(C, B, A)
      /\ Pairwise(A, B, C) <=> Pairwise(B, C, A)
  BY JoinableCommutes DEF Pairwise
<1>2. ASSUME Pairwise(A, B, C)
      PROVE  /\ Merged(Merged(B, C), A) = Merged(Merged(A, B), C)
             /\ Merged(Merged(C, B), A) = Merged(Merged(A, B), C)
  <2>1. Merged(Merged(B, C), A) = Merged(Merged(A, B), C)
    BY <1>2, LastComesFirst
  <2>2. Merged(C, B) = Merged(B, C)
    BY <1>2, MergedCommutes DEF Pairwise
  <2> QED
    BY <2>1, <2>2
<1>3. /\ CanMerge(<<A, B, C>>) <=> CanMerge(<<C, B, A>>)
      /\ CanMerge(<<A, B, C>>) <=> CanMerge(<<B, C, A>>)
  BY <1>1, <1>2, MergeThree
<1>4. CanMerge(<<A, B, C>>) => /\ MergeOf(<<A, B, C>>) = MergeOf(<<C, B, A>>)
                               /\ MergeOf(<<A, B, C>>) = MergeOf(<<B, C, A>>)
  BY <1>2, MergeThree
<1> QED
  BY <1>3, <1>4 DEF MergeArchives

LEMMA FirstIsPart ==
    ASSUME NEW A, NEW B, Joinable(A, B)
    PROVE  PartOf(A, Merged(A, B))
BY DEF PartOf, PartOfNode, Merged, Joined, Joinable, Compatible, Same

\* Merging two and then the third is merging three: what two of them merge
\* into is an archive whenever all three do.
LEMMA MergePairByPair ==
    ASSUME NEW A, NEW B, NEW C, WellShaped(A), WellShaped(B), WellShaped(C)
    PROVE  MergeArchives(<<A, B, C>>) =
              IF CanMerge(<<A, B>>) THEN MergeArchives(<<MergeOf(<<A, B>>), C>>)
              ELSE Thrown
<1> DEFINE AB == Merged(A, B)
           ABC == Merged(AB, C)
<1>1. /\ CanMerge(<<A, B, C>>) <=>
            /\ Valid(A) /\ Valid(B) /\ Valid(C)
            /\ Joinable(A, B) /\ Joinable(AB, C) /\ Valid(ABC)
      /\ MergeOf(<<A, B, C>>) = ABC
  BY CanMergeThree, MergeOfThree
<1>2. /\ CanMerge(<<A, B>>) <=> Valid(A) /\ Valid(B) /\ Joinable(A, B) /\ Valid(AB)
      /\ MergeOf(<<A, B>>) = AB
  BY CanMergeTwo, MergeOfTwo
<1>3. /\ CanMerge(<<AB, C>>) <=> Valid(AB) /\ Valid(C) /\ Joinable(AB, C) /\ Valid(ABC)
      /\ MergeOf(<<AB, C>>) = ABC
  BY CanMergeTwo, MergeOfTwo
<1>4. Joinable(AB, C) /\ Valid(ABC) => Valid(AB)
  <2> HAVE Joinable(AB, C) /\ Valid(ABC)
  <2>1. PartOf(AB, ABC)
    BY FirstIsPart
  <2>2. IsFiniteSet(DOMAIN ABC)
    BY MergedShaped DEF WellShaped
  <2> HIDE DEF AB, ABC
  <2> QED
    BY <2>1, <2>2, PartIsValid
<1> HIDE DEF AB, ABC
<1>5. CanMerge(<<A, B, C>>) <=> CanMerge(<<A, B>>) /\ CanMerge(<<AB, C>>)
  BY <1>1, <1>2, <1>3, <1>4
<1> QED
  BY <1>1, <1>2, <1>3, <1>5 DEF MergeArchives

(***************************************************************************)
(* Behind is the least set that has the roots and is closed.               *)
(***************************************************************************)
LEMMA BehindIsClosed ==
    ASSUME NEW A, NEW roots
    PROVE  /\ roots \subseteq Behind(A, roots)
           /\ \A j \in Behind(A, roots) \cap DOMAIN A :
                 Range(NodeDependencies(A[j])) \subseteq Behind(A, roots)
<1>1. roots \subseteq Behind(A, roots)
  BY DEF Behind
<1>2. ASSUME NEW j \in Behind(A, roots) \cap DOMAIN A,
             NEW d \in Range(NodeDependencies(A[j]))
      PROVE  d \in Behind(A, roots)
  <2>1. d \in roots \cup Mentioned(A)
    BY DEF Mentioned
  <2>2. ASSUME NEW S \in SUBSET (roots \cup Mentioned(A)), roots \subseteq S,
               \A k \in S \cap DOMAIN A : Range(NodeDependencies(A[k])) \subseteq S
        PROVE  d \in S
    BY <2>2 DEF Behind
  <2> QED
    BY <2>1, <2>2 DEF Behind
<1> QED
  BY <1>1, <1>2

LEMMA BehindIsLeast ==
    ASSUME NEW A, NEW roots, NEW S, roots \subseteq S,
           \A j \in S \cap DOMAIN A : Range(NodeDependencies(A[j])) \subseteq S
    PROVE  Behind(A, roots) \subseteq S
<1> DEFINE M == roots \cup Mentioned(A)
           T == S \cap M
<1>1. T \in SUBSET M /\ roots \subseteq T
  OBVIOUS
<1>2. \A j \in T \cap DOMAIN A : Range(NodeDependencies(A[j])) \subseteq T
  BY DEF Mentioned
<1>3. Behind(A, roots) \subseteq T
  BY <1>1, <1>2 DEF Behind
<1> QED
  BY <1>3

(***************************************************************************)
(* A selection with dependencies.                                          *)
(***************************************************************************)
LEMMA MergeBackIntoWhole ==
    ASSUME NEW A, WellShaped(A), Valid(A), NEW D \in SUBSET DOMAIN A
    PROVE  LET part == [i \in D |-> A[i]] IN
           Valid(part) /\ MergeArchives(<<part, A>>) = <<A>>
<1> DEFINE part == [i \in D |-> A[i]]
<1>1. PartOf(part, A)
  BY DEF PartOf, PartOfNode, Same
<1>2. Valid(part)
  BY <1>1, PartIsValid DEF WellShaped
<1>3. Joinable(part, A)
  BY DEF Joinable, Compatible, Same
<1>4. Merged(part, A) = A
  <2>1. DOMAIN part \cup DOMAIN A = DOMAIN A
    OBVIOUS
  <2>2. \A i \in DOMAIN A : Merged(part, A)[i] = A[i]
    BY DEF Merged, Joined
  <2>3. Merged(part, A) = [i \in DOMAIN A |-> Merged(part, A)[i]]
    BY <2>1, MergedAt
  <2> HIDE DEF part
  <2> QED
    BY <2>2, <2>3 DEF WellShaped
<1> HIDE DEF part
<1>5. CanMerge(<<part, A>>) /\ MergeOf(<<part, A>>) = A
  BY <1>2, <1>3, <1>4, CanMergeTwo, MergeOfTwo
<1>6. MergeArchives(<<part, A>>) = <<A>>
  BY <1>5 DEF MergeArchives
<1> QED
  BY <1>2, <1>6 DEF part

LEMMA SelectionIsEnough ==
    ASSUME NEW A, WellShaped(A), Valid(A), NEW ids \in SUBSET DOMAIN A, CanOrder(A, ids)
    PROVE  LET part == Selection(A, ids, TRUE) IN
           /\ CanSelect(A, ids, TRUE)
           /\ MissingNodes(part) = {}
           /\ MergeArchives(<<part, A>>) = <<A>>
<1> DEFINE D == Behind(A, ids)
           part == [i \in D |-> A[i]]
<1>1. D \in SUBSET DOMAIN A
  BY DEF CanOrder
<1>2. Selection(A, ids, TRUE) = part
  BY DEF Selection, SelectionIds
<1>3. Valid(part) /\ MergeArchives(<<part, A>>) = <<A>>
  BY <1>1, MergeBackIntoWhole
<1>4. CanSelect(A, ids, TRUE)
  BY <1>2, <1>3 DEF CanSelect
<1>5. MissingNodes(part) = {}
  <2>1. \A j \in D : Range(NodeDependencies(A[j])) \subseteq D
    BY <1>1, BehindIsClosed
  <2> HIDE DEF D
  <2> QED
    BY <2>1 DEF MissingNodes, Mentioned
<1> HIDE DEF part
<1> QED
  BY <1>2, <1>3, <1>4, <1>5

(***************************************************************************)
(* One history.  Rooted says that an archive has all that node i derives   *)
(* from, and that the commitments of i hold; Provable that nothing a       *)
(* commitment of i is about is missing at all.                             *)
(***************************************************************************)
Rooted(A, i) ==
    /\ i \in DOMAIN A /\ NodeShaped(A[i]) /\ DependenciesKnown(A[i])
    /\ Range(NodeDependencies(A[i])) \subseteq DOMAIN A
    /\ SnapshotHolds(A[i]) /\ ParentHolds(A, A[i]) /\ MembersHold(A, A[i])
    /\ NodeId(A[i]) = i /\ NodeParses(A[i])
    /\ \A d \in Range(NodeDependencies(A[i])) : NodeId(A[d]) = d /\ NodeParses(A[d])

Provable(A, i) ==
    Rooted(A, i) /\ (A[i].source.kind = "Account" => A[i].witness # Unknown)

\* What a digest of fingerprints says of a node.
SameMember(n, q) ==
    n.hash = q.hash /\ n.source.kind = q.source.kind /\ n.created_at = q.created_at

LEMMA IdCommits ==
    ASSUME NEW n, NEW q, NodeId(n) = NodeId(q)
    PROVE  n.hash = q.hash /\ n.source.kind = q.source.kind
<1>1. NodeId(n)[2] = n.hash /\ NodeId(n)[3] = n.source.kind
  BY DEF NodeId, CanonicalHashId
<1>2. NodeId(q)[2] = q.hash /\ NodeId(q)[3] = q.source.kind
  BY DEF NodeId, CanonicalHashId
<1> QED
  BY <1>1, <1>2

LEMMA BranchCommits ==
    ASSUME NEW A, NEW i, Rooted(A, i), A[i].source.kind = "Branch"
    PROVE  LET q == A[i].source.previous IN
           /\ q \in DOMAIN A /\ Range(NodeDependencies(A[i])) = {q}
           /\ NodeId(A[q]) = q
           /\ A[i].source.generation = GenerationFromSource(A[q].source) + 1
           /\ A[i].hash = <<"branch", q, A[q].source.kind, A[q].created_at,
                            GenerationFromSource(A[q].source), A[i].source.payload>>
<1> DEFINE q == A[i].source.previous
<1>1. Range(NodeDependencies(A[i])) = {q}
  BY DEF Rooted, NodeDependencies, Range
<1>2. q \in DOMAIN A /\ NodeId(A[q]) = q
  BY <1>1 DEF Rooted
<1>3. /\ A[i].source.generation = NodeFingerprint(A[q]).generation + 1
      /\ A[i].hash = BranchHashOf(A[q], A[i].source.payload)
  BY <1>2 DEF Rooted, ParentHolds
<1> QED
  BY <1>1, <1>2, <1>3 DEF NodeFingerprint, BranchHashOf, DeriveBranchHash

LEMMA MembersCommit ==
    ASSUME NEW A, NEW i, Rooted(A, i), A[i].source.kind \in {"Batch", "Pack"}
    PROVE  LET ids == NodeDependencies(A[i]) IN
           /\ A[i].hash = <<"members", [k \in DOMAIN ids |-> AggregateMember(A[ids[k]])]>>
           /\ \A k \in DOMAIN ids : ids[k] \in DOMAIN A /\ NodeId(A[ids[k]]) = ids[k]
<1> DEFINE ids == NodeDependencies(A[i])
           nodes == [k \in DOMAIN ids |-> A[ids[k]]]
<1>1. A[i].hash = AggregateHashOf(nodes)
  BY DEF Rooted, MembersHold
<1>2. \A k \in DOMAIN ids : ids[k] \in Range(ids)
  BY DEF Range
<1>3. \A k \in DOMAIN ids : ids[k] \in DOMAIN A /\ NodeId(A[ids[k]]) = ids[k]
  BY <1>2 DEF Rooted
<1> HIDE DEF ids
<1>4. [k \in DOMAIN nodes |-> AggregateMember(nodes[k])] =
      [k \in DOMAIN ids |-> AggregateMember(A[ids[k]])]
  OBVIOUS
<1>5. A[i].hash = <<"members", [k \in DOMAIN ids |-> AggregateMember(A[ids[k]])]>>
  BY <1>1, <1>4 DEF AggregateHashOf, AggregateHashDigest
<1> QED
  BY <1>3, <1>5 DEF ids

\* Two archives in which one record has the same hash and time have the same
\* origins of it, in the same incarnations.
LEMMA SameOrigins ==
    ASSUME NEW A, NEW B, NEW i, Rooted(A, i), Rooted(B, i), Same(A[i], B[i])
    PROVE  /\ Range(NodeDependencies(A[i])) = Range(NodeDependencies(B[i]))
           /\ \A d \in Range(NodeDependencies(A[i])) : SameMember(A[d], B[d])
<1>1. A[i].hash = B[i].hash /\ A[i].source = B[i].source
  BY DEF Same, SnapshotOf
<1>2. A[i].source.kind \in Kinds
  BY DEF Rooted, NodeShaped, SourceShaped
<1>3. CASE A[i].source.kind \in {"Hash", "Account"}
  BY <1>1, <1>3 DEF NodeDependencies, Range
<1>4. CASE A[i].source.kind = "Branch"
  <2> DEFINE q == A[i].source.previous
  <2>1. /\ Range(NodeDependencies(A[i])) = {q} /\ NodeId(A[q]) = q
        /\ A[i].hash = <<"branch", q, A[q].source.kind, A[q].created_at,
                         GenerationFromSource(A[q].source), A[i].source.payload>>
    BY <1>4, BranchCommits
  <2>2. /\ Range(NodeDependencies(B[i])) = {q} /\ NodeId(B[q]) = q
        /\ B[i].hash = <<"branch", q, B[q].source.kind, B[q].created_at,
                         GenerationFromSource(B[q].source), B[i].source.payload>>
    <3>1. B[i].source.kind = "Branch" /\ q = B[i].source.previous
      BY <1>1, <1>4
    <3> HIDE DEF q
    <3> QED
      BY <3>1, BranchCommits
  <2> HIDE DEF q
  <2>3. A[q].created_at = B[q].created_at
    <3>1. A[i].hash[4] = A[q].created_at
      BY <2>1
    <3>2. B[i].hash[4] = B[q].created_at
      BY <2>2
    <3> QED
      BY <1>1, <3>1, <3>2
  <2>4. A[q].hash = B[q].hash /\ A[q].source.kind = B[q].source.kind
    <3>1. NodeId(A[q]) = NodeId(B[q])
      BY <2>1, <2>2
    <3> QED
      BY <3>1, IdCommits
  <2> QED
    BY <2>1, <2>2, <2>3, <2>4 DEF SameMember
<1>5. CASE A[i].source.kind \in {"Batch", "Pack"}
  <2> DEFINE ids == NodeDependencies(A[i])
             others == NodeDependencies(B[i])
             mine == [k \in DOMAIN ids |-> AggregateMember(A[ids[k]])]
             theirs == [k \in DOMAIN others |-> AggregateMember(B[others[k]])]
  <2>1. /\ A[i].hash = <<"members", mine>>
        /\ \A k \in DOMAIN ids : NodeId(A[ids[k]]) = ids[k]
    BY <1>5, MembersCommit
  <2>2. /\ B[i].hash = <<"members", theirs>>
        /\ \A k \in DOMAIN others : NodeId(B[others[k]]) = others[k]
    BY <1>1, <1>5, MembersCommit
  <2> HIDE DEF ids, others
  <2>3. mine = theirs
    <3>1. A[i].hash[2] = mine
      BY <2>1
    <3>2. B[i].hash[2] = theirs
      BY <2>2
    <3> QED
      BY <1>1, <3>1, <3>2
  <2>4. DOMAIN ids = DOMAIN others
    BY <2>3
  <2>5. ASSUME NEW k \in DOMAIN ids
        PROVE  ids[k] = others[k] /\ SameMember(A[ids[k]], B[others[k]])
    <3>1. AggregateMember(A[ids[k]]) = AggregateMember(B[others[k]])
      BY <2>3, <2>4
    <3>2. SameMember(A[ids[k]], B[others[k]])
      BY <3>1 DEF AggregateMember, SameMember
    <3> QED
      BY <2>1, <2>2, <2>4, <3>2 DEF SameMember, NodeId, CanonicalHashId
  <2>6. /\ Range(ids) = Range(others)
        /\ \A d \in Range(ids) : SameMember(A[d], B[d])
    BY <2>4, <2>5 DEF Range
  <2> QED
    BY <2>6 DEF ids, others
<1> QED
  BY <1>2, <1>3, <1>4, <1>5 DEF Kinds

\* What is behind a node of one hash, kind and time determines its source.
LEMMA SameSource ==
    ASSUME NEW A, NEW B, NEW i, Provable(A, i), Provable(B, i), SameMember(A[i], B[i])
    PROVE  Same(A[i], B[i])
<1> DEFINE n == A[i]
           o == B[i]
<1>1. /\ n.hash = o.hash /\ n.source.kind = o.source.kind /\ n.created_at = o.created_at
      /\ SourceShaped(n.source) /\ SourceShaped(o.source) /\ n.source.kind \in Kinds
  BY DEF SameMember, Provable, Rooted, NodeShaped, SourceShaped
<1>2. CASE n.source.kind \in {"Hash", "Pack"}
  BY <1>1, <1>2 DEF SourceShaped, Same, SnapshotOf
<1>3. CASE n.source.kind = "Account"
  <2>1. /\ n.hash = <<"metadata", n.source.account, n.witness[1]>>
        /\ o.hash = <<"metadata", o.source.account, o.witness[1]>>
    BY <1>1, <1>3 DEF Provable, Rooted, SnapshotHolds, DeriveAccountSnapshotHash
  <2>2. n.hash[2] = n.source.account
    BY <2>1
  <2>3. o.hash[2] = o.source.account
    BY <2>1
  <2>4. n.source = AccountOrigin(n.source.account) /\ o.source = AccountOrigin(o.source.account)
    BY <1>1, <1>3 DEF SourceShaped
  <2> QED
    BY <1>1, <2>2, <2>3, <2>4 DEF Same, SnapshotOf
<1>4. CASE n.source.kind = "Branch"
  <2>1. /\ n.source.generation = GenerationFromSource(A[n.source.previous].source) + 1
        /\ n.hash = <<"branch", n.source.previous, A[n.source.previous].source.kind,
                      A[n.source.previous].created_at,
                      GenerationFromSource(A[n.source.previous].source), n.source.payload>>
    BY <1>4, BranchCommits DEF Provable
  <2>2. /\ o.source.generation = GenerationFromSource(B[o.source.previous].source) + 1
        /\ o.hash = <<"branch", o.source.previous, B[o.source.previous].source.kind,
                      B[o.source.previous].created_at,
                      GenerationFromSource(B[o.source.previous].source), o.source.payload>>
    <3>1. Rooted(B, i) /\ B[i].source.kind = "Branch"
      BY <1>1, <1>4 DEF Provable
    <3> QED
      BY <3>1, BranchCommits
  <2> HIDE DEF n, o
  <2>3. /\ n.hash[2] = n.source.previous /\ n.hash[6] = n.source.payload
        /\ n.hash[5] + 1 = n.source.generation
    BY <2>1
  <2>4. /\ o.hash[2] = o.source.previous /\ o.hash[6] = o.source.payload
        /\ o.hash[5] + 1 = o.source.generation
    BY <2>2
  <2>5. /\ n.source = BranchOrigin(n.source.previous, n.source.payload, n.source.generation)
        /\ o.source = BranchOrigin(o.source.previous, o.source.payload, o.source.generation)
    BY <1>1, <1>4 DEF SourceShaped
  <2>6. n.source = o.source
    BY <1>1, <2>3, <2>4, <2>5
  <2> QED
    BY <1>1, <2>6 DEF Same, SnapshotOf, n, o
<1>5. CASE n.source.kind = "Batch"
  <2> DEFINE ids == n.source.members
             others == o.source.members
             mine == [k \in DOMAIN ids |-> AggregateMember(A[ids[k]])]
             theirs == [k \in DOMAIN others |-> AggregateMember(B[others[k]])]
  <2>1. NodeDependencies(n) = ids /\ NodeDependencies(o) = others
    BY <1>1, <1>5 DEF NodeDependencies
  <2>2. /\ n.hash = <<"members", mine>>
        /\ \A k \in DOMAIN ids : NodeId(A[ids[k]]) = ids[k]
    BY <1>5, <2>1, MembersCommit DEF Provable
  <2>3. /\ o.hash = <<"members", theirs>>
        /\ \A k \in DOMAIN others : NodeId(B[others[k]]) = others[k]
    <3>1. B[i].source.kind = "Batch" /\ others = NodeDependencies(B[i])
      BY <1>1, <1>5, <2>1
    <3> HIDE DEF others
    <3> QED
      BY <3>1, MembersCommit DEF Provable
  <2>4. n.source = BatchOrigin(ids) /\ o.source = BatchOrigin(others)
    BY <1>1, <1>5 DEF SourceShaped
  <2>5. IsList(ids) /\ IsList(others)
    BY <1>1, <1>5 DEF Provable, Rooted, NodeShaped
  <2> HIDE DEF ids, others, n, o
  <2>6. mine = theirs
    <3>1. n.hash[2] = mine
      BY <2>2
    <3>2. o.hash[2] = theirs
      BY <2>3
    <3> QED
      BY <1>1, <3>1, <3>2
  <2>7. DOMAIN ids = DOMAIN others
    BY <2>6
  <2>8. ASSUME NEW k \in DOMAIN ids PROVE ids[k] = others[k]
    <3>1. AggregateMember(A[ids[k]]) = AggregateMember(B[others[k]])
      BY <2>6, <2>7
    <3> QED
      BY <2>2, <2>3, <2>7, <3>1 DEF AggregateMember, NodeId, CanonicalHashId
  <2>9. ids = others
    <3>1. ids = [k \in DOMAIN ids |-> ids[k]] /\ others = [k \in DOMAIN others |-> others[k]]
      BY <2>5 DEF IsList
    <3> QED
      BY <2>7, <2>8, <3>1
  <2> QED
    BY <1>1, <2>4, <2>9 DEF Same, SnapshotOf, n, o
<1> QED
  BY <1>1, <1>2, <1>3, <1>4, <1>5 DEF Kinds

LEMMA OrderedIsRooted ==
    ASSUME NEW A, WellShaped(A), Valid(A), NEW roots, CanOrder(A, roots),
           NEW j \in Behind(A, roots)
    PROVE  Rooted(A, j)
<1>1. j \in DOMAIN A /\ DependenciesKnown(A[j]) /\ Behind(A, roots) \subseteq DOMAIN A
  BY DEF CanOrder
<1>2. Range(NodeDependencies(A[j])) \subseteq DOMAIN A
  BY <1>1, BehindIsClosed
<1>3. SnapshotHolds(A[j]) /\ ParentHolds(A, A[j]) /\ MembersHold(A, A[j])
  BY <1>1 DEF Valid, Commitments
<1>4. NodeShaped(A[j]) /\ \A d \in DOMAIN A : NodeId(A[d]) = d /\ NodeParses(A[d])
  BY <1>1 DEF WellShaped, Valid
<1> QED
  BY <1>1, <1>2, <1>3, <1>4 DEF Rooted

(***************************************************************************)
(* The proofs built from an archive.  NodeLink is the link of a node, of   *)
(* which only what depends on the call is left open.                       *)
(***************************************************************************)
NodeLink(A, i, l) ==
    /\ l.hash = A[i].hash /\ l.source = A[i].source /\ l.created_at = A[i].created_at
    /\ \/ A[i].source.kind = "Hash" /\ l.params = NoParams
       \/ /\ l.params.kind = A[i].source.kind
          /\ l.params.prints = MemberPrints(A, A[i])
          /\ A[i].source.kind = "Hash" => l.params.data = <<A[i].hash>>
          /\ A[i].source.kind = "Account" => l.params.data \in {<<>>, A[i].witness}

LEMMA BuiltLinks ==
    ASSUME NEW A, NEW anchor, NEW targets, NEW existing, CanBuild(A, anchor, targets, existing)
    PROVE  LET links == Built(A, anchor, targets, existing).links IN
           /\ DOMAIN links = Behind(A, {anchor})
           /\ \A i \in Behind(A, {anchor}) :
                 /\ NodeLink(A, i, links[i])
                 /\ A[i].source.kind = "Account" /\ i \notin existing \cup {anchor} =>
                       links[i].params.data = A[i].witness /\ A[i].witness # Unknown
<1> DEFINE links == Built(A, anchor, targets, existing).links
           D == Behind(A, {anchor})
           params(i) == BuiltParams(A, A[i], i \in targets, i \in existing \cup {anchor})
<1>1. links = [i \in D |-> [hash |-> A[i].hash, source |-> A[i].source,
                            created_at |-> A[i].created_at, params |-> params(i)]]
  BY DEF Built
<1> HIDE DEF links
<1>2. ASSUME NEW i \in D
      PROVE  /\ NodeLink(A, i, links[i])
             /\ A[i].source.kind = "Account" /\ i \notin existing \cup {anchor} =>
                   links[i].params.data = A[i].witness /\ A[i].witness # Unknown
  <2> DEFINE l == links[i]
             made == [kind |-> A[i].source.kind, prints |-> MemberPrints(A, A[i]),
                      data |-> LinkData(A[i], i \in targets, i \in existing \cup {anchor})]
  <2>1. /\ l.hash = A[i].hash /\ l.source = A[i].source /\ l.created_at = A[i].created_at
        /\ l.params = params(i)
    BY <1>1
  <2>2. \/ A[i].source.kind = "Hash" /\ params(i) = NoParams
        \/ params(i) = made
    BY DEF BuiltParams
  <2>3. /\ made.kind = A[i].source.kind /\ made.prints = MemberPrints(A, A[i])
        /\ made.data = LinkData(A[i], i \in targets, i \in existing \cup {anchor})
    OBVIOUS
  <2>4. A[i].source.kind = "Account" /\ i \notin existing \cup {anchor} =>
           A[i].witness # Unknown
    BY DEF CanBuild
  <2> HIDE DEF l, params, made
  <2>5. NodeLink(A, i, l)
    BY <2>1, <2>2, <2>3 DEF NodeLink, LinkData
  <2>6. A[i].source.kind = "Account" /\ i \notin existing \cup {anchor} =>
           l.params.data = A[i].witness
    BY <2>1, <2>2, <2>3 DEF LinkData
  <2> QED
    BY <2>4, <2>5, <2>6 DEF l
<1> QED
  BY <1>1, <1>2 DEF links

\* The fingerprints of a link are those of the nodes it derives from.
LEMMA BuiltPrints ==
    ASSUME NEW A, NEW i, Rooted(A, i), NEW l, NodeLink(A, i, l), l.params # NoParams
    PROVE  LET ids == NodeDependencies(A[i])
               prints == l.params.prints
           IN  /\ DOMAIN prints = DOMAIN ids
               /\ \A k \in DOMAIN ids :
                     /\ prints[k] = NodeFingerprint(A[ids[k]])
                     /\ PrintId(prints[k]) = ids[k]
                     /\ ids[k] \in DOMAIN A
<1> DEFINE ids == NodeDependencies(A[i])
<1>1. l.params.prints = [k \in DOMAIN ids |-> NodeFingerprint(A[ids[k]])]
  BY DEF NodeLink, MemberPrints
<1>2. \A k \in DOMAIN ids : ids[k] \in Range(ids)
  BY DEF Range
<1>3. \A k \in DOMAIN ids : ids[k] \in DOMAIN A /\ NodeId(A[ids[k]]) = ids[k]
  BY <1>2 DEF Rooted
<1>4. \A n : PrintId(NodeFingerprint(n)) = NodeId(n)
  BY DEF PrintId, NodeFingerprint, NodeId, CanonicalHashId
<1> HIDE DEF ids
<1> QED
  BY <1>1, <1>3, <1>4 DEF ids

LEMMA BuiltDependencies ==
    ASSUME NEW A, NEW i, Rooted(A, i), NEW l, NodeLink(A, i, l)
    PROVE  LinkDependencies(l) = Range(NodeDependencies(A[i]))
<1> DEFINE ids == NodeDependencies(A[i])
<1>1. l.source = A[i].source /\ A[i].source.kind \in Kinds
  BY DEF NodeLink, Rooted, NodeShaped, SourceShaped
<1>2. CASE A[i].source.kind \in {"Hash", "Account"}
  BY <1>1, <1>2 DEF LinkDependencies, NodeDependencies, Range
<1>3. CASE A[i].source.kind = "Branch"
  BY <1>1, <1>3 DEF LinkDependencies, NodeDependencies, Range
<1>4. CASE A[i].source.kind = "Batch"
  BY <1>1, <1>4 DEF LinkDependencies, NodeDependencies, Range
<1>5. CASE A[i].source.kind = "Pack"
  <2>1. l.params # NoParams
    BY <1>5 DEF NodeLink, NoParams
  <2>2. /\ DOMAIN l.params.prints = DOMAIN ids
        /\ \A k \in DOMAIN ids : PrintId(l.params.prints[k]) = ids[k]
    BY <2>1, BuiltPrints
  <2>3. LinkDependencies(l) = {PrintId(l.params.prints[n]) : n \in DOMAIN l.params.prints}
    BY <1>1, <1>5 DEF LinkDependencies
  <2> HIDE DEF ids
  <2>4. LinkDependencies(l) = Range(ids)
    BY <2>2, <2>3 DEF Range
  <2> QED
    BY <2>4 DEF ids
<1> QED
  BY <1>1, <1>2, <1>3, <1>4, <1>5 DEF Kinds

LEMMA MembersListed ==
    ASSUME NEW A, NEW i, Rooted(A, i), A[i].source.kind \in {"Batch", "Pack"}
    PROVE  LET ids == NodeDependencies(A[i]) IN
           /\ 1 \in DOMAIN ids /\ IsInjective(ids)
           /\ ids = [k \in DOMAIN ids |-> ids[k]]
           /\ A[i].source.kind = "Batch" => ids = A[i].source.members
<1> DEFINE ids == NodeDependencies(A[i])
<1>1. IsList(ids) /\ MemberList(ids)
  <2>1. CASE A[i].source.kind = "Batch"
    BY <2>1 DEF Rooted, NodeShaped, NodeParses, NodeDependencies
  <2>2. CASE A[i].source.kind = "Pack"
    <3>1. A[i].witness # Unknown
      BY <2>2 DEF Rooted, DependenciesKnown
    <3> QED
      BY <2>2, <3>1 DEF Rooted, NodeShaped, NodeParses, NodeDependencies
  <2> QED
    BY <2>1, <2>2
<1>2. A[i].source.kind = "Batch" => ids = A[i].source.members
  BY DEF NodeDependencies
<1> HIDE DEF ids
<1>3. ids \in Seq(Range(ids)) /\ ids # <<>>
  BY <1>1 DEF IsList, MemberList
<1>4. 1 \in DOMAIN ids /\ ids = [k \in DOMAIN ids |-> ids[k]]
  BY <1>3
<1> QED
  BY <1>1, <1>2, <1>4 DEF MemberList, ids

LEMMA BuiltFits ==
    ASSUME NEW A, NEW i, Rooted(A, i), NEW l, NodeLink(A, i, l)
    PROVE  LinkFits(l)
<1>1. /\ l.source = A[i].source
      /\ l.params.kind = l.source.kind \/ (l.source.kind = "Hash" /\ l.params = NoParams)
  BY DEF NodeLink
<1>2. ASSUME A[i].source.kind \in {"Batch", "Pack"} PROVE l.params.prints # <<>>
  <2>1. l.params # NoParams
    BY <1>1, <1>2 DEF NoParams
  <2>2. DOMAIN l.params.prints = DOMAIN NodeDependencies(A[i])
    BY <2>1, BuiltPrints
  <2>3. 1 \in DOMAIN NodeDependencies(A[i])
    BY <1>2, MembersListed
  <2> QED
    BY <2>2, <2>3
<1>3. ASSUME A[i].source.kind = "Batch"
      PROVE  A[i].source.members # <<>> /\ IsInjective(A[i].source.members)
  BY <1>3 DEF Rooted, NodeParses, MemberList
<1> QED
  BY <1>1, <1>2, <1>3 DEF LinkFits

(***************************************************************************)
(* What the program demands of the links of nodes.                         *)
(***************************************************************************)
NodeLinks(A, links) ==
    \A i \in DOMAIN links :
        /\ Rooted(A, i) /\ NodeLink(A, i, links[i])
        /\ Range(NodeDependencies(A[i])) \subseteq DOMAIN links

LEMMA PrintMatches ==
    ASSUME NEW A, NEW j, NEW l, NodeLink(A, j, l)
    PROVE  /\ FingerprintMatches(NodeFingerprint(A[j]), l)
           /\ PrintFingerprint(NodeFingerprint(A[j])) = AggregateMember(A[j])
BY DEF FingerprintMatches, NodeFingerprint, LinkPrint, NodeLink, Generation,
       GenerationFromSource, PrintFingerprint, AggregateMember

LEMMA BuiltAccountValid ==
    ASSUME NEW A, NEW i, Rooted(A, i), NEW l, NodeLink(A, i, l), NEW exists \in BOOLEAN,
           A[i].source.kind = "Account",
           ~exists => l.params.data = A[i].witness /\ A[i].witness # Unknown
    PROVE  AccountLinkValid(l, exists)
<1>1. CASE l.params.data = <<>>
  BY <1>1 DEF AccountLinkValid, Unknown
<1>2. CASE l.params.data # <<>>
  <2>1. l.params.data = A[i].witness
    BY <1>2 DEF NodeLink, NoParams
  <2>2. A[i].hash = DeriveAccountSnapshotHash(A[i].source.account, A[i].witness[1])
    BY <1>2, <2>1 DEF Rooted, SnapshotHolds, Unknown
  <2> QED
    BY <1>2, <2>1, <2>2 DEF AccountLinkValid, NodeLink, DeriveAccountSnapshotHash,
                            MetadataDigest
<1> QED
  BY <1>1, <1>2

LEMMA BuiltBranchValid ==
    ASSUME NEW A, NEW links, NodeLinks(A, links), NEW i \in DOMAIN links,
           A[i].source.kind = "Branch"
    PROVE  BranchLinkValid(links, links[i], GenerationLimit)
<1> DEFINE l == links[i]
           q == A[i].source.previous
           g == GenerationFromSource(A[q].source)
<1>1. Rooted(A, i) /\ NodeLink(A, i, l)
  BY DEF NodeLinks
<1>2. /\ q \in DOMAIN A /\ Range(NodeDependencies(A[i])) = {q}
      /\ A[i].source.generation = g + 1
      /\ A[i].hash = <<"branch", q, A[q].source.kind, A[q].created_at, g,
                       A[i].source.payload>>
  BY <1>1, BranchCommits
<1>3. q \in DOMAIN links /\ NodeLink(A, q, links[q]) /\ Rooted(A, q)
  BY <1>2 DEF NodeLinks
<1>4. l.source = A[i].source /\ l.hash = A[i].hash /\ l.params # NoParams
  BY <1>1 DEF NodeLink, NoParams
<1>5. NodeDependencies(A[i]) = <<q>>
  BY DEF NodeDependencies
<1>6. l.params.prints[1] = NodeFingerprint(A[q]) /\ PrintId(l.params.prints[1]) = q
  <2>1. /\ 1 \in DOMAIN NodeDependencies(A[i])
        /\ NodeDependencies(A[i])[1] = q
    BY <1>5
  <2> QED
    BY <1>1, <1>4, <2>1, BuiltPrints
<1>7. FingerprintMatches(l.params.prints[1], links[q])
  BY <1>3, <1>6, PrintMatches
<1>8. g < GenerationLimit
  <2>1. A[i].source.generation \in 1..GenerationLimit
    BY <1>1 DEF Rooted, NodeParses
  <2>2. g \in Nat
    BY <1>3, LimitsAssumption DEF Rooted, NodeParses, GenerationFromSource
  <2> QED
    BY <1>2, <2>1, <2>2, LimitsAssumption
<1>9. /\ NodeFingerprint(A[q]).kind = A[q].source.kind
      /\ NodeFingerprint(A[q]).created_at = A[q].created_at
      /\ NodeFingerprint(A[q]).generation = g
  BY DEF NodeFingerprint
<1> HIDE DEF l, q, g
<1>10. l.source.previous = q
  BY <1>4 DEF q
<1> QED
  BY <1>2, <1>4, <1>6, <1>7, <1>8, <1>9, <1>10 DEF BranchLinkValid, BranchDigest, l

LEMMA BuiltMembersValid ==
    ASSUME NEW A, NEW links, NodeLinks(A, links), NEW i \in DOMAIN links,
           A[i].source.kind \in {"Batch", "Pack"}
    PROVE  /\ AggregateMatches(links, links[i])
           /\ A[i].source.kind = "Batch" => BatchLinkValid(links, links[i])
           /\ A[i].source.kind = "Pack" => PackLinkValid(links, links[i])
<1> DEFINE l == links[i]
           ids == NodeDependencies(A[i])
           prints == l.params.prints
<1>1. Rooted(A, i) /\ NodeLink(A, i, l) /\ Range(ids) \subseteq DOMAIN links
  BY DEF NodeLinks
<1>2. l.source = A[i].source /\ l.hash = A[i].hash /\ l.params # NoParams
  BY <1>1 DEF NodeLink, NoParams
<1>3. /\ DOMAIN prints = DOMAIN ids
      /\ \A k \in DOMAIN ids : /\ prints[k] = NodeFingerprint(A[ids[k]])
                               /\ PrintId(prints[k]) = ids[k]
  BY <1>1, <1>2, BuiltPrints
<1>4. A[i].hash = <<"members", [k \in DOMAIN ids |-> AggregateMember(A[ids[k]])]>>
  BY <1>1, MembersCommit
<1>5. /\ IsInjective(ids) /\ ids = [k \in DOMAIN ids |-> ids[k]]
      /\ A[i].source.kind = "Batch" => ids = A[i].source.members
  BY <1>1, MembersListed
<1> HIDE DEF ids, l
<1>6. ASSUME NEW k \in DOMAIN ids
      PROVE  /\ FingerprintMatches(prints[k], links[PrintId(prints[k])])
             /\ PrintFingerprint(prints[k]) = AggregateMember(A[ids[k]])
  <2>1. ids[k] \in DOMAIN links
    BY <1>1 DEF Range
  <2>2. NodeLink(A, ids[k], links[ids[k]])
    BY <2>1 DEF NodeLinks
  <2> QED
    BY <1>3, <2>2, PrintMatches
<1>7. [n \in DOMAIN prints |-> PrintFingerprint(prints[n])] =
      [k \in DOMAIN ids |-> AggregateMember(A[ids[k]])]
  BY <1>3, <1>6
<1>8. AggregateMatches(links, l)
  BY <1>2, <1>3, <1>4, <1>6, <1>7 DEF AggregateMatches, MembersDigest
<1>9. [n \in DOMAIN prints |-> PrintId(prints[n])] = ids
  <2>1. [n \in DOMAIN prints |-> PrintId(prints[n])] = [k \in DOMAIN ids |-> ids[k]]
    BY <1>3
  <2> QED
    BY <1>5, <2>1
<1>10. A[i].source.kind = "Batch" => BatchLinkValid(links, l)
  BY <1>2, <1>5, <1>8, <1>9 DEF BatchLinkValid
<1>11. A[i].source.kind = "Pack" => PackLinkValid(links, l)
  BY <1>5, <1>8, <1>9 DEF PackLinkValid
<1> QED
  BY <1>8, <1>10, <1>11 DEF l

LEMMA BuiltLinksAreNodes ==
    ASSUME NEW A, WellShaped(A), NEW anchor, NEW targets, NEW existing,
           CanBuild(A, anchor, targets, existing)
    PROVE  LET links == Built(A, anchor, targets, existing).links IN
           /\ NodeLinks(A, links)
           /\ DOMAIN links = Behind(A, {anchor}) /\ DOMAIN links \subseteq DOMAIN A
<1> DEFINE links == Built(A, anchor, targets, existing).links
<1>1. Valid(A) /\ CanOrder(A, {anchor})
  BY DEF CanBuild
<1>2. /\ DOMAIN links = Behind(A, {anchor})
      /\ \A i \in Behind(A, {anchor}) : NodeLink(A, i, links[i])
  BY BuiltLinks
<1>3. \A i \in Behind(A, {anchor}) : i \in DOMAIN A /\ Rooted(A, i)
  BY <1>1, OrderedIsRooted DEF CanOrder
<1>4. \A i \in Behind(A, {anchor}) : Range(NodeDependencies(A[i])) \subseteq Behind(A, {anchor})
  BY <1>3, BehindIsClosed
<1> QED
  BY <1>2, <1>3, <1>4 DEF NodeLinks

LEMMA BuiltGraphAccepted ==
    ASSUME NEW A, Valid(A), NEW links, NodeLinks(A, links), DOMAIN links \subseteq DOMAIN A,
           NEW anchor, DOMAIN links = Behind(A, {anchor})
    PROVE  GraphAccepted(links, anchor)
<1>1. ASSUME NEW i \in DOMAIN links
      PROVE  /\ LinkDependencies(links[i]) = Range(NodeDependencies(A[i]))
             /\ IdOf(links[i]) = i /\ LinkFits(links[i])
  <2>1. Rooted(A, i) /\ NodeLink(A, i, links[i])
    BY DEF NodeLinks
  <2>2. IdOf(links[i]) = NodeId(A[i])
    BY <2>1 DEF IdOf, CanonicalId, NodeId, CanonicalHashId, NodeLink
  <2> QED
    BY <2>1, <2>2, BuiltDependencies, BuiltFits DEF Rooted
<1>2. Complete(links)
  BY <1>1 DEF Complete, NodeLinks
<1>3. Acyclic(links)
  BY <1>1 DEF Acyclic, Valid, CycleFree
<1>4. ASSUME NEW S \in SUBSET DOMAIN links, anchor \in S,
             \A i \in S : LinkDependencies(links[i]) \subseteq S
      PROVE  S = DOMAIN links
  <2>1. \A j \in S \cap DOMAIN A : Range(NodeDependencies(A[j])) \subseteq S
    BY <1>1, <1>4
  <2>2. Behind(A, {anchor}) \subseteq S
    BY <1>4, <2>1, BehindIsLeast
  <2> QED
    BY <2>2
<1>5. anchor \in DOMAIN links
  BY BehindIsClosed
<1> QED
  BY <1>1, <1>2, <1>3, <1>4, <1>5 DEF GraphAccepted, AllBehind

LEMMA BuiltIsValid ==
    ASSUME NEW A, WellShaped(A), NEW anchor, NEW targets, NEW existing,
           CanBuild(A, anchor, targets, existing)
    PROVE  ProofValid(Built(A, anchor, targets, existing).links, existing \cup {anchor},
                      GenerationLimit)
<1> DEFINE links == Built(A, anchor, targets, existing).links
<1>1. NodeLinks(A, links) /\ DOMAIN links = Behind(A, {anchor})
  BY BuiltLinksAreNodes
<1>2. \A i \in DOMAIN links :
         A[i].source.kind = "Account" /\ i \notin existing \cup {anchor} =>
            links[i].params.data = A[i].witness /\ A[i].witness # Unknown
  BY <1>1, BuiltLinks
<1> HIDE DEF links
<1>3. ASSUME NEW i \in DOMAIN links
      PROVE  LinkValid(links, i, i \in existing \cup {anchor}, GenerationLimit)
  <2>1. /\ Rooted(A, i) /\ NodeLink(A, i, links[i])
        /\ links[i].source = A[i].source /\ links[i].hash = A[i].hash
    BY <1>1 DEF NodeLinks, NodeLink
  <2>2. links[i].created_at # 0
    BY <2>1 DEF NodeLink, Rooted, NodeParses
  <2>3. links[i].source.kind = "Hash" => HashLinkValid(links[i])
    BY <2>1 DEF NodeLink, HashLinkValid
  <2>4. links[i].source.kind = "Account" =>
           AccountLinkValid(links[i], i \in existing \cup {anchor})
    <3> HAVE links[i].source.kind = "Account"
    <3>1. (i \in existing \cup {anchor}) \in BOOLEAN /\ A[i].source.kind = "Account"
      BY <2>1
    <3>2. i \notin existing \cup {anchor} =>
             links[i].params.data = A[i].witness /\ A[i].witness # Unknown
      BY <1>2, <3>1, Zenon
    <3> QED
      BY <2>1, <3>1, <3>2, BuiltAccountValid, Zenon
  <2>5. links[i].source.kind = "Branch" => BranchLinkValid(links, links[i], GenerationLimit)
    BY <1>1, <2>1, BuiltBranchValid
  <2>6. /\ links[i].source.kind = "Batch" => BatchLinkValid(links, links[i])
        /\ links[i].source.kind = "Pack" => PackLinkValid(links, links[i])
    BY <1>1, <2>1, BuiltMembersValid
  <2> QED
    BY <2>2, <2>3, <2>4, <2>5, <2>6 DEF LinkValid
<1>4. ProofValid(links, existing \cup {anchor}, GenerationLimit)
  BY <1>3 DEF ProofValid
<1> QED
  BY <1>4 DEF links
=============================================================================
