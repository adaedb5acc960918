------------------------- MODULE ArchiveLibrary_proofs -------------------------
(***************************************************************************)
(* Theorems about the archives users keep, of any size and any content:    *)
(* what is done to them rewrites nothing, that a record has one history,   *)
(* and that the program and the SDK agree on what a proof says.            *)
(***************************************************************************)
EXTENDS ArchiveLibrary, Archive_proofs

(***************************************************************************)
(* What the shelves hold.                                                  *)
(***************************************************************************)
LEMMA SingleShaped ==
    ASSUME NEW n \in Nodes
    PROVE  WellShaped(Single(n))
BY InputsAssumption, FS_Singleton DEF WellShaped, Single

(***************************************************************************)
(* The shelves.                                                            *)
(***************************************************************************)
ShelfInv ==
    /\ DOMAIN shelf = Shelves
    /\ \A s \in Shelves : WellShaped(shelf[s]) /\ Valid(shelf[s])

\* The nodes of A that are in R are there with all A knows of them.
Keeps(A, R) == \A i \in DOMAIN A \cap DOMAIN R : PartOfNode(A[i], R[i])

LEMMA EmptyIsArchive == WellShaped(Empty) /\ Valid(Empty)
<1>1. DOMAIN Empty = {} /\ Empty = [i \in {} |-> Empty[i]]
  BY DEF Empty
<1>2. IsFiniteSet({}) /\ Cardinality({}) <= NodeLimit
  BY FS_EmptySet, LimitsAssumption
<1>3. CycleFree(Empty) /\ Commitments(Empty)
  BY <1>1 DEF CycleFree, Commitments
<1> QED
  BY <1>1, <1>2, <1>3 DEF WellShaped, Valid

LEMMA NodeOfShape ==
    ASSUME NEW l, LinkShaped(l), NEW witness, Optional(witness),
           l.source.kind = "Pack" /\ witness # Unknown => IsList(witness[1])
    PROVE  NodeShaped([hash |-> l.hash, source |-> l.source,
                       created_at |-> l.created_at, witness |-> witness])
<1> DEFINE n == [hash |-> l.hash, source |-> l.source,
                 created_at |-> l.created_at, witness |-> witness]
<1>1. /\ n.hash = l.hash /\ n.source = l.source /\ n.created_at = l.created_at
      /\ n.witness = witness
      /\ n = [hash |-> n.hash, source |-> n.source, created_at |-> n.created_at,
              witness |-> n.witness]
  OBVIOUS
<1> HIDE DEF n
<1>2. NodeShaped(n)
  BY <1>1 DEF NodeShaped, LinkShaped
<1> QED
  BY <1>2 DEF n

LEMMA ImportedShaped ==
    ASSUME NEW p \in Proofs, CanImport(p.links)
    PROVE  WellShaped(Imported(p.links))
<1>1. IsFiniteSet(DOMAIN p.links) /\ \A i \in DOMAIN p.links : LinkShaped(p.links[i])
  BY InputsAssumption
<1>2. ASSUME NEW i \in DOMAIN p.links PROVE NodeShaped(ImportedNode(p.links[i]))
  <2> DEFINE l == p.links[i]
             ids == [k \in DOMAIN l.params.prints |-> FingerprintId(l.params.prints[k])]
  <2>1. LinkShaped(l) /\ ImportFits(l)
    BY <1>1 DEF CanImport
  <2> HIDE DEF l
  <2>2. CASE l.params.kind = "Pack"
    <3>1. ImportedNode(l) = [hash |-> l.hash, source |-> l.source,
                             created_at |-> l.created_at, witness |-> <<ids>>]
      BY <2>2 DEF ImportedNode
    <3>2. IsList(ids)
      <4>1. l.params.prints \in Seq(Range(l.params.prints))
        BY <2>1 DEF LinkShaped, IsList
      <4>2. PICK n \in Nat : DOMAIN l.params.prints = 1..n
        BY <4>1
      <4>3. ids = [k \in 1..n |-> FingerprintId(l.params.prints[k])]
        BY <4>2
      <4>4. \A k \in 1..n : ids[k] \in Range(ids)
        BY <4>3 DEF Range
      <4> HIDE DEF ids
      <4>5. ids \in [1..n -> Range(ids)]
        BY <4>3, <4>4
      <4> QED
        BY <4>5 DEF IsList
    <3> HIDE DEF ids
    <3>3. <<ids>>[1] = ids /\ Optional(<<ids>>)
      BY DEF Optional
    <3>4. NodeShaped([hash |-> l.hash, source |-> l.source,
                      created_at |-> l.created_at, witness |-> <<ids>>])
      BY <2>1, <3>2, <3>3, NodeOfShape
    <3> QED
      BY <3>1, <3>4 DEF l
  <2>3. CASE l.params.kind = "Account"
    <3>1. ImportedNode(l) = [hash |-> l.hash, source |-> l.source,
                             created_at |-> l.created_at, witness |-> l.params.data]
      BY <2>3 DEF ImportedNode
    <3>2. l.source.kind = "Account"
      BY <2>1, <2>3 DEF ImportFits, NoParams
    <3>3. Optional(l.params.data)
      BY <2>1 DEF LinkShaped
    <3>4. NodeShaped([hash |-> l.hash, source |-> l.source,
                      created_at |-> l.created_at, witness |-> l.params.data])
      BY <2>1, <3>2, <3>3, NodeOfShape
    <3> QED
      BY <3>1, <3>4 DEF l
  <2>4. CASE l.params.kind \notin {"Pack", "Account"}
    <3>1. ImportedNode(l) = [hash |-> l.hash, source |-> l.source,
                             created_at |-> l.created_at, witness |-> Unknown]
      BY <2>4 DEF ImportedNode
    <3>2. Optional(Unknown)
      BY DEF Optional, Unknown
    <3>3. NodeShaped([hash |-> l.hash, source |-> l.source,
                      created_at |-> l.created_at, witness |-> Unknown])
      BY <2>1, <3>2, NodeOfShape
    <3> QED
      BY <3>1, <3>3 DEF l
  <2> QED
    BY <2>2, <2>3, <2>4 DEF l
<1> QED
  BY <1>1, <1>2 DEF WellShaped, Imported

LEMMA MergeIsArchive ==
    ASSUME NEW A, NEW B, WellShaped(A), WellShaped(B), MergeArchives(<<A, B>>) # Thrown,
           NEW R, R = MergeArchives(<<A, B>>)[1]
    PROVE  WellShaped(R) /\ Valid(R) /\ Keeps(A, R)
<1>1. R = Merged(A, B) /\ Joinable(A, B) /\ Valid(Merged(A, B))
  BY CanMergeTwo, MergeOfTwo DEF MergeArchives
<1>2. PartOf(A, R)
  BY <1>1, FirstIsPart
<1> QED
  BY <1>1, <1>2, MergedShaped DEF Keeps, PartOf

LEMMA PartShaped ==
    ASSUME NEW A, WellShaped(A), NEW D \in SUBSET DOMAIN A
    PROVE  WellShaped([i \in D |-> A[i]])
BY FS_Subset DEF WellShaped

LEMMA SelectedAreThere ==
    ASSUME NEW A, NEW ids \in SUBSET DOMAIN A, NEW d \in BOOLEAN,
           d => CanOrder(A, ids)
    PROVE  SelectionIds(A, ids, d) \subseteq DOMAIN A
BY DEF SelectionIds, CanOrder

LEMMA SelectIsArchive ==
    ASSUME NEW A, WellShaped(A), NEW ids, NEW d \in BOOLEAN,
           SelectArchive(A, ids, d) # Thrown,
           NEW R, R = SelectArchive(A, ids, d)[1]
    PROVE  WellShaped(R) /\ Valid(R) /\ Keeps(A, R)
<1>1. CanSelect(A, ids, d) /\ R = Selection(A, ids, d)
  BY DEF SelectArchive
<1>2. SelectionIds(A, ids, d) \in SUBSET DOMAIN A /\ Valid(R)
  BY <1>1, SelectedAreThere DEF CanSelect
<1>3. WellShaped(R)
  BY <1>1, <1>2, PartShaped DEF Selection
<1>4. Keeps(A, R)
  BY <1>1, <1>2 DEF Selection, Keeps, PartOfNode, Same
<1> QED
  BY <1>2, <1>3, <1>4

\* A step puts an archive on a shelf that keeps what was known there.
LEMMA StepKeeps ==
    ASSUME ShelfInv, Next
    PROVE  \E s \in Shelves : \E R :
              /\ shelf' = [shelf EXCEPT ![s] = R]
              /\ WellShaped(R) /\ Valid(R) /\ Keeps(shelf[s], R)
<1>1. PICK s \in Shelves :
         \/ \E n \in Nodes : Add(s, n)
         \/ \E t \in Shelves \ {s} : Merge(s, t)
         \/ \E p \in Proofs : ImportProof(s, p)
         \/ \E ids \in SUBSET DOMAIN shelf[s], withDependencies \in BOOLEAN :
               Select(s, ids, withDependencies)
  BY DEF Next
<1>2. WellShaped(shelf[s])
  BY DEF ShelfInv
<1>3. CASE \E n \in Nodes : Add(s, n)
  <2>1. PICK n \in Nodes : Add(s, n)
    BY <1>3
  <2> QED
    BY <1>2, <2>1, SingleShaped, MergeIsArchive DEF Add, Returns
<1>4. CASE \E t \in Shelves \ {s} : Merge(s, t)
  <2>1. PICK t \in Shelves : Merge(s, t)
    BY <1>4
  <2> QED
    BY <1>2, <2>1, MergeIsArchive DEF ShelfInv, Merge, Returns
<1>5. CASE \E p \in Proofs : ImportProof(s, p)
  <2>1. PICK p \in Proofs : ImportProof(s, p)
    BY <1>5
  <2>2. CanImport(p.links) /\ ArchiveFromProof(p.links)[1] = Imported(p.links)
    BY <2>1 DEF ImportProof, ArchiveFromProof
  <2> QED
    BY <1>2, <2>1, <2>2, ImportedShaped, MergeIsArchive DEF ImportProof, Returns
<1>6. CASE \E ids \in SUBSET DOMAIN shelf[s], withDependencies \in BOOLEAN :
              Select(s, ids, withDependencies)
  <2>1. PICK ids \in SUBSET DOMAIN shelf[s], d \in BOOLEAN : Select(s, ids, d)
    BY <1>6
  <2>2. /\ SelectArchive(shelf[s], ids, d) # Thrown
        /\ shelf' = [shelf EXCEPT ![s] = SelectArchive(shelf[s], ids, d)[1]]
    BY <2>1 DEF Select, Returns
  <2>3. /\ WellShaped(SelectArchive(shelf[s], ids, d)[1])
        /\ Valid(SelectArchive(shelf[s], ids, d)[1])
        /\ Keeps(shelf[s], SelectArchive(shelf[s], ids, d)[1])
    BY <1>2, <2>2, SelectIsArchive
  <2> QED
    BY <2>2, <2>3
<1> QED
  BY <1>1, <1>3, <1>4, <1>5, <1>6

LEMMA ShelvesAreArchives == Spec => []ShelfInv
<1>1. Init => ShelfInv
  BY EmptyIsArchive DEF Init, ShelfInv
<1>2. ShelfInv /\ [Next]_shelf => ShelfInv'
  <2> SUFFICES ASSUME ShelfInv, [Next]_shelf PROVE ShelfInv'
    OBVIOUS
  <2>1. CASE UNCHANGED shelf
    BY <2>1 DEF ShelfInv
  <2>2. CASE Next
    <3>1. PICK s \in Shelves : \E R : /\ shelf' = [shelf EXCEPT ![s] = R]
                                      /\ WellShaped(R) /\ Valid(R)
      BY <2>2, StepKeeps
    <3>2. PICK R : shelf' = [shelf EXCEPT ![s] = R] /\ WellShaped(R) /\ Valid(R)
      BY <3>1
    <3> QED
      BY <3>2 DEF ShelfInv
  <2> QED
    BY <2>1, <2>2
<1> QED
  BY <1>1, <1>2, PTL DEF Spec

\* Evidence is never rewritten, whatever is added, merged, imported or
\* selected: a record that stays on a shelf keeps its incarnation and its
\* witness (archive/operations.ts).
THEOREM EvidenceIsKept == Spec => NeverRewritten
<1> DEFINE Kept == \A s \in Shelves : \A i \in DOMAIN shelf[s] \cap DOMAIN shelf'[s] :
                      /\ Same(shelf[s][i], shelf'[s][i])
                      /\ shelf[s][i].witness # Unknown =>
                            shelf'[s][i].witness = shelf[s][i].witness
<1>1. ASSUME ShelfInv, [Next]_shelf PROVE [Kept]_shelf
  <2>1. CASE UNCHANGED shelf
    BY <2>1
  <2>2. CASE Next
    <3>1. PICK s \in Shelves : \E R : /\ shelf' = [shelf EXCEPT ![s] = R]
                                      /\ Keeps(shelf[s], R)
      BY <2>2, <1>1, StepKeeps
    <3>2. PICK R : shelf' = [shelf EXCEPT ![s] = R] /\ Keeps(shelf[s], R)
      BY <3>1
    <3>3. ASSUME NEW t \in Shelves, NEW i \in DOMAIN shelf[t] \cap DOMAIN shelf'[t]
          PROVE  /\ Same(shelf[t][i], shelf'[t][i])
                 /\ shelf[t][i].witness # Unknown =>
                       shelf'[t][i].witness = shelf[t][i].witness
      <4>1. CASE t = s
        <5>1. shelf'[t] = R
          BY <1>1, <3>2, <4>1 DEF ShelfInv
        <5> QED
          BY <3>2, <3>3, <4>1, <5>1 DEF Keeps, PartOfNode
      <4>2. CASE t # s
        BY <1>1, <3>2, <4>2 DEF ShelfInv, Same
      <4> QED
        BY <4>1, <4>2
    <3> QED
      BY <3>3
  <2> QED
    BY <1>1, <2>1, <2>2
<1>2. ShelfInv /\ [Next]_shelf => [Kept]_shelf
  BY <1>1
<1> QED
  BY <1>2, ShelvesAreArchives, PTL DEF Spec, NeverRewritten

\* Whatever was added, merged, imported, selected or read back, every archive a
\* user holds still parses (validateArchive of what the operations return).
THEOREM ShelvesParse == Spec => []TypeOK
<1>1. ShelfInv => TypeOK
  BY DEF ShelfInv, TypeOK
<1> QED
  BY <1>1, ShelvesAreArchives, PTL

\* Users who merge the same archives in any order, at once or pair by pair,
\* end with the same archive or all with an error (mergeArchives).
THEOREM MergeHasNoOrder == Spec => []MergeOrderFree
<1>1. ShelfInv => MergeOrderFree
  BY SingleShaped, MergeThreeInAnyOrder, MergePairByPair DEF ShelfInv, MergeOrderFree
<1> QED
  BY <1>1, ShelvesAreArchives, PTL

(***************************************************************************)
(* What is behind a record.                                                *)
(***************************************************************************)
\* A selection with dependencies is enough to prove what was selected, and
\* merging it back changes nothing (selectArchive, mergeArchives).
THEOREM SelectionIsWhole == Spec => []SelectionStands
<1>1. ShelfInv => SelectionStands
  BY SelectionIsEnough DEF ShelfInv, SelectionStands
<1> QED
  BY <1>1, ShelvesAreArchives, PTL

LEMMA ClosedIsProvable ==
    ASSUME NEW A, WellShaped(A), Valid(A), NEW i, Closed(A, i), NEW j \in Behind(A, {i})
    PROVE  Provable(A, j)
<1>1. Rooted(A, j)
  BY OrderedIsRooted DEF Closed
<1>2. A[j].source.kind = "Account" => A[j].witness # Unknown
  BY <1>1 DEF Closed, MissingWitnesses, Rooted
<1> QED
  BY <1>1, <1>2 DEF Provable

LEMMA HistoryIsOne ==
    ASSUME NEW A, NEW B, WellShaped(A), Valid(A), WellShaped(B), Valid(B),
           NEW i, Same(A[i], B[i]), Closed(A, i), Closed(B, i)
    PROVE  /\ Behind(A, {i}) = Behind(B, {i})
           /\ \A j \in Behind(A, {i}) : Same(A[j], B[j])
<1> DEFINE S == {j \in Behind(A, {i}) \cap Behind(B, {i}) : Same(A[j], B[j])}
<1>1. {i} \subseteq S
  BY BehindIsClosed
<1>2. ASSUME NEW j \in S
      PROVE  /\ j \in DOMAIN A /\ j \in DOMAIN B
             /\ Range(NodeDependencies(A[j])) \subseteq S
             /\ Range(NodeDependencies(B[j])) \subseteq S
  <2>1. Provable(A, j) /\ Provable(B, j) /\ Same(A[j], B[j])
    BY ClosedIsProvable
  <2>2. j \in DOMAIN A /\ j \in DOMAIN B
    BY <2>1 DEF Provable, Rooted
  <2>3. /\ Range(NodeDependencies(A[j])) = Range(NodeDependencies(B[j]))
        /\ \A d \in Range(NodeDependencies(A[j])) : SameMember(A[d], B[d])
    BY <2>1, SameOrigins DEF Provable
  <2>4. /\ Range(NodeDependencies(A[j])) \subseteq Behind(A, {i})
        /\ Range(NodeDependencies(B[j])) \subseteq Behind(B, {i})
    BY <2>2, BehindIsClosed
  <2>5. ASSUME NEW d \in Range(NodeDependencies(A[j])) PROVE d \in S
    <3>1. d \in Behind(A, {i}) /\ d \in Behind(B, {i}) /\ SameMember(A[d], B[d])
      BY <2>3, <2>4
    <3>2. Provable(A, d) /\ Provable(B, d)
      BY <3>1, ClosedIsProvable
    <3>3. Same(A[d], B[d])
      BY <3>1, <3>2, SameSource
    <3> QED
      BY <3>1, <3>3
  <2> QED
    BY <2>2, <2>3, <2>5
<1> HIDE DEF S
<1>3. Behind(A, {i}) \subseteq S /\ Behind(B, {i}) \subseteq S
  BY <1>1, <1>2, BehindIsLeast
<1> QED
  BY <1>3 DEF S

\* A record has one history: archives that have all that is behind a record,
\* and the same incarnation of it, have the same records behind it
\* (inspectArchiveGraph, and the digests of protocol/hashes.ts).
THEOREM RecordsHaveOneHistory == Spec => []OneHistory
<1>1. ShelfInv => OneHistory
  BY HistoryIsOne DEF ShelfInv, OneHistory
<1> QED
  BY <1>1, ShelvesAreArchives, PTL

\* The program accepts the history of every proof the SDK builds from an
\* archive, if the records called existing are live and match
\* (buildRestoreProof against build_proof_graph and validate_graph).
THEOREM BuiltIsAccepted == Spec => []BuiltProofsAccepted
<1>1. ASSUME ShelfInv, NEW s \in Shelves, NEW anchor, NEW targets, NEW existing,
             CanBuild(shelf[s], anchor, targets, existing)
      PROVE  LET p == Built(shelf[s], anchor, targets, existing) IN
             /\ GraphAccepted(p.links, p.tip)
             /\ ProofValid(p.links, existing \cup {anchor}, MaxGeneration)
  <2> DEFINE A == shelf[s]
             p == Built(A, anchor, targets, existing)
  <2>1. WellShaped(A) /\ Valid(A) /\ p.tip = anchor
    BY <1>1 DEF ShelfInv, Built
  <2> HIDE DEF A
  <2>2. /\ NodeLinks(A, p.links) /\ DOMAIN p.links = Behind(A, {anchor})
        /\ DOMAIN p.links \subseteq DOMAIN A
    BY <1>1, <2>1, BuiltLinksAreNodes DEF A
  <2>3. GraphAccepted(p.links, anchor)
    BY <2>1, <2>2, BuiltGraphAccepted
  <2>4. ProofValid(p.links, existing \cup {anchor}, MaxGeneration)
    BY <1>1, <2>1, BuiltIsValid, SameLimitAssumption DEF A
  <2> QED
    BY <2>1, <2>3, <2>4 DEF A
<1>2. ShelfInv => BuiltProofsAccepted
  BY <1>1 DEF BuiltProofsAccepted
<1> QED
  BY <1>2, ShelvesAreArchives, PTL

(***************************************************************************)
(* A built proof, imported again.                                          *)
(***************************************************************************)
LEMMA ImportedIsPart ==
    ASSUME NEW A, NEW i, Rooted(A, i), NEW l, NodeLink(A, i, l)
    PROVE  LET n == ImportedNode(l) IN
           /\ PartOfNode(n, A[i])
           /\ n.witness = A[i].witness => n = A[i]
<1> DEFINE witness == IF l.params.kind = "Pack"
                      THEN <<[k \in DOMAIN l.params.prints |-> FingerprintId(l.params.prints[k])]>>
                      ELSE IF l.params.kind = "Account" THEN l.params.data
                      ELSE Unknown
           n == [hash |-> l.hash, source |-> l.source, created_at |-> l.created_at,
                 witness |-> witness]
<1>1. ImportedNode(l) = n
  BY DEF ImportedNode
<1>2. witness \in {Unknown, A[i].witness}
  <2>1. CASE l.params.kind = "Pack"
    <3> DEFINE ids == NodeDependencies(A[i])
               prints == l.params.prints
    <3>1. A[i].source.kind = "Pack" /\ l.params # NoParams
      BY <2>1 DEF NodeLink, NoParams
    <3>2. A[i].witness # Unknown /\ ids = A[i].witness[1] /\ A[i].witness = <<A[i].witness[1]>>
      BY <3>1 DEF Rooted, DependenciesKnown, NodeDependencies, NodeShaped, Optional, Unknown
    <3>3. DOMAIN prints = DOMAIN ids /\ \A k \in DOMAIN ids : PrintId(prints[k]) = ids[k]
      BY <3>1, BuiltPrints
    <3>4. ids = [k \in DOMAIN ids |-> ids[k]]
      BY <3>1, MembersListed
    <3> HIDE DEF ids
    <3>5. [k \in DOMAIN prints |-> FingerprintId(prints[k])] = [k \in DOMAIN ids |-> ids[k]]
      BY <3>3 DEF FingerprintId, CanonicalHashId, PrintId
    <3>6. witness = <<ids>>
      BY <2>1, <3>4, <3>5
    <3> QED
      BY <3>2, <3>6
  <2>2. CASE l.params.kind = "Account"
    BY <2>2 DEF NodeLink, NoParams, Unknown
  <2>3. CASE l.params.kind \notin {"Pack", "Account"}
    BY <2>3
  <2> QED
    BY <2>1, <2>2, <2>3
<1> HIDE DEF witness
<1>3. n.witness = witness /\ n.hash = l.hash /\ n.source = l.source /\ n.created_at = l.created_at
  OBVIOUS
<1>4. PartOfNode(n, A[i])
  BY <1>2, <1>3 DEF PartOfNode, Same, SnapshotOf, NodeLink
<1>5. ASSUME n.witness = A[i].witness PROVE n = A[i]
  <2>1. A[i] = [hash |-> A[i].hash, source |-> A[i].source,
                created_at |-> A[i].created_at, witness |-> A[i].witness]
    BY DEF Rooted, NodeShaped
  <2> QED
    BY <1>3, <1>5, <2>1 DEF NodeLink
<1> QED
  BY <1>1, <1>4, <1>5

\* An archive learns nothing from what is part of it.
LEMMA MergePartBack ==
    ASSUME NEW A, WellShaped(A), Valid(A), NEW P, PartOf(P, A),
           \A i \in DOMAIN P : P[i].witness = A[i].witness => P[i] = A[i]
    PROVE  Valid(P) /\ MergeArchives(<<A, P>>) = <<A>>
<1>1. Valid(P)
  BY PartIsValid DEF WellShaped
<1>2. Joinable(A, P)
  BY DEF Joinable, Compatible, Same, PartOf, PartOfNode
<1>3. Merged(A, P) = A
  <2>1. \A i \in DOMAIN A : Merged(A, P)[i] = A[i]
    BY DEF Merged, Joined, PartOf, PartOfNode
  <2>2. Merged(A, P) = [i \in DOMAIN A |-> Merged(A, P)[i]]
    <3>1. DOMAIN A \cup DOMAIN P = DOMAIN A
      BY DEF PartOf
    <3> QED
      BY <3>1, MergedAt
  <2> QED
    BY <2>1, <2>2 DEF WellShaped
<1>4. CanMerge(<<A, P>>) /\ MergeOf(<<A, P>>) = A
  BY <1>1, <1>2, <1>3, CanMergeTwo, MergeOfTwo
<1> QED
  BY <1>1, <1>4 DEF MergeArchives

LEMMA BuiltImports ==
    ASSUME NEW A, WellShaped(A), Valid(A), NEW links, NodeLinks(A, links),
           DOMAIN links \subseteq DOMAIN A
    PROVE  CanImport(links) /\ MergeArchives(<<A, Imported(links)>>) = <<A>>
<1> DEFINE P == Imported(links)
<1>1. ASSUME NEW i \in DOMAIN links
      PROVE  /\ Rooted(A, i) /\ NodeLink(A, i, links[i])
             /\ Range(NodeDependencies(A[i])) \subseteq DOMAIN links
  BY DEF NodeLinks
<1>2. ASSUME NEW i \in DOMAIN links, links[i].params # NoParams
      PROVE  /\ DOMAIN links[i].params.prints = DOMAIN NodeDependencies(A[i])
             /\ \A k \in DOMAIN NodeDependencies(A[i]) :
                   /\ links[i].params.prints[k] = NodeFingerprint(A[NodeDependencies(A[i])[k]])
                   /\ FingerprintId(links[i].params.prints[k]) = NodeDependencies(A[i])[k]
  BY <1>1, <1>2, BuiltPrints DEF FingerprintId, CanonicalHashId, PrintId
<1>3. ASSUME NEW i \in DOMAIN links PROVE ImportFits(links[i])
  <2> DEFINE l == links[i]
             ids == NodeDependencies(A[i])
             prints == l.params.prints
  <2>1. CASE l.params = NoParams
    BY <2>1 DEF ImportFits
  <2>2. CASE l.params # NoParams
    <3>1. l.params.kind = l.source.kind /\ l.source = A[i].source
      BY <1>1, <2>2 DEF NodeLink
    <3>2. l.source.kind = "Hash" => l.params.data = <<l.hash>>
      BY <1>1, <2>2 DEF NodeLink
    <3>3. l.source.kind = "Branch" => FingerprintId(prints[1]) = l.source.previous
      <4> HAVE l.source.kind = "Branch"
      <4>1. ids = <<l.source.previous>>
        BY <3>1 DEF NodeDependencies
      <4>2. 1 \in DOMAIN ids /\ ids[1] = l.source.previous
        BY <4>1
      <4> QED
        BY <1>2, <2>2, <4>2
    <3>4. l.source.kind = "Batch" =>
             [k \in DOMAIN prints |-> FingerprintId(prints[k])] = l.source.members
      <4> HAVE l.source.kind = "Batch"
      <4>1. ids = [k \in DOMAIN ids |-> ids[k]] /\ ids = l.source.members
        BY <1>1, <3>1, MembersListed
      <4>2. DOMAIN prints = DOMAIN ids /\ \A k \in DOMAIN ids : FingerprintId(prints[k]) = ids[k]
        BY <1>2, <2>2
      <4> HIDE DEF ids, prints
      <4>3. [k \in DOMAIN prints |-> FingerprintId(prints[k])] = [k \in DOMAIN ids |-> ids[k]]
        BY <4>2
      <4> QED
        BY <4>1, <4>3
    <3> QED
      BY <3>1, <3>2, <3>3, <3>4 DEF ImportFits
  <2> QED
    BY <2>1, <2>2
<1>4. PrintsConsistent(links)
  <2> SUFFICES ASSUME NEW i \in DOMAIN links, NEW k \in DOMAIN links[i].params.prints
               PROVE  LET print == links[i].params.prints[k] IN
                      /\ FingerprintId(print) \in DOMAIN links
                      /\ links[FingerprintId(print)].created_at = print.created_at
                      /\ GenerationFromSource(links[FingerprintId(print)].source) =
                            print.generation
    BY DEF PrintsConsistent
  <2> DEFINE ids == NodeDependencies(A[i])
             print == links[i].params.prints[k]
             d == ids[k]
  <2>1. links[i].params # NoParams
    BY DEF NoParams
  <2>2. k \in DOMAIN ids /\ print = NodeFingerprint(A[d]) /\ FingerprintId(print) = d
    BY <1>2, <2>1
  <2>3. d \in DOMAIN links
    BY <1>1, <2>2 DEF Range
  <2>4. NodeLink(A, d, links[d])
    BY <1>1, <2>3
  <2> HIDE DEF print, d
  <2>5. links[d].created_at = print.created_at
        /\ GenerationFromSource(links[d].source) = print.generation
    BY <2>2, <2>4 DEF NodeLink, NodeFingerprint
  <2> QED
    BY <2>2, <2>3, <2>5 DEF print
<1>5. /\ DOMAIN P = DOMAIN links
      /\ \A i \in DOMAIN P : /\ PartOfNode(P[i], A[i])
                             /\ P[i].witness = A[i].witness => P[i] = A[i]
  BY <1>1, ImportedIsPart DEF Imported
<1> HIDE DEF P
<1>6. PartOf(P, A)
  BY <1>5 DEF PartOf
<1>7. Valid(P) /\ MergeArchives(<<A, P>>) = <<A>>
  BY <1>5, <1>6, MergePartBack
<1> QED
  BY <1>3, <1>4, <1>7 DEF CanImport, P

\* A proof built from an archive and imported again adds nothing to it, and
\* has every record behind the anchor (buildRestoreProof, archiveFromProof).
THEOREM BuiltImportsBack == Spec => []BuiltProofsImport
<1>1. ASSUME ShelfInv, NEW s \in Shelves, NEW anchor, NEW existing,
             CanBuild(shelf[s], anchor, {anchor}, existing)
      PROVE  LET links == Built(shelf[s], anchor, {anchor}, existing).links IN
             /\ CanImport(links)
             /\ DOMAIN Imported(links) = Behind(shelf[s], {anchor})
             /\ MergeArchives(<<shelf[s], Imported(links)>>) = <<shelf[s]>>
  <2> DEFINE A == shelf[s]
             links == Built(A, anchor, {anchor}, existing).links
  <2>1. WellShaped(A) /\ Valid(A)
    BY <1>1 DEF ShelfInv
  <2>2. /\ NodeLinks(A, links) /\ DOMAIN links = Behind(A, {anchor})
        /\ DOMAIN links \subseteq DOMAIN A
    BY <1>1, <2>1, BuiltLinksAreNodes
  <2> HIDE DEF A, links
  <2>3. CanImport(links) /\ MergeArchives(<<A, Imported(links)>>) = <<A>>
    BY <2>1, <2>2, BuiltImports
  <2>4. DOMAIN Imported(links) = Behind(A, {anchor})
    BY <2>2 DEF Imported
  <2> QED
    BY <2>3, <2>4 DEF A, links
<1>2. ShelfInv => BuiltProofsImport
  BY <1>1 DEF BuiltProofsImport
<1> QED
  BY <1>2, ShelvesAreArchives, PTL

(***************************************************************************)
(* A proof the program accepts while nothing of it but its tip is live,    *)
(* imported: the links are the nodes of an archive with nothing missing.   *)
(***************************************************************************)
Accepted(links, tip) ==
    /\ GraphAccepted(links, tip) /\ ProofValid(links, {tip}, MaxGeneration)
    /\ IsFiniteSet(DOMAIN links) /\ Cardinality(DOMAIN links) <= NodeLimit
    /\ \A i \in DOMAIN links : LinkShaped(links[i])

\* What an accepted link is, whatever its kind.
LEMMA AcceptedLink ==
    ASSUME NEW links, NEW tip, Accepted(links, tip), NEW i \in DOMAIN links
    PROVE  LET l == links[i] IN
           /\ LinkShaped(l) /\ LinkFits(l) /\ IdOf(l) = i /\ l.source.kind \in Kinds
           /\ LinkDependencies(l) \subseteq DOMAIN links
           /\ LinkValid(links, i, i \in {tip}, MaxGeneration)
BY DEF Accepted, GraphAccepted, ProofValid, Complete, LinkShaped, SourceShaped

\* A fingerprint in an accepted link is that of the link it is about.
LEMMA AcceptedPrints ==
    ASSUME NEW links, NEW tip, Accepted(links, tip), NEW i \in DOMAIN links,
           NEW k \in DOMAIN links[i].params.prints
    PROVE  LET print == links[i].params.prints[k] IN
           /\ PrintId(print) \in DOMAIN links
           /\ print = LinkPrint(links[PrintId(print)])
<1> DEFINE l == links[i]
           prints == l.params.prints
<1>1. /\ LinkShaped(l) /\ LinkFits(l) /\ l.source.kind \in Kinds
      /\ LinkDependencies(l) \subseteq DOMAIN links
      /\ LinkValid(links, i, i \in {tip}, MaxGeneration)
  BY AcceptedLink
<1>2. l.source.kind \in {"Branch", "Batch", "Pack"} /\ l.params.kind = l.source.kind
  <2>1. prints # <<>>
    OBVIOUS
  <2>2. l.params.kind \in {"Branch", "Batch", "Pack"}
    BY <1>1, <2>1 DEF LinkShaped
  <2> QED
    BY <1>1, <2>2 DEF LinkFits, NoParams
<1>3. CASE l.source.kind = "Branch"
  <2>1. /\ PrintId(prints[1]) = l.source.previous
        /\ prints[1] = LinkPrint(links[l.source.previous])
    BY <1>1, <1>3 DEF LinkValid, BranchLinkValid, FingerprintMatches
  <2>2. l.source.previous \in DOMAIN links
    BY <1>1, <1>3 DEF LinkDependencies
  <2>3. k = 1
    BY <1>1, <1>2, <1>3 DEF LinkShaped
  <2> QED
    BY <2>1, <2>2, <2>3
<1>4. CASE l.source.kind = "Batch"
  <2>1. /\ l.source.members = [n \in DOMAIN prints |-> PrintId(prints[n])]
        /\ prints[k] = LinkPrint(links[PrintId(prints[k])])
    BY <1>1, <1>4 DEF LinkValid, BatchLinkValid, AggregateMatches, FingerprintMatches
  <2>2. k \in DOMAIN l.source.members /\ l.source.members[k] = PrintId(prints[k])
    BY <2>1
  <2>3. l.source.members[k] \in LinkDependencies(l)
    BY <1>4, <2>2 DEF LinkDependencies
  <2> QED
    BY <1>1, <2>1, <2>2, <2>3
<1>5. CASE l.source.kind = "Pack"
  <2>1. prints[k] = LinkPrint(links[PrintId(prints[k])])
    BY <1>1, <1>5 DEF LinkValid, PackLinkValid, AggregateMatches, FingerprintMatches
  <2>2. PrintId(prints[k]) \in LinkDependencies(l)
    BY <1>5 DEF LinkDependencies
  <2> QED
    BY <1>1, <2>1, <2>2
<1> QED
  BY <1>2, <1>3, <1>4, <1>5

\* Generations count from zero: the first link of which that is not so has a
\* parent of which it is.
LEMMA AcceptedGenerations ==
    ASSUME NEW links, NEW tip, Accepted(links, tip), NEW i \in DOMAIN links
    PROVE  Generation(links[i].source) \in Nat
<1> DEFINE Bad == {j \in DOMAIN links : Generation(links[j].source) \notin Nat}
<1>1. SUFFICES ASSUME Bad # {} PROVE FALSE
  OBVIOUS
<1>2. PICK j \in Bad : LinkDependencies(links[j]) \cap Bad = {}
  BY <1>1 DEF Accepted, GraphAccepted, Acyclic
<1> DEFINE l == links[j]
           q == l.source.previous
<1>3. /\ LinkDependencies(l) \subseteq DOMAIN links
      /\ LinkValid(links, j, j \in {tip}, MaxGeneration)
  BY AcceptedLink
<1>4. l.source.kind = "Branch"
  BY DEF Generation
<1>5. q \in DOMAIN links /\ q \notin Bad
  BY <1>2, <1>3, <1>4 DEF LinkDependencies
<1>6. l.source.generation = Generation(links[q].source) + 1
  <2>1. /\ l.params.prints[1] = LinkPrint(links[q])
        /\ l.source.generation = l.params.prints[1].generation + 1
    BY <1>3, <1>4 DEF LinkValid, BranchLinkValid, FingerprintMatches
  <2> QED
    BY <2>1 DEF LinkPrint
<1>7. Generation(links[q].source) \in Nat
  BY <1>5
<1>8. l.source.generation \in Nat
  BY <1>6, <1>7
<1> QED
  BY <1>4, <1>8 DEF Generation

\* The node of an accepted link derives from what the link does.
LEMMA AcceptedDependencies ==
    ASSUME NEW links, NEW tip, Accepted(links, tip), NEW i \in DOMAIN links
    PROVE  LET l == links[i]
               n == ImportedNode(l)
               ids == [k \in DOMAIN l.params.prints |-> PrintId(l.params.prints[k])]
           IN  /\ DependenciesKnown(n)
               /\ Range(NodeDependencies(n)) = LinkDependencies(l)
               /\ l.source.kind \in {"Batch", "Pack"} => NodeDependencies(n) = ids
<1> DEFINE l == links[i]
           n == ImportedNode(l)
           prints == l.params.prints
           ids == [k \in DOMAIN prints |-> PrintId(prints[k])]
<1>1. /\ LinkFits(l) /\ l.source.kind \in Kinds
      /\ LinkValid(links, i, i \in {tip}, MaxGeneration)
  BY AcceptedLink
<1>2. n.source = l.source
  BY DEF ImportedNode
<1>3. CASE l.source.kind \in {"Hash", "Account"}
  BY <1>2, <1>3 DEF DependenciesKnown, NodeDependencies, LinkDependencies, Range
<1>4. CASE l.source.kind = "Branch"
  BY <1>2, <1>4 DEF DependenciesKnown, NodeDependencies, LinkDependencies, Range
<1>5. CASE l.source.kind = "Batch"
  <2>1. l.source.members = ids
    BY <1>1, <1>5 DEF LinkValid, BatchLinkValid
  <2>2. NodeDependencies(n) = l.source.members /\ DependenciesKnown(n)
    BY <1>2, <1>5 DEF NodeDependencies, DependenciesKnown
  <2>3. Range(l.source.members) = LinkDependencies(l)
    BY <1>5 DEF LinkDependencies, Range
  <2> QED
    BY <1>5, <2>1, <2>2, <2>3
<1>6. CASE l.source.kind = "Pack"
  <2>1. l.params.kind = "Pack"
    BY <1>1, <1>6 DEF LinkFits, NoParams
  <2>2. n.witness = <<[k \in DOMAIN prints |-> FingerprintId(prints[k])]>>
    BY <2>1 DEF ImportedNode
  <2>3. [k \in DOMAIN prints |-> FingerprintId(prints[k])] = ids
    BY DEF FingerprintId, CanonicalHashId, PrintId
  <2> HIDE DEF ids
  <2>4. n.witness = <<ids>>
    BY <2>2, <2>3
  <2>5. NodeDependencies(n) = ids /\ DependenciesKnown(n)
    BY <1>2, <1>6, <2>4 DEF NodeDependencies, DependenciesKnown, Unknown
  <2>6. Range(ids) = LinkDependencies(l)
    BY <1>6 DEF LinkDependencies, Range, ids
  <2> QED
    BY <2>5, <2>6 DEF ids
<1> QED
  BY <1>1, <1>3, <1>4, <1>5, <1>6 DEF Kinds

\* The members of an accepted aggregate are distinct, and there are some.
LEMMA AcceptedMembers ==
    ASSUME NEW links, NEW tip, Accepted(links, tip), NEW i \in DOMAIN links,
           links[i].source.kind \in {"Batch", "Pack"}
    PROVE  LET prints == links[i].params.prints
               ids == [k \in DOMAIN prints |-> PrintId(prints[k])]
           IN  /\ MemberList(ids)
               /\ links[i].hash = MembersDigest([k \in DOMAIN prints |-> PrintFingerprint(prints[k])])
<1> DEFINE l == links[i]
           prints == l.params.prints
           ids == [k \in DOMAIN prints |-> PrintId(prints[k])]
<1>1. /\ LinkShaped(l) /\ LinkFits(l)
      /\ LinkValid(links, i, i \in {tip}, MaxGeneration)
  BY AcceptedLink
<1>2. prints # <<>>
  BY <1>1 DEF LinkFits
<1>3. 1 \in DOMAIN prints
  BY <1>1, <1>2 DEF LinkShaped, IsList
<1>4. ids # <<>>
  BY <1>3
<1>5. IsInjective(ids) /\ AggregateMatches(links, l)
  <2>1. CASE l.source.kind = "Batch"
    <3>1. l.source.members = ids /\ AggregateMatches(links, l) /\ IsInjective(l.source.members)
      BY <1>1, <2>1 DEF LinkFits, LinkValid, BatchLinkValid
    <3> HIDE DEF ids
    <3> QED
      BY <3>1
  <2>2. CASE l.source.kind = "Pack"
    BY <1>1, <2>2 DEF LinkValid, PackLinkValid
  <2> QED
    BY <2>1, <2>2
<1>6. MemberList(ids)
  BY <1>4, <1>5 DEF MemberList
<1>7. l.hash = MembersDigest([k \in DOMAIN prints |-> PrintFingerprint(prints[k])])
  BY <1>5 DEF AggregateMatches
<1> QED
  BY <1>6, <1>7

LEMMA AcceptedNodeParses ==
    ASSUME NEW links, NEW tip, Accepted(links, tip), NEW i \in DOMAIN links
    PROVE  LET n == ImportedNode(links[i]) IN NodeId(n) = i /\ NodeParses(n)
<1> DEFINE l == links[i]
           n == ImportedNode(l)
           prints == l.params.prints
           ids == [k \in DOMAIN prints |-> PrintId(prints[k])]
<1>1. /\ LinkShaped(l) /\ LinkFits(l) /\ IdOf(l) = i /\ l.source.kind \in Kinds
      /\ LinkDependencies(l) \subseteq DOMAIN links
      /\ LinkValid(links, i, i \in {tip}, MaxGeneration)
  BY AcceptedLink
<1>2. n.hash = l.hash /\ n.source = l.source /\ n.created_at = l.created_at
  BY DEF ImportedNode
<1>3. NodeId(n) = i
  BY <1>1, <1>2 DEF NodeId, CanonicalHashId, IdOf, CanonicalId
<1>4. n.created_at # 0
  BY <1>1, <1>2 DEF LinkValid
<1>5. n.source.kind = "Branch" => n.source.generation \in 1..GenerationLimit
  <2> HAVE n.source.kind = "Branch"
  <2> DEFINE q == l.source.previous
  <2>1. /\ l.params.prints[1] = LinkPrint(links[q])
        /\ l.params.prints[1].generation < MaxGeneration
        /\ l.source.generation = l.params.prints[1].generation + 1
    BY <1>1, <1>2 DEF LinkValid, BranchLinkValid, FingerprintMatches
  <2>2. q \in DOMAIN links
    BY <1>1, <1>2 DEF LinkDependencies
  <2>3. Generation(links[q].source) \in Nat
    BY <2>2, AcceptedGenerations
  <2>4. /\ Generation(links[q].source) < MaxGeneration
        /\ l.source.generation = Generation(links[q].source) + 1
    BY <2>1 DEF LinkPrint
  <2> QED
    BY <1>2, <2>3, <2>4, SameLimitAssumption, LimitsAssumption
<1>6. n.source.kind = "Batch" => MemberList(n.source.members)
  <2> HAVE n.source.kind = "Batch"
  <2>1. l.source.members = ids
    BY <1>1, <1>2 DEF LinkValid, BatchLinkValid
  <2>2. MemberList(ids)
    BY <1>2, AcceptedMembers
  <2> QED
    BY <1>2, <2>1, <2>2
<1>7. n.witness # Unknown =>
         \/ n.source.kind = "Account"
         \/ n.source.kind = "Pack" /\ MemberList(n.witness[1])
  <2> HAVE n.witness # Unknown
  <2>1. l.params.kind \in {"Account", "Pack"}
    BY DEF ImportedNode
  <2>2. l.source.kind = l.params.kind
    BY <1>1, <2>1 DEF LinkFits, NoParams
  <2>3. CASE l.source.kind = "Pack"
    <3>1. NodeDependencies(n) = ids
      BY <2>3, AcceptedDependencies
    <3>2. NodeDependencies(n) = n.witness[1]
      BY <1>2, <2>3 DEF NodeDependencies
    <3>3. MemberList(ids)
      BY <2>3, AcceptedMembers
    <3> QED
      BY <1>2, <2>3, <3>1, <3>2, <3>3
  <2> QED
    BY <1>2, <2>1, <2>2, <2>3
<1> QED
  BY <1>3, <1>4, <1>5, <1>6, <1>7 DEF NodeParses

\* What the program checks of a link, for the node it is imported as.
LEMMA AcceptedCommits ==
    ASSUME NEW links, NEW tip, Accepted(links, tip), NEW i \in DOMAIN links
    PROVE  LET P == Imported(links) IN
           SnapshotHolds(P[i]) /\ ParentHolds(P, P[i]) /\ MembersHold(P, P[i])
<1> DEFINE l == links[i]
           n == ImportedNode(l)
           prints == l.params.prints
           P == Imported(links)
<1>1. /\ LinkShaped(l) /\ LinkFits(l) /\ l.source.kind \in Kinds
      /\ LinkDependencies(l) \subseteq DOMAIN links
      /\ LinkValid(links, i, i \in {tip}, MaxGeneration)
  BY AcceptedLink
<1>2. /\ DOMAIN P = DOMAIN links
      /\ \A j \in DOMAIN links :
            /\ P[j].hash = links[j].hash /\ P[j].source = links[j].source
            /\ P[j].created_at = links[j].created_at
            /\ NodeId(P[j]) = j
  BY AcceptedNodeParses DEF Imported, ImportedNode
<1>3. P[i] = n
  BY DEF Imported
<1> HIDE DEF P
<1>4. SnapshotHolds(P[i])
  <2> SUFFICES ASSUME P[i].source.kind = "Account", P[i].witness # Unknown
               PROVE  P[i].hash = DeriveAccountSnapshotHash(P[i].source.account, P[i].witness[1])
    BY DEF SnapshotHolds
  <2>1. l.params.kind = "Account" /\ P[i].witness = l.params.data
    BY <1>1, <1>2, <1>3 DEF LinkFits, ImportedNode
  <2>2. l.hash = MetadataDigest(l.source.account, l.params.data[1])
    BY <1>1, <1>2, <2>1 DEF LinkValid, AccountLinkValid, Unknown
  <2> QED
    BY <1>2, <2>1, <2>2 DEF DeriveAccountSnapshotHash, MetadataDigest
<1>5. ParentHolds(P, P[i])
  <2> DEFINE q == P[i].source.previous
  <2> SUFFICES ASSUME P[i].source.kind = "Branch", q \in DOMAIN P
               PROVE  /\ P[i].source.generation = NodeFingerprint(P[q]).generation + 1
                      /\ P[i].hash = BranchHashOf(P[q], P[i].source.payload)
    BY DEF ParentHolds
  <2>1. q = l.source.previous /\ l.source.kind = "Branch"
    BY <1>2
  <2>2. /\ prints[1] = LinkPrint(links[q])
        /\ l.source.generation = prints[1].generation + 1
        /\ l.hash = BranchDigest(q, prints[1].kind, prints[1].created_at,
                                 prints[1].generation, l.source.payload)
    BY <1>1, <2>1 DEF LinkValid, BranchLinkValid, FingerprintMatches
  <2>3. NodeId(P[q]) = q
    BY <1>2
  <2>4. /\ prints[1].generation = GenerationFromSource(P[q].source)
        /\ prints[1].created_at = P[q].created_at
        /\ prints[1].kind = P[q].source.kind
    BY <1>2, <2>2 DEF LinkPrint, Generation, GenerationFromSource
  <2> HIDE DEF q
  <2>5. P[i].source.generation = NodeFingerprint(P[q]).generation + 1
    BY <1>2, <2>2, <2>4 DEF NodeFingerprint
  <2>6. P[i].hash = BranchHashOf(P[q], P[i].source.payload)
    BY <1>2, <2>2, <2>3, <2>4 DEF BranchHashOf, DeriveBranchHash, BranchDigest
  <2> QED
    BY <2>5, <2>6
<1>6. MembersHold(P, P[i])
  <2> DEFINE ids == NodeDependencies(P[i])
             stated == [k \in DOMAIN prints |-> PrintId(prints[k])]
             nodes == [k \in DOMAIN ids |-> P[ids[k]]]
  <2> SUFFICES ASSUME P[i].source.kind \in {"Batch", "Pack"}
               PROVE  P[i].hash = AggregateHashOf(nodes)
    BY DEF MembersHold
  <2>1. l.source.kind \in {"Batch", "Pack"}
    BY <1>2
  <2>2. ids = stated
    BY <1>3, <2>1, AcceptedDependencies
  <2>3. l.hash = MembersDigest([k \in DOMAIN prints |-> PrintFingerprint(prints[k])])
    BY <2>1, AcceptedMembers
  <2>4. DOMAIN nodes = DOMAIN prints
    BY <2>2
  <2>5. ASSUME NEW k \in DOMAIN prints
        PROVE  AggregateMember(nodes[k]) = PrintFingerprint(prints[k])
    <3> DEFINE d == PrintId(prints[k])
    <3>1. d \in DOMAIN links /\ prints[k] = LinkPrint(links[d])
      BY AcceptedPrints
    <3>2. nodes[k] = P[d]
      BY <2>2
    <3> HIDE DEF d, nodes
    <3> QED
      BY <1>2, <3>1, <3>2 DEF AggregateMember, PrintFingerprint, LinkPrint
  <2> HIDE DEF nodes
  <2>6. [k \in DOMAIN nodes |-> AggregateMember(nodes[k])] =
        [k \in DOMAIN prints |-> PrintFingerprint(prints[k])]
    BY <2>4, <2>5
  <2> QED
    BY <1>2, <2>3, <2>6 DEF AggregateHashOf, AggregateHashDigest, MembersDigest
<1> QED
  BY <1>4, <1>5, <1>6 DEF P

\* What the program accepts parses as an archive, and states no fingerprint
\* that is not that of a link.
LEMMA AcceptedImports ==
    ASSUME NEW links, NEW tip, Accepted(links, tip)
    PROVE  CanImport(links)
<1> DEFINE P == Imported(links)
<1>1. /\ DOMAIN P = DOMAIN links
      /\ \A i \in DOMAIN links : P[i] = ImportedNode(links[i])
  BY DEF Imported
<1> HIDE DEF P
<1>2. ASSUME NEW i \in DOMAIN links PROVE ImportFits(links[i])
  <2> DEFINE l == links[i]
             prints == l.params.prints
  <2>1. LinkFits(l) /\ LinkValid(links, i, i \in {tip}, MaxGeneration)
    BY AcceptedLink
  <2>2. CASE l.params = NoParams
    BY <2>2 DEF ImportFits
  <2>3. CASE l.params # NoParams
    <3>1. l.params.kind = l.source.kind
      BY <2>1, <2>3 DEF LinkFits
    <3>2. l.source.kind = "Hash" => l.params.data = <<l.hash>>
      BY <2>1, <2>3 DEF LinkValid, HashLinkValid
    <3>3. l.source.kind = "Branch" => FingerprintId(prints[1]) = l.source.previous
      BY <2>1 DEF LinkValid, BranchLinkValid, PrintId, FingerprintId, CanonicalHashId
    <3>4. l.source.kind = "Batch" =>
             [k \in DOMAIN prints |-> FingerprintId(prints[k])] = l.source.members
      BY <2>1 DEF LinkValid, BatchLinkValid, PrintId, FingerprintId, CanonicalHashId
    <3> QED
      BY <3>1, <3>2, <3>3, <3>4 DEF ImportFits
  <2> QED
    BY <2>2, <2>3
<1>3. PrintsConsistent(links)
  <2> SUFFICES ASSUME NEW i \in DOMAIN links, NEW k \in DOMAIN links[i].params.prints
               PROVE  LET print == links[i].params.prints[k] IN
                      /\ FingerprintId(print) \in DOMAIN links
                      /\ links[FingerprintId(print)].created_at = print.created_at
                      /\ GenerationFromSource(links[FingerprintId(print)].source) =
                            print.generation
    BY DEF PrintsConsistent
  <2> DEFINE print == links[i].params.prints[k]
  <2>1. PrintId(print) \in DOMAIN links /\ print = LinkPrint(links[PrintId(print)])
    BY AcceptedPrints
  <2>2. FingerprintId(print) = PrintId(print)
    BY DEF FingerprintId, CanonicalHashId, PrintId
  <2> HIDE DEF print
  <2>3. /\ links[PrintId(print)].created_at = print.created_at
        /\ GenerationFromSource(links[PrintId(print)].source) = print.generation
    BY <2>1 DEF LinkPrint, Generation, GenerationFromSource
  <2> QED
    BY <2>1, <2>2, <2>3 DEF print
<1>4. \A i \in DOMAIN P : NodeId(P[i]) = i /\ NodeParses(P[i])
  BY <1>1, AcceptedNodeParses
<1>5. CycleFree(P)
  <2> SUFFICES ASSUME NEW S \in SUBSET DOMAIN links, S # {}
               PROVE  \E i \in S : Range(NodeDependencies(P[i])) \cap S = {}
    BY <1>1 DEF CycleFree
  <2>1. PICK i \in S : LinkDependencies(links[i]) \cap S = {}
    BY DEF Accepted, GraphAccepted, Acyclic
  <2>2. Range(NodeDependencies(P[i])) = LinkDependencies(links[i])
    BY <1>1, AcceptedDependencies
  <2> QED
    BY <2>1, <2>2
<1>6. Commitments(P)
  BY <1>1, AcceptedCommits DEF Commitments, P
<1>7. Valid(P)
  BY <1>1, <1>4, <1>5, <1>6 DEF Valid, Accepted
<1> QED
  BY <1>2, <1>3, <1>7 DEF CanImport, P

\* What determines a node determines its witness: the metadata is in the hash
\* of an account, the members are in that of a pack.
LEMMA SameWitness ==
    ASSUME NEW A, NEW B, NEW i, Provable(A, i), Provable(B, i), Same(A[i], B[i])
    PROVE  A[i].witness = B[i].witness
<1> DEFINE n == A[i]
           o == B[i]
<1>1. n.hash = o.hash /\ n.source = o.source
  BY DEF Same, SnapshotOf
<1>2. /\ NodeParses(n) /\ NodeParses(o) /\ Optional(n.witness) /\ Optional(o.witness)
      /\ Rooted(A, i) /\ Rooted(B, i)
  BY DEF Provable, Rooted, NodeShaped
<1>3. CASE n.source.kind = "Account"
  <2>1. /\ n.hash = <<"metadata", n.source.account, n.witness[1]>>
        /\ o.hash = <<"metadata", o.source.account, o.witness[1]>>
        /\ n.witness # Unknown /\ o.witness # Unknown
    BY <1>1, <1>3 DEF Provable, Rooted, SnapshotHolds, DeriveAccountSnapshotHash
  <2>2. n.hash[3] = n.witness[1]
    BY <2>1
  <2>3. o.hash[3] = o.witness[1]
    BY <2>1
  <2> QED
    BY <1>1, <1>2, <2>1, <2>2, <2>3 DEF Optional, Unknown
<1>4. CASE n.source.kind = "Pack"
  <2> DEFINE ids == NodeDependencies(n)
             others == NodeDependencies(o)
             mine == [k \in DOMAIN ids |-> AggregateMember(A[ids[k]])]
             theirs == [k \in DOMAIN others |-> AggregateMember(B[others[k]])]
  <2>1. n.witness = <<ids>> /\ o.witness = <<others>>
    BY <1>1, <1>2, <1>4 DEF Rooted, DependenciesKnown, NodeDependencies, Optional, Unknown
  <2>2. /\ n.hash = <<"members", mine>>
        /\ \A k \in DOMAIN ids : NodeId(A[ids[k]]) = ids[k]
    BY <1>2, <1>4, MembersCommit
  <2>3. /\ o.hash = <<"members", theirs>>
        /\ \A k \in DOMAIN others : NodeId(B[others[k]]) = others[k]
    BY <1>1, <1>2, <1>4, MembersCommit
  <2>4. ids = [k \in DOMAIN ids |-> ids[k]]
    BY <1>2, <1>4, MembersListed
  <2>5. others = [k \in DOMAIN others |-> others[k]]
    BY <1>1, <1>2, <1>4, MembersListed
  <2> HIDE DEF ids, others
  <2>6. mine = theirs
    <3>1. n.hash[2] = mine
      BY <2>2
    <3>2. o.hash[2] = theirs
      BY <2>3
    <3> QED
      BY <1>1, <3>1, <3>2
  <2>7. DOMAIN ids = DOMAIN others
    BY <2>6
  <2>8. ASSUME NEW k \in DOMAIN ids PROVE ids[k] = others[k]
    <3>1. AggregateMember(A[ids[k]]) = AggregateMember(B[others[k]])
      BY <2>6, <2>7
    <3> QED
      BY <2>2, <2>3, <2>7, <3>1 DEF AggregateMember, NodeId, CanonicalHashId
  <2>9. ids = others
    BY <2>4, <2>5, <2>7, <2>8
  <2> QED
    BY <2>1, <2>9
<1>5. CASE n.source.kind \notin {"Account", "Pack"}
  BY <1>1, <1>2, <1>5 DEF NodeParses
<1> QED
  BY <1>3, <1>4, <1>5

\* Everything behind the tip of an accepted proof is in it, and it is all.
LEMMA AcceptedIsBehindTip ==
    ASSUME NEW links, NEW tip, Accepted(links, tip)
    PROVE  LET P == Imported(links) IN
           Behind(P, {tip}) = DOMAIN links /\ CanOrder(P, {tip})
<1> DEFINE P == Imported(links)
           D == Behind(P, {tip})
<1>1. /\ DOMAIN P = DOMAIN links /\ tip \in DOMAIN links
      /\ \A i \in DOMAIN links : /\ DependenciesKnown(P[i])
                                 /\ Range(NodeDependencies(P[i])) = LinkDependencies(links[i])
                                 /\ LinkDependencies(links[i]) \subseteq DOMAIN links
  BY AcceptedLink, AcceptedDependencies DEF Imported, Accepted, GraphAccepted
<1> HIDE DEF P
<1>2. D \subseteq DOMAIN links
  BY <1>1, BehindIsLeast
<1>3. /\ tip \in D
      /\ \A j \in D : LinkDependencies(links[j]) \subseteq D
  <2>1. {tip} \subseteq D /\ \A j \in D \cap DOMAIN P : Range(NodeDependencies(P[j])) \subseteq D
    BY BehindIsClosed
  <2> HIDE DEF D
  <2> QED
    BY <1>1, <1>2, <2>1
<1>4. D = DOMAIN links
  <2> HIDE DEF D
  <2> QED
    BY <1>2, <1>3 DEF Accepted, GraphAccepted, AllBehind
<1>5. CanOrder(P, {tip})
  BY <1>1, <1>4 DEF CanOrder
<1> QED
  BY <1>4, <1>5 DEF P

\* An archive that is closed behind the tip of an accepted proof has all of
\* its links, as the proof has them.
LEMMA AcceptedIsPart ==
    ASSUME NEW links, NEW tip, Accepted(links, tip), WellShaped(Imported(links)),
           NEW A, WellShaped(A), Valid(A), tip \in DOMAIN A,
           Same(A[tip], links[tip]), Closed(A, tip)
    PROVE  PartOf(Imported(links), A)
<1> DEFINE P == Imported(links)
<1>1. /\ DOMAIN P = DOMAIN links /\ Valid(P)
      /\ Behind(P, {tip}) = DOMAIN P /\ CanOrder(P, {tip})
  BY AcceptedImports, AcceptedIsBehindTip DEF CanImport, Imported
<1>2. tip \in DOMAIN P /\ Same(A[tip], P[tip])
  BY <1>1 DEF Accepted, GraphAccepted, Imported, ImportedNode, Same, SnapshotOf
<1>3. CASE links[tip].source.kind = "Account"
  <2>1. LinkDependencies(links[tip]) = {}
    BY <1>3 DEF LinkDependencies
  <2>2. DOMAIN links = {tip}
    <3>1. {tip} \in SUBSET DOMAIN links /\ AllBehind(links, tip)
      BY DEF Accepted, GraphAccepted
    <3> QED
      BY <2>1, <3>1, Zenon DEF AllBehind
  <2>3. P[tip].source.kind = "Account"
    BY <1>1, <1>2, <1>3 DEF Imported, ImportedNode
  <2> HIDE DEF P
  <2>4. Provable(A, tip) /\ Rooted(P, tip)
    BY <1>1, <1>2, BehindIsClosed, ClosedIsProvable, OrderedIsRooted DEF P
  <2>5. P[tip].witness # Unknown => P[tip].witness = A[tip].witness
    BY <1>2, <2>4, SameWitness DEF Provable
  <2>6. PartOfNode(P[tip], A[tip])
    BY <1>2, <2>5 DEF PartOfNode, Same
  <2> QED
    BY <1>1, <2>2, <2>6 DEF PartOf, P
<1>4. CASE links[tip].source.kind # "Account"
  <2>1. ASSUME NEW i \in DOMAIN P, P[i].source.kind = "Account" PROVE P[i].witness # Unknown
    <3>1. links[i].source.kind = "Account" /\ i # tip
      BY <1>1, <1>4, <2>1 DEF Imported, ImportedNode
    <3>2. LinkFits(links[i]) /\ LinkValid(links, i, i \in {tip}, MaxGeneration)
      BY <1>1, AcceptedLink
    <3>3. links[i].params.data # <<>>
      BY <3>1, <3>2 DEF LinkValid, AccountLinkValid
    <3>4. links[i].params.kind = "Account"
      BY <3>1, <3>2 DEF LinkFits
    <3> QED
      BY <1>1, <3>3, <3>4 DEF Imported, ImportedNode, Unknown
  <2> HIDE DEF P
  <2>2. Closed(P, tip)
    <3>1. \A i \in DOMAIN P : P[i].source.kind = "Pack" => P[i].witness # Unknown
      BY <1>1 DEF CanOrder, DependenciesKnown
    <3> QED
      BY <1>1, <2>1, <3>1 DEF Closed, MissingWitnesses
  <2>3. /\ Behind(A, {tip}) = DOMAIN P
        /\ \A j \in DOMAIN P : Same(A[j], P[j])
    BY <1>1, <1>2, <2>2, HistoryIsOne DEF P
  <2>4. ASSUME NEW j \in DOMAIN P
        PROVE  j \in DOMAIN A /\ PartOfNode(P[j], A[j])
    <3>1. Provable(A, j) /\ Provable(P, j)
      BY <1>1, <2>2, <2>3, ClosedIsProvable DEF P
    <3>2. A[j].witness = P[j].witness
      BY <2>3, <3>1, SameWitness
    <3> QED
      BY <2>3, <3>1, <3>2 DEF PartOfNode, Same, Provable, Rooted
  <2> QED
    BY <2>4 DEF PartOf, P
<1> QED
  BY <1>3, <1>4

\* Whatever proof the program accepts with nothing but its tip live, the SDK
\* imports, and an archive that is closed behind that tip learns nothing from
\* it (validate_graph of the program, archiveFromProof of the SDK).
THEOREM ProgramAndArchiveAgree == Spec => []AcceptedProofsAgree
<1>1. ASSUME ShelfInv, NEW p \in Proofs, Cardinality(DOMAIN p.links) <= NodeLimit,
             GraphAccepted(p.links, p.tip), ProofValid(p.links, {p.tip}, MaxGeneration)
      PROVE  CanImport(p.links) /\ WellShaped(Imported(p.links)) /\ Accepted(p.links, p.tip)
  <2>1. Accepted(p.links, p.tip)
    BY <1>1, InputsAssumption DEF Accepted
  <2> QED
    BY <2>1, AcceptedImports, ImportedShaped
<1>2. ASSUME ShelfInv, NEW p \in Proofs, Accepted(p.links, p.tip),
             WellShaped(Imported(p.links)), NEW s \in Shelves,
             p.tip \in DOMAIN shelf[s], Same(shelf[s][p.tip], p.links[p.tip]),
             Closed(shelf[s], p.tip)
      PROVE  MergeArchives(<<shelf[s], Imported(p.links)>>) = <<shelf[s]>>
  <2> DEFINE A == shelf[s]
             P == Imported(p.links)
  <2>1. WellShaped(A) /\ Valid(A)
    BY <1>2 DEF ShelfInv
  <2>2. PartOf(P, A)
    BY <1>2, <2>1, AcceptedIsPart
  <2>3. ASSUME NEW i \in DOMAIN P, P[i].witness = A[i].witness PROVE P[i] = A[i]
    <3>1. NodeShaped(P[i]) /\ NodeShaped(A[i]) /\ Same(P[i], A[i])
      BY <1>2, <2>1, <2>2 DEF WellShaped, PartOf, PartOfNode
    <3> QED
      BY <2>3, <3>1, SameNodes
  <2> HIDE DEF A, P
  <2> QED
    BY <2>1, <2>2, <2>3, MergePartBack DEF A, P
<1>3. ShelfInv => AcceptedProofsAgree
  BY <1>1, <1>2 DEF AcceptedProofsAgree
<1> QED
  BY <1>3, ShelvesAreArchives, PTL
=============================================================================
