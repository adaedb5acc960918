------------------------------- MODULE Archive -------------------------------
(***************************************************************************)
(* Archives of the SDK, as values: the history users keep off-chain to     *)
(* restore it from (src/app/sdk/archive).  An archive is a function from   *)
(* canonical ids to nodes.  A node is a snapshot and a witness, Unknown or *)
(* a one-element sequence: the ids of the members of a pack, the metadata  *)
(* of an account.  A node's address is the program-derived address of its  *)
(* id, so the id stands for it.  One program is assumed: an archive of     *)
(* another is refused by every operator here.                              *)
(***************************************************************************)
EXTENDS RestoreProof, ClientProtocol, FiniteSets

CONSTANTS
    NodeLimit,        \* MAX_ARCHIVE_NODES
    GenerationLimit   \* the largest u64

ASSUME LimitsAssumption == {NodeLimit, GenerationLimit} \subseteq Nat

Unknown == <<>>

(***************************************************************************)
(* ArchiveNode, and a link of a proof that is to be imported: the fields   *)
(* their types have, and no other.                                         *)
(***************************************************************************)
IsList(ids) == ids \in Seq(Range(ids))

Optional(value) == value = <<>> \/ value = <<value[1]>>

NodeShaped(n) ==
    /\ n = [hash |-> n.hash, source |-> n.source, created_at |-> n.created_at,
            witness |-> n.witness]
    /\ SourceShaped(n.source)
    /\ n.source.kind = "Batch" => IsList(n.source.members)
    /\ Optional(n.witness)
    /\ n.source.kind = "Pack" /\ n.witness # Unknown => IsList(n.witness[1])

LinkShaped(l) ==
    /\ SourceShaped(l.source)
    /\ l.source.kind = "Batch" => IsList(l.source.members)
    /\ IsList(l.params.prints) /\ Optional(l.params.data)
    /\ l.params.kind \notin {"Branch", "Batch", "Pack"} => l.params.prints = <<>>
    /\ l.params.kind = "Branch" => l.params.prints = <<l.params.prints[1]>>

\* sameArchiveRecord, and the core mergeArchives compares.
Same(n, q) == SnapshotOf(n) = SnapshotOf(q)

(***************************************************************************)
(* nodeDependencies.  Those of a pack are its witness.                     *)
(***************************************************************************)
DependenciesKnown(n) == n.source.kind = "Pack" => n.witness # Unknown

NodeDependencies(n) ==
    IF n.source.kind = "Branch" THEN <<n.source.previous>>
    ELSE IF n.source.kind = "Batch" THEN n.source.members
    ELSE IF n.source.kind = "Pack" /\ n.witness # Unknown THEN n.witness[1]
    ELSE <<>>

(***************************************************************************)
(* dependencyOrder, without the order: what is behind the roots, missing   *)
(* ids included.  Module DependencyOrder has the traversal.                *)
(***************************************************************************)
Mentioned(A) == DOMAIN A \cup UNION {Range(NodeDependencies(A[i])) : i \in DOMAIN A}

\* Mutant: the dependencies of dependencies are left to the caller.
BehindOneLevel(A, roots) ==
    roots \cup UNION {Range(NodeDependencies(A[i])) : i \in roots \cap DOMAIN A}

Behind(A, roots) ==
    {i \in roots \cup Mentioned(A) :
        \A S \in SUBSET (roots \cup Mentioned(A)) :
            /\ roots \subseteq S
            /\ \A j \in S \cap DOMAIN A : Range(NodeDependencies(A[j])) \subseteq S
            => i \in S}

CanOrder(A, roots) ==
    \A i \in Behind(A, roots) : i \in DOMAIN A /\ DependenciesKnown(A[i])

CycleFree(A) ==
    \A S \in SUBSET DOMAIN A :
        S # {} => \E i \in S : Range(NodeDependencies(A[i])) \cap S = {}

(***************************************************************************)
(* inspectArchiveGraph: every commitment whose inputs are there must hold, *)
(* and what is not there is reported.                                      *)
(***************************************************************************)
SnapshotHolds(n) ==
    n.source.kind = "Account" /\ n.witness # Unknown =>
        n.hash = DeriveAccountSnapshotHash(n.source.account, n.witness[1])

ParentHolds(A, n) ==
    n.source.kind = "Branch" /\ n.source.previous \in DOMAIN A =>
        LET parent == A[n.source.previous] IN
        /\ n.source.generation = NodeFingerprint(parent).generation + 1
        /\ n.hash = BranchHashOf(parent, n.source.payload)

MembersHold(A, n) ==
    /\ n.source.kind \in {"Batch", "Pack"} /\ DependenciesKnown(n)
    /\ Range(NodeDependencies(n)) \subseteq DOMAIN A
    => LET ids == NodeDependencies(n)
       IN  n.hash = AggregateHashOf([k \in DOMAIN ids |-> A[ids[k]]])

\* Mutant: a member list is believed.
CommitmentsButMembers(A) == \A i \in DOMAIN A : SnapshotHolds(A[i]) /\ ParentHolds(A, A[i])

Commitments(A) ==
    \A i \in DOMAIN A : SnapshotHolds(A[i]) /\ ParentHolds(A, A[i]) /\ MembersHold(A, A[i])

MissingNodes(A) == Mentioned(A) \ DOMAIN A

MissingWitnesses(A) ==
    {i \in DOMAIN A : A[i].source.kind \in {"Account", "Pack"} /\ A[i].witness = Unknown}

(***************************************************************************)
(* parseArchive: what an archive must be to be one.                        *)
(***************************************************************************)
MemberList(ids) == ids # <<>> /\ IsInjective(ids)

NodeParses(n) ==
    /\ n.created_at # 0
    /\ n.source.kind = "Branch" => n.source.generation \in 1..GenerationLimit
    /\ n.source.kind = "Batch" => MemberList(n.source.members)
    /\ n.witness # Unknown =>
          \/ n.source.kind = "Account"
          \/ n.source.kind = "Pack" /\ MemberList(n.witness[1])

Valid(A) ==
    /\ Cardinality(DOMAIN A) <= NodeLimit
    /\ \A i \in DOMAIN A : NodeId(A[i]) = i /\ NodeParses(A[i])
    /\ CycleFree(A)
    /\ Commitments(A)

Empty == <<>>
Single(n) == [i \in {NodeId(n)} |-> n]

\* An operation returns an archive, in a sequence of one, or throws.
Thrown == <<>>

(***************************************************************************)
(* mergeArchives.  Joined keeps the earlier node, or what it lacks.  Of    *)
(* more than two archives only the inputs and the result are parsed.       *)
(***************************************************************************)
\* Mutant: the later node of two wins.
LaterNode(p, n) == n

Joined(p, n) == IF p.witness # Unknown THEN p ELSE n

Merged(A, B) ==
    [i \in DOMAIN A \cup DOMAIN B |->
        IF i \notin DOMAIN B THEN A[i]
        ELSE IF i \notin DOMAIN A THEN B[i]
        ELSE Joined(A[i], B[i])]

\* Mutant: two incarnations of a record are one node.
CompatibleAnyTime(p, n) ==
    /\ p.hash = n.hash /\ p.source = n.source
    /\ p.witness # Unknown /\ n.witness # Unknown => p.witness = n.witness

Compatible(p, n) ==
    /\ Same(p, n)
    /\ p.witness # Unknown /\ n.witness # Unknown => p.witness = n.witness

Joinable(A, B) == \A i \in DOMAIN A \cap DOMAIN B : Compatible(A[i], B[i])

\* What the merge has after each of the archives.
Merging(archives) ==
    LET merging[k \in DOMAIN archives] ==
            IF k = 1 THEN archives[1] ELSE Merged(merging[k - 1], archives[k])
    IN  merging

MergeOf(archives) == Merging(archives)[Len(archives)]

\* Mutant: the result is not parsed again.
CanMergeUnparsed(archives) ==
    /\ \A k \in DOMAIN archives : Valid(archives[k])
    /\ \A k \in DOMAIN archives \ {1} : Joinable(Merging(archives)[k - 1], archives[k])

CanMerge(archives) ==
    /\ \A k \in DOMAIN archives : Valid(archives[k])
    /\ \A k \in DOMAIN archives \ {1} : Joinable(Merging(archives)[k - 1], archives[k])
    /\ Valid(MergeOf(archives))

MergeArchives(archives) == IF CanMerge(archives) THEN <<MergeOf(archives)>> ELSE Thrown

(***************************************************************************)
(* selectArchive.                                                          *)
(***************************************************************************)
SelectionIds(A, ids, withDependencies) ==
    IF withDependencies THEN Behind(A, ids) ELSE ids

Selection(A, ids, withDependencies) ==
    [i \in SelectionIds(A, ids, withDependencies) |-> A[i]]

CanSelect(A, ids, withDependencies) ==
    /\ Valid(A)
    /\ withDependencies => CanOrder(A, ids)
    /\ ids \subseteq DOMAIN A
    /\ Valid(Selection(A, ids, withDependencies))

SelectArchive(A, ids, withDependencies) ==
    IF CanSelect(A, ids, withDependencies) THEN <<Selection(A, ids, withDependencies)>>
    ELSE Thrown

(***************************************************************************)
(* buildRestoreProof: the link of each node behind the anchor.             *)
(***************************************************************************)
MemberPrints(A, n) ==
    LET ids == NodeDependencies(n) IN [k \in DOMAIN ids |-> NodeFingerprint(A[ids[k]])]

\* Mutant: the snapshot of an account is kept to oneself.
LinkDataKept(n, target, existing) == IF n.source.kind = "Hash" THEN <<n.hash>> ELSE <<>>

LinkData(n, target, existing) ==
    IF n.source.kind = "Hash" THEN <<n.hash>>
    ELSE IF n.source.kind = "Account" /\ ~existing THEN n.witness
    ELSE <<>>

BuiltParams(A, n, target, existing) ==
    IF n.source.kind = "Hash" /\ ~target THEN NoParams
    ELSE [kind |-> n.source.kind, prints |-> MemberPrints(A, n),
          data |-> LinkData(n, target, existing)]

CanBuild(A, anchor, targets, existing) ==
    /\ Valid(A)
    /\ CanOrder(A, {anchor})
    /\ targets \subseteq Behind(A, {anchor})
    /\ \A i \in Behind(A, {anchor}) \ (existing \cup {anchor}) :
          A[i].source.kind = "Account" => A[i].witness # Unknown

Built(A, anchor, targets, existing) ==
    [tip |-> anchor,
     links |-> [i \in Behind(A, {anchor}) |->
                   [hash |-> A[i].hash, source |-> A[i].source,
                    created_at |-> A[i].created_at,
                    params |-> BuiltParams(A, A[i], i \in targets,
                                           i \in existing \cup {anchor})]]]

(***************************************************************************)
(* archiveFromProof, of a proof without two links of one id.               *)
(***************************************************************************)
ImportedNode(l) ==
    [hash |-> l.hash, source |-> l.source, created_at |-> l.created_at,
     witness |->
        IF l.params.kind = "Pack"
        THEN <<[k \in DOMAIN l.params.prints |-> FingerprintId(l.params.prints[k])]>>
        ELSE IF l.params.kind = "Account" THEN l.params.data
        ELSE Unknown]

Imported(links) == [i \in DOMAIN links |-> ImportedNode(links[i])]

\* Mutant: a raw hash needs its payload, as other links need parameters.
ImportFitsFully(l) == l.params.kind = l.source.kind

ImportFits(l) ==
    \/ l.params = NoParams
    \/ /\ l.params.kind = l.source.kind
       /\ l.source.kind = "Hash" => l.params.data = <<l.hash>>
       /\ l.source.kind = "Branch" => FingerprintId(l.params.prints[1]) = l.source.previous
       /\ l.source.kind = "Batch" =>
             [k \in DOMAIN l.params.prints |-> FingerprintId(l.params.prints[k])] = l.source.members

\* No fingerprint a link states contradicts the node it is about.
PrintsConsistent(links) ==
    \A i \in DOMAIN links : \A k \in DOMAIN links[i].params.prints :
        LET print == links[i].params.prints[k] IN
        /\ FingerprintId(print) \in DOMAIN links
        /\ links[FingerprintId(print)].created_at = print.created_at
        /\ GenerationFromSource(links[FingerprintId(print)].source) = print.generation

CanImport(links) ==
    /\ \A i \in DOMAIN links : ImportFits(links[i])
    /\ Valid(Imported(links))
    /\ PrintsConsistent(links)

ArchiveFromProof(links) == IF CanImport(links) THEN <<Imported(links)>> ELSE Thrown
=============================================================================
