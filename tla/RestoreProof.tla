---------------------------- MODULE RestoreProof -----------------------------
(***************************************************************************)
(* A restore proof as a value, and what the program demands of it before   *)
(* it looks at any destination (protocol/restore).  A proof has a tip, the *)
(* id of its first link, and its links by canonical id: that no two links  *)
(* share an id is the "Duplicate" check of module ProofGraph, which also   *)
(* models the walk that orders them.                                       *)
(*                                                                         *)
(* A link is a snapshot with params: the kind of the RestoreParameters     *)
(* ("None" if there are none), the fingerprints they list, and the data    *)
(* they carry: the payload of a hash, the account snapshot or nothing.     *)
(***************************************************************************)
EXTENDS Identity, Functions

\* A HashSource as it is decoded: the fields of its kind, and no other.
SourceShaped(source) ==
    /\ source.kind \in Kinds
    /\ source.kind = "Hash" => source = HashOrigin
    /\ source.kind = "Account" => source = AccountOrigin(source.account)
    /\ source.kind = "Branch" =>
          source = BranchOrigin(source.previous, source.payload, source.generation)
    /\ source.kind = "Batch" => source = BatchOrigin(source.members)
    /\ source.kind = "Pack" => source = PackOrigin

\* RestoreHashFingerprint: what a link says of a record it derives from.
LinkPrint(s) ==
    [hash |-> s.hash, kind |-> s.source.kind, created_at |-> s.created_at,
     generation |-> Generation(s.source)]

PrintId(print) == <<"id", print.hash, print.kind>>

PrintFingerprint(print) ==
    [hash |-> print.hash, kind |-> print.kind, created_at |-> print.created_at]

NoParams == [kind |-> "None", prints |-> <<>>, data |-> <<>>]

(***************************************************************************)
(* proof_dependencies: the ids a link derives from, and whether its        *)
(* parameters are of the kind of its source at all.  Only a raw hash may   *)
(* come without parameters.                                                *)
(***************************************************************************)
LinkFits(l) ==
    /\ \/ l.params.kind = l.source.kind
       \/ l.source.kind = "Hash" /\ l.params = NoParams
    /\ l.source.kind = "Batch" =>
          l.source.members # <<>> /\ l.params.prints # <<>> /\ IsInjective(l.source.members)
    /\ l.source.kind = "Pack" => l.params.prints # <<>>

LinkDependencies(l) ==
    IF l.source.kind = "Branch" THEN {l.source.previous}
    ELSE IF l.source.kind = "Batch" THEN {l.source.members[n] : n \in DOMAIN l.source.members}
    ELSE IF l.source.kind = "Pack" THEN {PrintId(l.params.prints[n]) : n \in DOMAIN l.params.prints}
    ELSE {}

(***************************************************************************)
(* build_proof_graph, as the property AcceptsExactlyHistories of ProofGraph*)
(* states its result: complete, without a cycle, all of it behind the tip. *)
(***************************************************************************)
Complete(links) == \A i \in DOMAIN links : LinkDependencies(links[i]) \subseteq DOMAIN links

\* Among any links there is one that derives from none of them.
Acyclic(links) ==
    \A S \in SUBSET DOMAIN links :
        S # {} => \E i \in S : LinkDependencies(links[i]) \cap S = {}

\* No set closed under dependencies has the tip and leaves a link out.
AllBehind(links, tip) ==
    \A S \in SUBSET DOMAIN links :
        tip \in S /\ (\A i \in S : LinkDependencies(links[i]) \subseteq S) => S = DOMAIN links

GraphAccepted(links, tip) ==
    /\ tip \in DOMAIN links
    /\ \A i \in DOMAIN links : IdOf(links[i]) = i /\ LinkFits(links[i])
    /\ Complete(links) /\ Acyclic(links) /\ AllBehind(links, tip)

(***************************************************************************)
(* validate_variant and its five cases.  exists says whether the record of *)
(* the link is live and was authenticated.  The payload of a raw hash, the *)
(* hash itself or a preimage of it, stands as the hash it is accepted for. *)
(***************************************************************************)
FingerprintMatches(print, l) == print = LinkPrint(l)

HashLinkValid(l) == l.params = NoParams \/ l.params.data = <<l.hash>>

AccountLinkValid(l, exists) ==
    IF l.params.data = <<>> THEN exists
    ELSE l.hash = MetadataDigest(l.source.account, l.params.data[1])

\* Mutant: the parent stated is not compared with the parent brought.
BranchLinkUnmatched(links, l, maxGeneration) ==
    LET parent == l.params.prints[1] IN
    /\ PrintId(parent) = l.source.previous
    /\ parent.generation < maxGeneration
    /\ l.source.generation = parent.generation + 1
    /\ l.hash = BranchDigest(l.source.previous, parent.kind, parent.created_at,
                             parent.generation, l.source.payload)

BranchLinkValid(links, l, maxGeneration) ==
    LET parent == l.params.prints[1] IN
    /\ PrintId(parent) = l.source.previous
    /\ FingerprintMatches(parent, links[l.source.previous])
    /\ parent.generation < maxGeneration
    /\ l.source.generation = parent.generation + 1
    /\ l.hash = BranchDigest(l.source.previous, parent.kind, parent.created_at,
                             parent.generation, l.source.payload)

\* Mutant: the timestamps of the members are taken from the proof, unchecked.
AggregateMatchesUndated(links, l) ==
    /\ \A n \in DOMAIN l.params.prints :
          [l.params.prints[n] EXCEPT !.created_at = 0] =
          [LinkPrint(links[PrintId(l.params.prints[n])]) EXCEPT !.created_at = 0]
    /\ l.hash = MembersDigest([n \in DOMAIN l.params.prints |->
                                  PrintFingerprint(l.params.prints[n])])

AggregateMatches(links, l) ==
    /\ \A n \in DOMAIN l.params.prints :
          FingerprintMatches(l.params.prints[n], links[PrintId(l.params.prints[n])])
    /\ l.hash = MembersDigest([n \in DOMAIN l.params.prints |->
                                  PrintFingerprint(l.params.prints[n])])

BatchLinkValid(links, l) ==
    /\ l.source.members = [n \in DOMAIN l.params.prints |-> PrintId(l.params.prints[n])]
    /\ AggregateMatches(links, l)

PackLinkValid(links, l) ==
    /\ IsInjective([n \in DOMAIN l.params.prints |-> PrintId(l.params.prints[n])])
    /\ AggregateMatches(links, l)

LinkValid(links, i, exists, maxGeneration) ==
    LET l == links[i] IN
    /\ l.created_at # 0
    /\ l.source.kind = "Hash" => HashLinkValid(l)
    /\ l.source.kind = "Account" => AccountLinkValid(l, exists)
    /\ l.source.kind = "Branch" => BranchLinkValid(links, l, maxGeneration)
    /\ l.source.kind = "Batch" => BatchLinkValid(links, l)
    /\ l.source.kind = "Pack" => PackLinkValid(links, l)

\* validate_graph, with the ids of the records that are live and matching.
ProofValid(links, existing, maxGeneration) ==
    \A i \in DOMAIN links : LinkValid(links, i, i \in existing, maxGeneration)
=============================================================================
