---------------------------- MODULE ClientProtocol ----------------------------
(***************************************************************************)
(* What the SDK computes of a record without asking the chain              *)
(* (sdk/protocol/hashes.ts, sdk/protocol/source.ts, sdk/archive/values.ts).*)
(* It is a second implementation of what module Identity takes from the    *)
(* program, and is translated from its own source: an archive, a proof or  *)
(* an address of the SDK is worth something only if the two agree.         *)
(*                                                                         *)
(* Digests are tuples headed by the layout of their preimage, as there.    *)
(***************************************************************************)
EXTENDS Naturals, Sequences

CanonicalHashId(hash, kind) == <<"id", hash, kind>>

GenerationFromSource(source) ==
    IF source.kind = "Branch" THEN source.generation ELSE 0

\* Of what getAccountInfo answers, and of a snapshot kept of it.
DeriveAccountMetadataHash(account, info) == <<"metadata", account, info>>
DeriveAccountSnapshotHash(account, snapshot) == <<"metadata", account, snapshot>>

\* Mutant: the generation hashed is the child's.
DeriveBranchHashOfChild(previousId, createdAt, generation, kind, payload) ==
    <<"branch", previousId, kind, createdAt, generation + 1, payload>>

DeriveBranchHash(previousId, createdAt, generation, kind, payload) ==
    <<"branch", previousId, kind, createdAt, generation, payload>>

\* deriveBatchHash and derivePackHash: the same digest of both.
AggregateMember(n) == [hash |-> n.hash, kind |-> n.source.kind, created_at |-> n.created_at]
AggregateHashDigest(members) == <<"members", members>>

NodeId(n) == CanonicalHashId(n.hash, n.source.kind)

\* nodeFingerprint, and the id of the record a fingerprint is of.
NodeFingerprint(n) ==
    [hash |-> n.hash, kind |-> n.source.kind, created_at |-> n.created_at,
     generation |-> GenerationFromSource(n.source)]

FingerprintId(print) == CanonicalHashId(print.hash, print.kind)

\* The hash of a branch of node n, and of an aggregate of nodes.
BranchHashOf(n, payload) ==
    DeriveBranchHash(NodeId(n), n.created_at, GenerationFromSource(n.source),
                     n.source.kind, payload)

AggregateHashOf(nodes) == AggregateHashDigest([k \in DOMAIN nodes |-> AggregateMember(nodes[k])])
=============================================================================
