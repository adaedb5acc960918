------------------------------ MODULE Identity ------------------------------
(***************************************************************************)
(* What identifies a hash record: the five sources a record may come from, *)
(* the digests their hashes are computed with, the canonical id and the    *)
(* account addresses derived from it.  Pure operators; the state machines  *)
(* of the project are built from them.                                     *)
(*                                                                         *)
(* A digest is the tuple of what was hashed, headed by a tag that names    *)
(* the preimage layout.  Two digests are then equal exactly when they      *)
(* digest the same values in the same layout: SHA-256 is taken as          *)
(* injective, and the fixed-width layouts of the source as unambiguous.    *)
(* A program-derived address is taken as injective in its seeds.           *)
(***************************************************************************)
EXTENDS Naturals, Sequences

(***************************************************************************)
(* HashSource: a record whose "kind" field is the enum variant.  The kind  *)
(* stands for the discriminator byte, with which it is in bijection.       *)
(***************************************************************************)
HashOrigin == [kind |-> "Hash"]
AccountOrigin(account) == [kind |-> "Account", account |-> account]
BranchOrigin(previous, payload, generation) ==
    [kind |-> "Branch", previous |-> previous, payload |-> payload,
     generation |-> generation]
BatchOrigin(members) == [kind |-> "Batch", members |-> members]
PackOrigin == [kind |-> "Pack"]

Kinds == {"Hash", "Account", "Branch", "Batch", "Pack"}

\* HashSource::generation: only a branch counts its distance from a root.
Generation(source) == IF source.kind = "Branch" THEN source.generation ELSE 0

\* HASH_ACCOUNT_BASE_SIZE and VOTE_INFO_SPACE: bytes, discriminator included.
HashBaseSize == 57
VoteInfoSpace == 88

\* HashSource::allocated_source_space, tag and compatibility padding included.
FixedSourceSpace == [Hash |-> 7, Account |-> 39, Branch |-> 79, Pack |-> 7]

AllocatedSourceSpace(source) ==
    IF source.kind = "Batch" THEN 7 + 32 * Len(source.members)
    ELSE FixedSourceSpace[source.kind]

\* HashSource::space.
Space(source) == HashBaseSize + AllocatedSourceSpace(source)

(***************************************************************************)
(* Digests.  BranchDigest commits to one incarnation of the parent (its id *)
(* and its created_at); MembersDigest to the fingerprints of the members   *)
(* in order.  Batch and Pack share the digest: only the kind in the        *)
(* canonical id tells a batch from a pack of the same members.             *)
(***************************************************************************)
CanonicalIdWithoutKind(hash, source) == <<"id", hash>>  \* Mutant.

CanonicalId(hash, source) == <<"id", hash, source.kind>>

BranchDigest(previous, kind, createdAt, generation, payload) ==
    <<"branch", previous, kind, createdAt, generation, payload>>

MetadataDigest(account, version) == <<"metadata", account, version>>

MembersDigest(fingerprints) == <<"members", fingerprints>>

(***************************************************************************)
(* A snapshot is the immutable part of a record: hash, source, created_at. *)
(***************************************************************************)
SnapshotOf(r) == [hash |-> r.hash, source |-> r.source, created_at |-> r.created_at]

IdOf(s) == CanonicalId(s.hash, s.source)

Fingerprint(s) ==
    [hash |-> s.hash, kind |-> s.source.kind, created_at |-> s.created_at]

\* branch_source_from_snapshot: hash and source of the child of snapshot s.
BranchHash(s, payload) ==
    BranchDigest(IdOf(s), s.source.kind, s.created_at, Generation(s.source), payload)

BranchSource(s, payload) ==
    BranchOrigin(IdOf(s), payload, Generation(s.source) + 1)

\* compose_batch and compose_pack over a sequence of member snapshots.
MembersHash(members) ==
    MembersDigest([i \in DOMAIN members |-> Fingerprint(members[i])])

BatchSource(members) == BatchOrigin([i \in DOMAIN members |-> IdOf(members[i])])

\* The accounts that hold lamports: a user's wallet, a record, a vote.
Wallet(user) == <<"wallet", user>>
HashAddress(id) == <<"hash", id>>
VoteAddress(id, voter) == <<"vote", id, voter>>
=============================================================================
