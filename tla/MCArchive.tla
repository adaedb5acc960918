------------------------------ MODULE MCArchive ------------------------------
(***************************************************************************)
(* The nodes and proofs of a small world: a root, an account, a branch of  *)
(* the root, the pack of root and account, the batch of pack and branch    *)
(* (the root is behind it twice), and what may contradict them.            *)
(***************************************************************************)
EXTENDS ArchiveLibrary, TLC

CONSTANTS h1, p1, a1, a2

MCRecord(source, hash, t) == [hash |-> hash, source |-> source, created_at |-> t]

MCNode(s, witness) ==
    [hash |-> s.hash, source |-> s.source, created_at |-> s.created_at,
     witness |-> witness]

Root(t) == MCRecord(HashOrigin, h1, t)
Meta(a) == MCRecord(AccountOrigin(a), MetadataDigest(a1, 0), 1)
Child == MCRecord(BranchSource(Root(1), p1), BranchHash(Root(1), p1), 2)
ChildTooOld == [Child EXCEPT !.source.generation = 2]
Packed == MCRecord(PackOrigin, MembersHash(<<Root(1), Meta(a1)>>), 2)
Batched == MCRecord(BatchSource(<<Packed, Child>>), MembersHash(<<Packed, Child>>), 2)
Repacked == MCRecord(PackOrigin, MembersHash(<<Packed>>), 2)

\* Honest nodes, with and without their witnesses.
MCHonest ==
    {MCNode(s, Unknown) : s \in {Root(1), Meta(a1), Child, Packed, Batched}}
        \cup {MCNode(Meta(a1), <<0>>), MCNode(Packed, <<<<IdOf(Root(1)), IdOf(Meta(a1))>>>>)}

\* Another incarnation of the root, and nodes no archive can show to be
\* wrong while what they derive from is missing.
MCDoubtful ==
    {MCNode(s, Unknown) : s \in {Root(2), Meta(a2), ChildTooOld}}
        \cup {MCNode(Packed, <<<<IdOf(Child)>>>>)}

\* Two packs, one with a member list that would make each derive from the other.
MCCircular ==
    {MCNode(Packed, <<<<IdOf(Repacked), IdOf(Batched)>>>>),
     MCNode(Repacked, <<<<IdOf(Packed)>>>>)}

MCOfIds(nodes, ids) == {n \in nodes : IdOf(n) \in ids}

MCAll == MCHonest \cup MCDoubtful \cup MCCircular

\* For the merges: less records, the same doubts.
MCMergeNodes ==
    MCOfIds(MCAll, {IdOf(s) : s \in {Root(1), Meta(a1), Child, Packed}})

\* The link of a snapshot, deriving from what the list says.
MCLink(s, prints, data) ==
    [hash |-> s.hash, source |-> s.source, created_at |-> s.created_at,
     params |-> [kind |-> s.source.kind, prints |-> prints, data |-> data]]

MCBare(s) ==
    [hash |-> s.hash, source |-> s.source, created_at |-> s.created_at,
     params |-> NoParams]

MCProof(tip, links) ==
    [tip |-> IdOf(tip),
     links |-> [i \in {IdOf(l) : l \in links} |-> CHOOSE l \in links : IdOf(l) = i]]

MCRootLinks(t) == {MCBare(Root(t)), MCLink(Root(t), <<>>, <<h1>>)}

MCPackProofs ==
    UNION {{MCProof(Packed, {MCLink(Packed, <<LinkPrint(Root(stated)), LinkPrint(Meta(a1))>>, <<>>),
                             l, MCLink(Meta(a), <<>>, data)}) :
               l \in MCRootLinks(1) \cup MCRootLinks(2), data \in {<<>>, <<0>>, <<1>>}} :
           a \in {a1, a2}, stated \in 1..2}

MCChildProofs ==
    {MCProof(Child, {MCLink(Child, <<LinkPrint(Root(stated))>>, <<>>), l}) :
        l \in MCRootLinks(1) \cup MCRootLinks(2), stated \in 1..2}

\* A child without its parent, and a batch proof whose pack is brought bare.
MCShortProofs ==
    {MCProof(Child, {MCLink(Child, <<LinkPrint(Root(t))>>, <<>>)}) : t \in 1..2}

MCProofs == MCPackProofs \cup MCChildProofs \cup MCShortProofs

\* The users are alike: the two shelves may change places.
MCSymmetry == Permutations(Shelves)
=============================================================================
