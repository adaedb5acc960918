------------------------------ MODULE MCRestore ------------------------------
(***************************************************************************)
(* Restore over every proof of some shapes: a root, an account, a branch   *)
(* and a pack of both, each with any timestamp, honest or not.             *)
(***************************************************************************)
EXTENDS Restore

MCTimes == 1..MaxTime

MCRecord(source, hash) == {[hash |-> hash, source |-> source, created_at |-> t] : t \in MCTimes}

MCRoots == UNION {MCRecord(HashOrigin, h) : h \in RawHashes}
MCMetas == UNION {MCRecord(AccountOrigin(a), MetadataDigest(a, 0)) : a \in Accounts}
MCChildren(q) == UNION {MCRecord(BranchSource(q, p), BranchHash(q, p)) : p \in Payloads}
MCPacks(list) == MCRecord(PackOrigin, MembersHash(list))

\* The link of a snapshot, deriving from what the list says.
MCLink(s, prints, data) ==
    [hash |-> s.hash, source |-> s.source, created_at |-> s.created_at,
     params |-> [kind |-> s.source.kind, prints |-> prints, data |-> data]]

MCBare(s) ==
    [hash |-> s.hash, source |-> s.source, created_at |-> s.created_at,
     params |-> NoParams]

MCProof(tip, links) ==
    [tip |-> IdOf(tip),
     links |-> [i \in {IdOf(l) : l \in links} |-> CHOOSE l \in links : IdOf(l) = i]]

\* A root as a proof brings it: proof-only or with its payload.
MCRootLinks(q) == {MCBare(q), MCLink(q, <<>>, <<q.hash>>)}

\* The parent stated (print) and the parent brought (link) may differ, and
\* either may differ from the parent the child was made from.
MCBranchProofs ==
    UNION {UNION {{MCProof(c, {MCLink(c, <<LinkPrint(stated)>>, <<>>), l}) :
                      l \in UNION {MCRootLinks(q) : q \in MCRoots},
                      stated \in MCRoots} :
                  c \in MCChildren(parent)} : parent \in MCRoots}

MCPackProofs ==
    UNION {UNION {{MCProof(k, {MCLink(k, <<LinkPrint(q), LinkPrint(m)>>, <<>>), l,
                               MCLink(m, <<>>, data)}) :
                      l \in UNION {MCRootLinks(r) : r \in MCRoots},
                      data \in {<<>>, <<0>>, <<1>>}} :
                  k \in UNION {MCPacks(<<r, m>>) : r \in MCRoots}} :
           q \in MCRoots, m \in MCMetas}

MCChainProofs ==
    UNION {{MCProof(g, {MCLink(g, <<LinkPrint(c)>>, <<>>),
                        MCLink(c, <<LinkPrint(q)>>, <<>>), l}) :
               g \in MCChildren(c), l \in MCRootLinks(q)} :
           <<q, c>> \in {<<q, c>> \in MCRoots \X UNION {MCChildren(r) : r \in MCRoots} :
                             c.hash[4] = q.created_at}}

CONSTANT Shapes   \* which of these

MCProofs ==
    (IF "branch" \in Shapes THEN MCBranchProofs ELSE {})
        \cup (IF "pack" \in Shapes THEN MCPackProofs ELSE {})
        \cup (IF "chain" \in Shapes THEN MCChainProofs ELSE {})
=============================================================================
