---------------------------- MODULE MCProofGraph ----------------------------
(***************************************************************************)
(* ProofGraph over every proof of at most MaxLinks links with at most      *)
(* MaxDeps dependencies each, against a reference definition of the proofs *)
(* a restore should accept.                                                *)
(***************************************************************************)
EXTENDS ProofGraph, SequencesExt

CONSTANTS MaxLinks, MaxDeps

MCLinks ==
    [id : Ids, matched : {TRUE}, deps : UNION {[1..n -> Ids] : n \in 0..MaxDeps}]
        \cup [id : Ids, matched : {FALSE}, deps : {<<>>}]

MCProofs == UNION {[1..n -> MCLinks] : n \in 0..MaxLinks}

(***************************************************************************)
(* The reference: what a proof derives from, as a relation over indices.   *)
(***************************************************************************)
DerivesFrom(p, m, n) == p[n].id \in ToSet(p[m].deps)

\* Closed under DerivesFrom: the indices reached from a set of indices, as the
\* smallest set that has it and everything its members derive from.
ReachedFrom(p, S) ==
    LET Shut(T) == \A m \in T, n \in DOMAIN p : DerivesFrom(p, m, n) => n \in T
    IN  CHOOSE T \in SUBSET DOMAIN p :
            /\ S \subseteq T /\ Shut(T)
            /\ \A U \in SUBSET DOMAIN p : S \subseteq U /\ Shut(U) => T \subseteq U

Origins(p, n) == ReachedFrom(p, {m \in DOMAIN p : DerivesFrom(p, n, m)})

Acceptable(p) ==
    /\ p # <<>> /\ Unique(p) /\ Matched(p)
    /\ \A n \in DOMAIN p : ToSet(p[n].deps) \subseteq IdsOf(p)  \* complete
    /\ \A n \in DOMAIN p : n \notin Origins(p, n)               \* acyclic
    /\ ReachedFrom(p, {Tip}) = DOMAIN p                         \* all needed

\* What a history is by reachability it is by sets, as the property has it.
ASSUME HistoryAssumption == \A p \in MCProofs : Acceptable(p) <=> History(p)
=============================================================================
