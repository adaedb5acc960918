-------------------------- MODULE MCDependencyOrder --------------------------
(***************************************************************************)
(* DependencyOrder over every graph of a few nodes, against what module    *)
(* Archive takes for its result.                                           *)
(***************************************************************************)
EXTENDS ArchiveOrder

CONSTANT MaxDeps

MCDeps == UNION {[1..n -> Ids] : n \in 0..MaxDeps}
MCNodes == [known : {TRUE}, deps : MCDeps] \cup [known : {FALSE}, deps : {<<>>}]
MCGraphs == UNION {[there -> MCNodes] : there \in SUBSET Ids}
MCRoots == UNION {[1..n -> Ids] : n \in 1..2}

MCRequests == [graph : MCGraphs, roots : MCRoots, complete : BOOLEAN]
=============================================================================
