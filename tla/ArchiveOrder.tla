----------------------------- MODULE ArchiveOrder -----------------------------
(***************************************************************************)
(* DependencyOrder walks the graph of an archive.  Module Archive says     *)
(* what is behind the roots without walking, and its operations are built  *)
(* on that.  Here the two meet.                                            *)
(***************************************************************************)
EXTENDS DependencyOrder, Archive

\* An archive with the graph of the call: packs whose members are known or not.
GraphArchive ==
    [i \in DOMAIN Graph |->
        [source |-> PackOrigin,
         witness |-> IF Graph[i].known THEN <<Graph[i].deps>> ELSE Unknown]]

Roots == Range(request.roots)
BehindRoots == Behind(GraphArchive, Roots)

BehindCycleFree == CycleFree(Restrict(GraphArchive, BehindRoots \cap DOMAIN Graph))

\* The traversal orders exactly what is behind the roots; it throws only when
\* there is a cycle or, if all must be there, something is not, and the error
\* it throws is one the archive has.
OrdersWhatIsBehind ==
    /\ outcome = "ordered" =>
          /\ Range(ordered) = BehindRoots \cap DOMAIN Graph
          /\ BehindCycleFree
          /\ request.complete => CanOrder(GraphArchive, Roots)
    /\ outcome = "Cyclic" => ~BehindCycleFree
    /\ outcome \in {"MissingNode", "MissingMembers"} =>
          request.complete /\ ~CanOrder(GraphArchive, Roots)
=============================================================================
