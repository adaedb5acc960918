----------------------------- MODULE ProofGraph -----------------------------
(***************************************************************************)
(* The walk that orders a restore proof (protocol/restore/graph.rs).  A    *)
(* proof is a list of links, the tip first; a link has a canonical id and  *)
(* names the ids of the links it derives from.  The walk is a depth-first  *)
(* search from the tip with an explicit stack; it ends with the links in   *)
(* an order in which each can be recreated from the ones before it, or     *)
(* with the error the restore instruction fails with.  One action is one   *)
(* turn of the loop.                                                       *)
(***************************************************************************)
EXTENDS Naturals, Sequences, FiniteSets

CONSTANTS
    Ids,     \* canonical ids
    Proofs   \* the lists of links a caller may submit

(***************************************************************************)
(* proof_dependencies of a link: its list of ids, or matched = FALSE when  *)
(* its parameters do not fit its source (or a batch repeats a member).     *)
(***************************************************************************)
Links == [id : Ids, matched : BOOLEAN, deps : Seq(Ids)]

ASSUME ProofsAssumption == Proofs \subseteq Seq(Links)

VARIABLES
    proof,     \* the list of links
    outcome,   \* "indexing", "walking", "ordered", or the error
    stack,     \* frames [index, offset]: offset dependencies were handled
    visiting,  \* ids on the stack
    visited,   \* ids completed
    ordered    \* indices completed, in order

vars == <<proof, outcome, stack, visiting, visited, ordered>>

Errors == {"ChainTooShort", "Duplicate", "Mismatch", "DependencyMissing"}

Tip == 1
Frame(n) == [index |-> n, offset |-> 0]

Init ==
    /\ proof \in Proofs
    /\ outcome = "indexing"
    /\ stack = <<>> /\ visiting = {} /\ visited = {} /\ ordered = <<>>

IdsOf(p) == {p[n].id : n \in DOMAIN p}
Unique(p) == \A m, n \in DOMAIN p : p[m].id = p[n].id => m = n
Matched(p) == \A n \in DOMAIN p : p[n].matched

\* canonical_to_index, once ids are known to be unique.
IndexOf(id) == CHOOSE n \in DOMAIN proof : proof[n].id = id

Fail(error) ==
    /\ outcome' = error
    /\ UNCHANGED <<proof, stack, visiting, visited, ordered>>

\* The checks before the walk, in the order the code makes them.
Reject ==
    /\ outcome = "indexing"
    /\ \/ proof = <<>> /\ Fail("ChainTooShort")
       \/ ~Unique(proof) /\ Fail("Duplicate")
       \/ proof # <<>> /\ Unique(proof) /\ ~Matched(proof) /\ Fail("Mismatch")

Start ==
    /\ outcome = "indexing"
    /\ proof # <<>> /\ Unique(proof) /\ Matched(proof)
    /\ outcome' = "walking"
    /\ stack' = <<Frame(Tip)>>
    /\ visiting' = {proof[Tip].id}
    /\ UNCHANGED <<proof, visited, ordered>>

Top == stack[Len(stack)]
Pending == Top.offset < Len(proof[Top.index].deps)
Dependency == proof[Top.index].deps[Top.offset + 1]
AdvancedTwice ==  \* Mutant.
    [stack EXCEPT ![Len(stack)] = [index |-> Top.index, offset |-> Top.offset + 2]]
Advanced == [stack EXCEPT ![Len(stack)] = [index |-> Top.index, offset |-> Top.offset + 1]]

Walking == outcome = "walking" /\ stack # <<>>

\* Mutant: a dependency still being walked counts as walked.
SkipVisiting ==
    /\ Walking /\ Pending
    /\ Dependency \in visited \cup visiting
    /\ stack' = Advanced
    /\ UNCHANGED <<proof, outcome, visiting, visited, ordered>>

\* Mutant: a completed dependency is left before the offset moves past it.
SkipInPlace ==
    /\ Walking /\ Pending
    /\ Dependency \in visited
    /\ UNCHANGED vars

\* A dependency completed before is not walked again.
Skip ==
    /\ Walking /\ Pending
    /\ Dependency \in visited
    /\ stack' = Advanced
    /\ UNCHANGED <<proof, outcome, visiting, visited, ordered>>

Missing ==
    /\ Walking /\ Pending
    /\ Dependency \notin visited
    /\ Dependency \notin IdsOf(proof)
    /\ Fail("DependencyMissing")

Cycle ==
    /\ Walking /\ Pending
    /\ Dependency \notin visited
    /\ Dependency \in IdsOf(proof)
    /\ Dependency \in visiting
    /\ Fail("Mismatch")

Descend ==
    /\ Walking /\ Pending
    /\ Dependency \notin visited
    /\ Dependency \in IdsOf(proof)
    /\ Dependency \notin visiting
    /\ stack' = Append(Advanced, Frame(IndexOf(Dependency)))
    /\ visiting' = visiting \cup {Dependency}
    /\ UNCHANGED <<proof, outcome, visited, ordered>>

\* Mutant: a link that is left is not remembered.
CompleteForgetting ==
    /\ Walking /\ ~Pending
    /\ stack' = SubSeq(stack, 1, Len(stack) - 1)
    /\ visiting' = visiting \ {proof[Top.index].id}
    /\ ordered' = Append(ordered, Top.index)
    /\ UNCHANGED <<proof, outcome, visited>>

Complete ==
    /\ Walking /\ ~Pending
    /\ stack' = SubSeq(stack, 1, Len(stack) - 1)
    /\ visiting' = visiting \ {proof[Top.index].id}
    /\ visited' = visited \cup {proof[Top.index].id}
    /\ ordered' = Append(ordered, Top.index)
    /\ UNCHANGED <<proof, outcome>>

\* Mutant: what the tip does not derive from is ignored.
FinishUnchecked ==
    /\ outcome = "walking" /\ stack = <<>>
    /\ outcome' = "ordered"
    /\ UNCHANGED <<proof, stack, visiting, visited, ordered>>

\* A link the tip does not derive from makes the proof a mismatch.
Finish ==
    /\ outcome = "walking" /\ stack = <<>>
    /\ outcome' = IF Cardinality(visited) = Len(proof) /\ Len(ordered) = Len(proof)
                  THEN "ordered" ELSE "Mismatch"
    /\ UNCHANGED <<proof, stack, visiting, visited, ordered>>

Done == outcome \in Errors \cup {"ordered"} /\ UNCHANGED vars

Walk == Skip \/ Missing \/ Cycle \/ Descend \/ Complete \/ Finish

Next == Reject \/ Start \/ Walk \/ Done

\* The loop runs to its end: nothing else runs in the instruction.
Spec == Init /\ [][Next]_vars /\ WF_vars(Reject \/ Start \/ Walk)

(***************************************************************************)
(* Properties.                                                             *)
(***************************************************************************)
TypeOK ==
    /\ proof \in Seq(Links)
    /\ outcome \in Errors \cup {"indexing", "walking", "ordered"}
    /\ stack \in Seq([index : DOMAIN proof, offset : Nat])
    /\ \A d \in DOMAIN stack : stack[d].offset <= Len(proof[stack[d].index].deps)
    /\ visiting \subseteq IdsOf(proof) /\ visited \subseteq IdsOf(proof)
    /\ ordered \in Seq(DOMAIN proof)

\* An accepted proof is recreated from its roots: the order lists each link
\* once, every link after all it derives from, and the tip last.
DependenciesFirst ==
    outcome = "ordered" =>
        /\ Len(ordered) = Len(proof)
        /\ \A n \in DOMAIN proof : \E k \in DOMAIN ordered : ordered[k] = n
        /\ \A k \in DOMAIN ordered :
              \A d \in DOMAIN proof[ordered[k]].deps :
                 \E j \in 1..(k - 1) : proof[ordered[j]].id = proof[ordered[k]].deps[d]
        /\ ordered[Len(ordered)] = Tip

(***************************************************************************)
(* A history: links that all the links they derive from come with, without *)
(* a cycle, all of them behind the tip.  It is said of sets of links:      *)
(* among any links there is one that derives from none of them, and a set  *)
(* that has the tip and all that its members derive from has every link.   *)
(***************************************************************************)
DirectOrigins(p, n) ==
    {m \in DOMAIN p : \E d \in DOMAIN p[n].deps : p[n].deps[d] = p[m].id}

AllThere(p) == \A n \in DOMAIN p : \A d \in DOMAIN p[n].deps : p[n].deps[d] \in IdsOf(p)

Acyclic(p) ==
    \A S \in SUBSET DOMAIN p : S # {} => \E n \in S : DirectOrigins(p, n) \cap S = {}

Closed(p, S) == Tip \in S /\ \A n \in S : DirectOrigins(p, n) \subseteq S

AllBehindTip(p) == \A S \in SUBSET DOMAIN p : Closed(p, S) => S = DOMAIN p

History(p) ==
    /\ p # <<>> /\ Unique(p) /\ Matched(p)
    /\ AllThere(p) /\ Acyclic(p) /\ AllBehindTip(p)

\* The walk accepts a proof exactly when it is one history: complete,
\* without a cycle, and all of it behind the tip.
AcceptsExactlyHistories ==
    /\ outcome = "ordered" => History(proof)
    /\ outcome \in Errors => ~History(proof)

\* Links are entered once and left once, and a dependency is looked at once:
\* a turn after which the walk goes on enters a link of the proof, leaves one
\* that was entered, or moves the one on top past one of its dependencies.
Entered == visiting \cup visited

Enters == \E id \in IdsOf(proof) \ Entered : Entered' = Entered \cup {id}
Leaves == Entered' = Entered /\ \E id \in Entered \ visited : visited' = visited \cup {id}
MovesPast ==
    /\ Entered' = Entered /\ visited' = visited
    /\ Pending /\ Len(stack') = Len(stack)
    /\ Top'.index = Top.index /\ Top'.offset = Top.offset + 1

EveryTurnAdvances ==
    [][outcome = "walking" /\ outcome' = "walking" => Enters \/ Leaves \/ MovesPast]_vars

\* The walk ends, whatever was submitted.
Termination == <>(outcome \in Errors \cup {"ordered"})
=============================================================================
