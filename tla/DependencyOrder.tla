--------------------------- MODULE DependencyOrder ---------------------------
(***************************************************************************)
(* The traversal that orders an archive (archive/graph.ts): selections and *)
(* proofs are made from its result, and parsing an archive runs it over    *)
(* all nodes to find cycles.  Of an archive only the graph matters: what   *)
(* each node there derives from, and whether that is known, which it may   *)
(* not be of a pack.  One action is one turn of the loop, or the start of  *)
(* a root's.                                                               *)
(*                                                                         *)
(* The stack is listed from its top: the reversed dependencies the code    *)
(* pushes one by one are then the dependencies in order.                   *)
(***************************************************************************)
EXTENDS Naturals, Sequences, FiniteSets, Functions

CONSTANTS
    Ids,       \* canonical ids, standing for addresses
    Requests   \* the calls: a graph, a list of roots, requireComplete

ASSUME RequestsAssumption ==
    \A r \in Requests :
        /\ r.roots \in Seq(Ids)
        /\ r.complete \in BOOLEAN
        /\ \A i \in DOMAIN r.graph :
              r.graph[i].known \in BOOLEAN /\ r.graph[i].deps \in Seq(Ids)

VARIABLES
    request,   \* the call
    turn,      \* the root whose turn it is
    stack,     \* frames [id, exit], the top first
    active,    \* ids entered and not left
    done,      \* ids left
    ordered,   \* the result so far
    outcome    \* "walking", "ordered" or the error thrown

vars == <<request, turn, stack, active, done, ordered, outcome>>

Errors == {"Cyclic", "MissingNode", "MissingMembers"}

Graph == request.graph
Enter(id) == [id |-> id, exit |-> FALSE]
Leave(id) == [id |-> id, exit |-> TRUE]

Init ==
    /\ request \in Requests
    /\ turn = 1
    /\ stack = <<>> /\ active = {} /\ done = {} /\ ordered = <<>>
    /\ outcome = "walking"

Throw(error) ==
    /\ outcome' = error
    /\ UNCHANGED <<request, turn, stack, active, done, ordered>>

Pop ==
    /\ stack' = Tail(stack)
    /\ UNCHANGED <<request, turn, active, done, ordered, outcome>>

NextRoot ==
    /\ outcome = "walking" /\ stack = <<>> /\ turn <= Len(request.roots)
    /\ stack' = <<Enter(request.roots[turn])>>
    /\ turn' = turn + 1
    /\ UNCHANGED <<request, active, done, ordered, outcome>>

Return ==
    /\ outcome = "walking" /\ stack = <<>> /\ turn > Len(request.roots)
    /\ outcome' = "ordered"
    /\ UNCHANGED <<request, turn, stack, active, done, ordered>>

Walking == outcome = "walking" /\ stack # <<>>
Entering == Walking /\ ~Head(stack).exit
Here == Head(stack).id

\* Mutant: a node that is left is not remembered.
ExitForgetting ==
    /\ Walking /\ Head(stack).exit
    /\ active' = active \ {Here}
    /\ ordered' = Append(ordered, Here)
    /\ stack' = Tail(stack)
    /\ UNCHANGED <<request, turn, done, outcome>>

Exit ==
    /\ Walking /\ Head(stack).exit
    /\ active' = active \ {Here}
    /\ done' = done \cup {Here}
    /\ ordered' = Append(ordered, Here)
    /\ stack' = Tail(stack)
    /\ UNCHANGED <<request, turn, outcome>>

\* Mutant: a node done before is looked at and left on the stack.
SkipInPlace == Entering /\ Here \in done /\ UNCHANGED vars

SkipDone == Entering /\ Here \in done /\ Pop

\* Mutant: a node entered before is passed over, left or not.
CyclePassed == Entering /\ Here \notin done /\ Here \in active /\ Pop

Cycle == Entering /\ Here \notin done /\ Here \in active /\ Throw("Cyclic")

Absent ==
    /\ Entering /\ Here \notin done /\ Here \notin active
    /\ Here \notin DOMAIN Graph
    /\ IF request.complete THEN Throw("MissingNode") ELSE Pop

MembersUnknown ==
    /\ Entering /\ Here \notin done /\ Here \notin active
    /\ Here \in DOMAIN Graph /\ ~Graph[Here].known
    /\ request.complete
    /\ Throw("MissingMembers")

Dependencies(id) == IF Graph[id].known THEN Graph[id].deps ELSE <<>>

Entries(ids) == [k \in DOMAIN ids |-> Enter(ids[k])]

CanExpand ==
    /\ Entering /\ Here \notin done /\ Here \notin active
    /\ Here \in DOMAIN Graph
    /\ request.complete => Graph[Here].known

\* Mutant: a node counts as done when it is entered.
ExpandDone ==
    /\ CanExpand
    /\ active' = active \cup {Here}
    /\ done' = done \cup {Here}
    /\ stack' = Entries(Dependencies(Here)) \o <<Leave(Here)>> \o Tail(stack)
    /\ UNCHANGED <<request, turn, ordered, outcome>>

Expand ==
    /\ CanExpand
    /\ active' = active \cup {Here}
    /\ stack' = Entries(Dependencies(Here)) \o <<Leave(Here)>> \o Tail(stack)
    /\ UNCHANGED <<request, turn, done, ordered, outcome>>

Walk ==
    \/ NextRoot \/ Return \/ Exit \/ SkipDone \/ Cycle \/ Absent
    \/ MembersUnknown \/ Expand

Finished == outcome # "walking" /\ UNCHANGED vars

Next == Walk \/ Finished

\* The function is synchronous: once called it runs to its end.
Spec == Init /\ [][Next]_vars /\ WF_vars(Walk)

(***************************************************************************)
(* Properties.                                                             *)
(***************************************************************************)

\* The frames that leave are those of the nodes entered, the nodes done are
\* the result, and no node is both.
TypeOK ==
    /\ request \in Requests
    /\ turn \in Nat \ {0}
    /\ stack \in Seq([id : Ids, exit : BOOLEAN])
    /\ ordered \in Seq(Ids)
    /\ outcome \in Errors \cup {"walking", "ordered"}
    /\ active = {stack[k].id : k \in {m \in DOMAIN stack : stack[m].exit}}
    /\ done = Range(ordered)
    /\ active \cap done = {}

\* The result is an order to create records in: each node comes once, and
\* after all it derives from that the archive has.
DependenciesFirst ==
    /\ IsInjective(ordered)
    /\ \A k \in DOMAIN ordered :
          \A n \in DOMAIN Dependencies(ordered[k]) :
             Dependencies(ordered[k])[n] \in DOMAIN Graph =>
                \E j \in 1..(k - 1) : ordered[j] = Dependencies(ordered[k])[n]

\* Nodes are entered once and left once, whatever is pushed for them: a turn
\* after which the loop goes on enters a node that is there, leaves one that
\* was entered, starts the next root, or only takes off the stack a node it
\* need not enter.
Entered == active \cup done

Enters == \E id \in DOMAIN Graph \ Entered : Entered' = Entered \cup {id}
Leaves == Entered' = Entered /\ \E id \in Entered \ done : done' = done \cup {id}
Starts == turn <= Len(request.roots) /\ turn' = turn + 1 /\ UNCHANGED <<active, done>>
Pops ==
    /\ stack # <<>> /\ ~Head(stack).exit
    /\ stack' = Tail(stack) /\ UNCHANGED <<turn, active, done>>

EveryTurnAdvances ==
    [][outcome' = "walking" => Enters \/ Leaves \/ Starts \/ Pops]_vars

\* The loop ends whatever the archive is: nobody's file hangs the SDK.
Termination == <>(outcome # "walking")
=============================================================================
