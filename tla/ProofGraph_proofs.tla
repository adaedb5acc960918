--------------------------- MODULE ProofGraph_proofs ---------------------------
(***************************************************************************)
(* Theorems about ProofGraph, for proofs of any length: the walk accepts   *)
(* exactly the histories, and orders them origins first.                   *)
(***************************************************************************)
EXTENDS ProofGraph, SequenceTheorems, FiniteSetTheorems, WellFoundedInduction, TLAPS

Frames == [index : DOMAIN proof, offset : Nat]

\* The link of a frame of the stack.
LinkAt(p) == proof[stack[p].index]

(***************************************************************************)
(* The inductive invariant.                                                *)
(***************************************************************************)

\* Each frame is at the dependency the frame above it walks, down to the
\* tip's; no link is on the stack twice, and visiting has those that are.
Path ==
    /\ visiting = {LinkAt(p).id : p \in DOMAIN stack}
    /\ \A p, q \in DOMAIN stack : stack[p].index = stack[q].index => p = q
    /\ \A p \in 1..(Len(stack) - 1) :
          stack[p].offset > 0 /\ LinkAt(p).deps[stack[p].offset] = LinkAt(p + 1).id
    /\ stack # <<>> => stack[1].index = Tip
    /\ stack = <<>> => ordered # <<>> /\ ordered[Len(ordered)] = Tip

\* The dependencies a frame has passed are visited, but for the one that the
\* frame above it walks.
Handled ==
    \A p \in DOMAIN stack : \A d \in 1..stack[p].offset :
        LinkAt(p).deps[d] \in visited \/ (p < Len(stack) /\ d = stack[p].offset)

\* The links visited are those in the order, once each and after what they
\* derive from.
Result ==
    /\ visited = {proof[ordered[k]].id : k \in DOMAIN ordered}
    /\ visiting \cap visited = {}
    /\ \A j, k \in DOMAIN ordered : ordered[j] = ordered[k] => j = k
    /\ \A k \in DOMAIN ordered : \A d \in DOMAIN proof[ordered[k]].deps :
          \E j \in 1..(k - 1) : proof[ordered[j]].id = proof[ordered[k]].deps[d]

\* Only what is behind the tip is walked.
Behind ==
    \A S \in SUBSET DOMAIN proof :
        Closed(proof, S) =>
            /\ \A p \in DOMAIN stack : stack[p].index \in S
            /\ \A k \in DOMAIN ordered : ordered[k] \in S

Walks ==
    /\ proof # <<>> /\ Unique(proof) /\ Matched(proof)
    /\ Path /\ Handled /\ Result /\ Behind

Untouched == stack = <<>> /\ visiting = {} /\ visited = {} /\ ordered = <<>>

GraphInv ==
    /\ TypeOK
    /\ outcome = "indexing" => Untouched
    /\ outcome = "walking" => Walks
    /\ AcceptsExactlyHistories
    /\ DependenciesFirst

LEMMA InitGraph == Init => GraphInv
<1> SUFFICES ASSUME Init PROVE GraphInv
  OBVIOUS
<1>1. proof \in Seq(Links) /\ outcome = "indexing" /\ Untouched
  BY ProofsAssumption DEF Init, Untouched
<1>2. TypeOK
  BY <1>1 DEF TypeOK, Untouched
<1> QED
  BY <1>1, <1>2 DEF GraphInv, AcceptsExactlyHistories, DependenciesFirst, Errors

(***************************************************************************)
(* The stack and its top.                                                  *)
(***************************************************************************)
LEMMA BelowLast ==
    \A L \in Nat : \A p \in 1..(L - 1) : p \in 1..L /\ p + 1 \in 1..L /\ p # L /\ p < L
OBVIOUS

LEMMA ProofShape ==
    ASSUME TypeOK
    PROVE  /\ Len(proof) \in Nat /\ DOMAIN proof = 1..Len(proof)
           /\ \A n \in DOMAIN proof :
                 /\ proof[n] \in Links /\ proof[n].id \in Ids
                 /\ proof[n].deps \in Seq(Ids) /\ Len(proof[n].deps) \in Nat
                 /\ DOMAIN proof[n].deps = 1..Len(proof[n].deps)
           /\ ordered \in Seq(DOMAIN proof) /\ Len(ordered) \in Nat
           /\ DOMAIN ordered = 1..Len(ordered)
           /\ \A k \in DOMAIN ordered : ordered[k] \in DOMAIN proof
<1>1. Len(proof) \in Nat /\ DOMAIN proof = 1..Len(proof) /\ \A n \in DOMAIN proof : proof[n] \in Links
  BY LenProperties, ElementOfSeq DEF TypeOK
<1>2. \A l \in Links : l.id \in Ids /\ l.deps \in Seq(Ids)
  BY DEF Links
<1>3. \A s \in Seq(Ids) : Len(s) \in Nat /\ DOMAIN s = 1..Len(s)
  BY LenProperties
<1>4. ordered \in Seq(DOMAIN proof)
  BY DEF TypeOK
<1>5. /\ Len(ordered) \in Nat /\ DOMAIN ordered = 1..Len(ordered)
      /\ \A k \in DOMAIN ordered : ordered[k] \in DOMAIN proof
  BY <1>4, LenProperties, ElementOfSeq
<1> QED
  BY <1>1, <1>2, <1>3, <1>4, <1>5

LEMMA StackShape ==
    ASSUME TypeOK
    PROVE  /\ stack \in Seq(Frames) /\ Len(stack) \in Nat
           /\ DOMAIN stack = 1..Len(stack)
           /\ \A p \in DOMAIN stack :
                 /\ stack[p].index \in DOMAIN proof /\ stack[p].offset \in Nat
                 /\ stack[p].offset <= Len(LinkAt(p).deps)
<1>1. stack \in Seq(Frames)
  BY DEF TypeOK, Frames
<1>2. \A p \in DOMAIN stack : stack[p] \in Frames
  BY <1>1, LenProperties, ElementOfSeq
<1>3. Len(stack) \in Nat /\ DOMAIN stack = 1..Len(stack)
  BY <1>1, LenProperties
<1>4. \A p \in DOMAIN stack : stack[p].offset <= Len(LinkAt(p).deps)
  BY DEF TypeOK, LinkAt
<1> QED
  BY <1>1, <1>2, <1>3, <1>4 DEF Frames

LEMMA TopShape ==
    ASSUME TypeOK, Walking
    PROVE  /\ Len(stack) \in DOMAIN stack /\ Top = stack[Len(stack)]
           /\ proof[Top.index] = LinkAt(Len(stack))
           /\ Top.index \in DOMAIN proof /\ Top.offset \in Nat
           /\ Pending => Top.offset + 1 \in DOMAIN proof[Top.index].deps
<1>1. Len(stack) \in 1..Len(stack)
  <2>1. stack \in Seq(Frames) /\ stack # <<>>
    BY StackShape DEF Walking
  <2> QED
    BY <2>1, EmptySeq
<1>2. Len(stack) \in DOMAIN stack
  BY <1>1, StackShape
<1>3. Top.index \in DOMAIN proof /\ Top.offset \in Nat
  BY <1>2, StackShape DEF Top
<1>4. Len(proof[Top.index].deps) \in Nat
      /\ DOMAIN proof[Top.index].deps = 1..Len(proof[Top.index].deps)
  BY <1>3, ProofShape
<1>5. Pending => Top.offset + 1 \in DOMAIN proof[Top.index].deps
  BY <1>3, <1>4 DEF Pending
<1> QED
  BY <1>2, <1>3, <1>5 DEF Top, LinkAt

\* The stack with the offset of its top moved past a dependency.
LEMMA AdvancedShape ==
    ASSUME TypeOK, Walking, Pending
    PROVE  /\ Advanced \in Seq(Frames) /\ Len(Advanced) = Len(stack)
           /\ \A p \in DOMAIN stack :
                 /\ Advanced[p].index = stack[p].index
                 /\ p # Len(stack) => Advanced[p] = stack[p]
           /\ Advanced[Len(stack)].offset = Top.offset + 1
           /\ \A p \in DOMAIN stack : Advanced[p].offset <= Len(LinkAt(p).deps)
<1> DEFINE F == [index |-> Top.index, offset |-> Top.offset + 1]
<1>1. F \in Frames
  BY TopShape DEF Frames
<1>2. Advanced = [stack EXCEPT ![Len(stack)] = F]
  BY DEF Advanced
<1>3. F.index = Top.index /\ F.offset = Top.offset + 1
  OBVIOUS
<1> HIDE DEF F
<1>4. stack \in Seq(Frames) /\ Len(stack) \in DOMAIN stack
  BY StackShape, TopShape
<1>5. /\ Advanced \in Seq(Frames) /\ Len(Advanced) = Len(stack)
      /\ Advanced[Len(stack)] = F
      /\ \A p \in DOMAIN stack : p # Len(stack) => Advanced[p] = stack[p]
  BY <1>1, <1>2, <1>4
<1>6. \A p \in DOMAIN stack : Advanced[p].index = stack[p].index
  BY <1>3, <1>5 DEF Top
<1>7. \A p \in DOMAIN stack : Advanced[p].offset <= Len(LinkAt(p).deps)
  <2>1. Top.offset + 1 <= Len(LinkAt(Len(stack)).deps)
    BY TopShape, ProofShape DEF Pending
  <2> QED
    BY <1>3, <1>5, <2>1, StackShape
<1> QED
  BY <1>3, <1>5, <1>6, <1>7

(***************************************************************************)
(* The turns of the loop that go on.                                       *)
(***************************************************************************)
LEMMA StartKeeps ==
    ASSUME GraphInv, Start
    PROVE  GraphInv'
<1>1. /\ proof # <<>> /\ Unique(proof) /\ Matched(proof) /\ Untouched /\ TypeOK
      /\ outcome' = "walking" /\ stack' = <<Frame(Tip)>>
      /\ visiting' = {proof[Tip].id} /\ UNCHANGED <<proof, visited, ordered>>
  BY DEF Start, GraphInv
<1>2. 1 \in DOMAIN proof
  <2>1. proof \in Seq(Links)
    BY <1>1 DEF TypeOK
  <2> QED
    BY <1>1, <2>1, ProofShape, EmptySeq
<1>3. stack' \in Seq(Frames) /\ DOMAIN stack' = {1} /\ Len(stack') = 1
      /\ stack'[1].index = Tip /\ stack'[1].offset = 0
  BY <1>1, <1>2 DEF Frame, Frames, Tip
<1>4. TypeOK'
  <2>1. visiting' \subseteq IdsOf(proof) /\ visited' \subseteq IdsOf(proof)
    BY <1>1, <1>2 DEF Untouched, IdsOf, Tip
  <2>2. Len(proof[Tip].deps) \in Nat
    BY <1>1, <1>2, ProofShape DEF Tip
  <2> QED
    BY <1>1, <1>3, <2>1, <2>2 DEF TypeOK, Frames
<1>5. DOMAIN ordered' = {} /\ visited' = {}
  BY <1>1 DEF Untouched
<1>6. Path'
  BY <1>1, <1>3 DEF Path, LinkAt
<1>7. Handled'
  BY <1>3 DEF Handled
<1>8. Result'
  BY <1>5 DEF Result
<1>9. Behind'
  BY <1>3, <1>5 DEF Behind, Closed
<1>10. Walks'
  BY <1>1, <1>6, <1>7, <1>8, <1>9 DEF Walks
<1> QED
  BY <1>1, <1>4, <1>10 DEF GraphInv, AcceptsExactlyHistories, DependenciesFirst, Errors

\* While the walk goes on, only types and Walks are at stake.
LEMMA WalkingOnly ==
    ASSUME TypeOK', Walks', outcome' = "walking"
    PROVE  GraphInv'
BY DEF GraphInv, AcceptsExactlyHistories, DependenciesFirst, Errors

LEMMA SkipKeeps ==
    ASSUME GraphInv, Skip
    PROVE  GraphInv'
<1>1. /\ TypeOK /\ Walks /\ Walking /\ Pending /\ outcome = "walking"
      /\ Dependency \in visited /\ stack' = Advanced
      /\ UNCHANGED <<proof, outcome, visiting, visited, ordered>>
  BY DEF GraphInv, Skip, Walking
<1>2. /\ Len(stack) \in Nat /\ DOMAIN stack = 1..Len(stack) /\ Len(stack) \in DOMAIN stack
      /\ Top.offset \in Nat /\ Top = stack[Len(stack)] /\ stack # <<>>
      /\ proof[Top.index] = LinkAt(Len(stack))
      /\ \A p \in DOMAIN stack : stack[p].offset \in Nat
  BY <1>1, StackShape, TopShape DEF Walking
<1>3. /\ stack' \in Seq(Frames) /\ Len(stack') = Len(stack) /\ DOMAIN stack' = DOMAIN stack
      /\ \A p \in DOMAIN stack :
            /\ stack'[p].index = stack[p].index
            /\ p # Len(stack) => stack'[p] = stack[p]
      /\ stack'[Len(stack)].offset = Top.offset + 1
      /\ \A p \in DOMAIN stack : stack'[p].offset <= Len(LinkAt(p).deps)
  BY <1>1, <1>2, AdvancedShape, LenProperties
<1>4. \A p \in DOMAIN stack : LinkAt(p)' = LinkAt(p)
  BY <1>1, <1>3 DEF LinkAt
<1>5. stack' # <<>>
  BY <1>2, <1>3
<1>6. TypeOK'
  BY <1>1, <1>3 DEF TypeOK, Frames, LinkAt
<1>7. Path'
  <2>2. visiting' = {LinkAt(p).id : p \in DOMAIN stack}
    BY <1>1 DEF Walks, Path
  <2>3. visiting' = {LinkAt(p)'.id : p \in DOMAIN stack'}
    BY <1>3, <1>4, <2>2
  <2>4. \A p, q \in DOMAIN stack' : stack'[p].index = stack'[q].index => p = q
    BY <1>1, <1>3 DEF Walks, Path
  <2>5. ASSUME NEW p \in 1..(Len(stack') - 1)
        PROVE  stack'[p].offset > 0 /\ LinkAt(p)'.deps[stack'[p].offset] = LinkAt(p + 1)'.id
    <3>0. Len(stack') = Len(stack) /\ Len(stack) \in Nat
      BY <1>2, <1>3
    <3>1. p \in 1..(Len(stack) - 1)
      BY <3>0
    <3>2. p \in 1..Len(stack) /\ p + 1 \in 1..Len(stack) /\ p # Len(stack)
      BY <3>0, <3>1, BelowLast
    <3>3. p \in DOMAIN stack /\ p + 1 \in DOMAIN stack
      BY <1>2, <3>2
    <3>4. stack'[p] = stack[p]
      BY <1>3, <3>2, <3>3
    <3> QED
      BY <1>1, <1>4, <3>1, <3>3, <3>4 DEF Walks, Path
  <2>6. stack'[1].index = Tip
    BY <1>1, <1>2, <1>3 DEF Walks, Path
  <2> QED
    BY <1>5, <2>3, <2>4, <2>5, <2>6 DEF Path
<1>8. Handled'
  <2> SUFFICES ASSUME NEW p \in DOMAIN stack, NEW d \in 1..stack'[p].offset
               PROVE  \/ LinkAt(p).deps[d] \in visited
                      \/ p < Len(stack) /\ d = stack'[p].offset
    BY <1>1, <1>3, <1>4 DEF Handled
  <2>1. CASE p # Len(stack)
    BY <1>1, <1>3, <2>1 DEF Walks, Handled
  <2>2. CASE p = Len(stack) /\ d = Top.offset + 1
    BY <1>1, <1>2, <2>2 DEF Dependency
  <2>3. CASE p = Len(stack) /\ d # Top.offset + 1
    <3>1. d \in 1..stack[p].offset /\ ~(p < Len(stack))
      BY <1>2, <1>3, <2>3
    <3> QED
      BY <1>1, <3>1 DEF Walks, Handled
  <2> QED
    BY <2>1, <2>2, <2>3
<1>9. Result'
  BY <1>1 DEF Walks, Result
<1>10. Behind'
  BY <1>1, <1>3 DEF Walks, Behind, Closed
<1>11. Walks'
  BY <1>1, <1>7, <1>8, <1>9, <1>10 DEF Walks, Unique, Matched
<1> QED
  BY <1>1, <1>6, <1>11, WalkingOnly

LEMMA DescendKeeps ==
    ASSUME GraphInv, Descend
    PROVE  GraphInv'
<1> DEFINE I == IndexOf(Dependency)
<1>0. PICK N \in Nat : N = Len(stack)
  BY StackShape DEF GraphInv
<1>1. /\ TypeOK /\ Walks /\ Walking /\ Pending /\ outcome = "walking"
      /\ Dependency \notin visited /\ Dependency \in IdsOf(proof) /\ Dependency \notin visiting
      /\ stack' = Append(Advanced, Frame(I)) /\ visiting' = visiting \cup {Dependency}
      /\ UNCHANGED <<proof, outcome, visited, ordered>>
  BY DEF GraphInv, Descend, Walking
<1>2. /\ N \in Nat /\ DOMAIN stack = 1..N /\ N \in DOMAIN stack
      /\ Top.offset \in Nat /\ Top = stack[N] /\ Top.index \in DOMAIN proof
      /\ proof[Top.index] = LinkAt(N)
      /\ Top.offset + 1 \in DOMAIN proof[Top.index].deps
      /\ Dependency = LinkAt(N).deps[Top.offset + 1]
  BY <1>0, <1>1, StackShape, TopShape DEF Dependency
<1>3. I \in DOMAIN proof /\ proof[I].id = Dependency
  BY <1>1 DEF IndexOf, IdsOf
<1>4. /\ Frame(I) \in Frames /\ Frame(I).index = I /\ Frame(I).offset = 0
  BY <1>3 DEF Frame, Frames
<1> HIDE DEF I
<1>5. /\ Advanced \in Seq(Frames) /\ Len(Advanced) = N
      /\ \A p \in 1..N : /\ Advanced[p].index = stack[p].index
                         /\ p # N => Advanced[p] = stack[p]
      /\ Advanced[N].offset = Top.offset + 1
      /\ \A p \in 1..N : Advanced[p].offset <= Len(LinkAt(p).deps)
  BY <1>0, <1>1, <1>2, AdvancedShape
<1>6. /\ stack' \in Seq(Frames) /\ Len(stack') = N + 1 /\ stack' # <<>>
      /\ \A p \in 1..N : stack'[p] = Advanced[p]
      /\ stack'[N + 1] = Frame(I)
  BY <1>1, <1>4, <1>5, AppendProperties
<1>7. DOMAIN stack' = 1..(N + 1)
  BY <1>6, LenProperties
<1>8. \A p \in 1..(N + 1) : p \in 1..N \/ p = N + 1
  BY <1>2
<1>9. /\ \A p \in 1..N : LinkAt(p)' = LinkAt(p) /\ stack'[p].index = stack[p].index
      /\ LinkAt(N + 1)' = proof[I] /\ stack'[N + 1].index = I
  BY <1>1, <1>4, <1>5, <1>6 DEF LinkAt
<1>10. TypeOK'
  <2>1. \A p \in DOMAIN stack' : stack'[p].offset <= Len(LinkAt(p)'.deps)
    <3>1. 0 <= Len(proof[I].deps)
      BY <1>1, <1>3, ProofShape
    <3> QED
      BY <1>4, <1>5, <1>6, <1>7, <1>8, <1>9, <3>1
  <2>2. visiting' \subseteq IdsOf(proof)
    BY <1>1 DEF TypeOK
  <2> QED
    BY <1>1, <1>6, <2>1, <2>2 DEF TypeOK, Frames, LinkAt
<1>11. N + 1 \in 1..(N + 1) /\ \A p \in 1..N : p \in 1..(N + 1)
  BY <1>2
<1>12. Path'
  <2>1. visiting' = {LinkAt(p)'.id : p \in DOMAIN stack'}
    <3>1. visiting = {LinkAt(p).id : p \in 1..N}
      BY <1>1, <1>2 DEF Walks, Path
    <3>2. \A p \in 1..N : LinkAt(p)'.id = LinkAt(p).id
      BY <1>9
    <3>3. LinkAt(N + 1)'.id = Dependency
      BY <1>3, <1>9
    <3>4. {LinkAt(p)'.id : p \in 1..(N + 1)} = {LinkAt(p).id : p \in 1..N} \cup {Dependency}
      BY <1>8, <1>11, <3>2, <3>3
    <3> QED
      BY <1>1, <1>7, <3>1, <3>4
  <2>2. \A p \in 1..N : stack[p].index # I
    <3>1. \A p \in 1..N : LinkAt(p).id \in visiting
      BY <1>1, <1>2 DEF Walks, Path
    <3>2. \A p \in 1..N : stack[p].index = I => LinkAt(p).id = Dependency
      BY <1>3 DEF LinkAt
    <3> QED
      BY <1>1, <3>1, <3>2
  <2>3. \A p, q \in DOMAIN stack' : stack'[p].index = stack'[q].index => p = q
    <3>1. \A p, q \in 1..N : stack[p].index = stack[q].index => p = q
      BY <1>1, <1>2 DEF Walks, Path
    <3> QED
      BY <1>7, <1>8, <1>9, <2>2, <3>1
  <2>4. ASSUME NEW p \in 1..(Len(stack') - 1)
        PROVE  stack'[p].offset > 0 /\ LinkAt(p)'.deps[stack'[p].offset] = LinkAt(p + 1)'.id
    <3>1. p \in 1..N
      BY <1>2, <1>6
    <3>2. CASE p = N
      <4>1. stack'[p].offset = Top.offset + 1 /\ Top.offset + 1 > 0
        BY <1>2, <1>5, <1>6, <3>1, <3>2
      <4> QED
        BY <1>2, <1>3, <1>9, <3>1, <3>2, <4>1
    <3>3. CASE p # N
      <4>1. p \in 1..(N - 1) /\ p + 1 \in 1..N
        BY <1>2, <3>1, <3>3
      <4>2. stack'[p] = stack[p]
        BY <1>5, <1>6, <3>1, <3>3
      <4> QED
        BY <1>0, <1>1, <1>9, <3>1, <4>1, <4>2 DEF Walks, Path
    <3> QED
      BY <3>2, <3>3
  <2>5. stack'[1].index = Tip
    <3>1. 1 \in 1..N /\ stack # <<>>
      BY <1>1, <1>2 DEF Walking
    <3> QED
      BY <1>1, <1>9, <3>1 DEF Walks, Path
  <2> QED
    BY <1>6, <2>1, <2>3, <2>4, <2>5 DEF Path
<1>13. Handled'
  <2> SUFFICES ASSUME NEW p \in 1..(N + 1), NEW d \in 1..stack'[p].offset
               PROVE  \/ LinkAt(p)'.deps[d] \in visited
                      \/ p < N + 1 /\ d = stack'[p].offset
    BY <1>1, <1>6, <1>7 DEF Handled
  <2>1. CASE p = N + 1
    BY <1>4, <1>6, <2>1
  <2>2. CASE p \in 1..N /\ p # N
    <3>1. stack'[p] = stack[p] /\ LinkAt(p)' = LinkAt(p)
      BY <1>5, <1>6, <1>9, <2>2
    <3>2. LinkAt(p).deps[d] \in visited \/ d = stack[p].offset
      BY <1>1, <1>2, <2>2, <3>1 DEF Walks, Handled
    <3>3. p < N + 1
      BY <1>2, <2>2
    <3> QED
      BY <3>1, <3>2, <3>3
  <2>3. CASE p = N
    <3>1. stack'[p].offset = Top.offset + 1 /\ p \in 1..N /\ p < N + 1
      BY <1>2, <1>5, <1>6, <2>3
    <3>2. CASE d = Top.offset + 1
      BY <3>1, <3>2
    <3>3. CASE d # Top.offset + 1
      <4>1. d \in 1..stack[p].offset
        BY <1>2, <2>3, <3>1, <3>3
      <4>2. LinkAt(p).deps[d] \in visited
        <5>1. p \in DOMAIN stack /\ ~(p < Len(stack))
          BY <1>0, <1>2, <2>3
        <5> QED
          BY <1>1, <4>1, <5>1 DEF Walks, Handled
      <4> QED
        BY <1>9, <3>1, <4>2
    <3> QED
      BY <3>2, <3>3
  <2> QED
    BY <1>8, <2>1, <2>2, <2>3
<1>14. Result'
  BY <1>1 DEF Walks, Result
<1>15. Behind'
  <2> SUFFICES ASSUME NEW S \in SUBSET DOMAIN proof, Closed(proof, S)
               PROVE  /\ \A p \in DOMAIN stack' : stack'[p].index \in S
                      /\ \A k \in DOMAIN ordered : ordered[k] \in S
    BY <1>1 DEF Behind
  <2>1. /\ \A p \in 1..N : stack[p].index \in S
        /\ \A k \in DOMAIN ordered : ordered[k] \in S
    BY <1>1, <1>2 DEF Walks, Behind
  <2>2. Top.index \in S
    BY <1>2, <2>1
  <2>3. I \in DirectOrigins(proof, Top.index)
    BY <1>2, <1>3 DEF DirectOrigins
  <2>4. I \in S
    BY <2>2, <2>3 DEF Closed
  <2> QED
    BY <1>7, <1>8, <1>9, <2>1, <2>4
<1>16. Walks'
  BY <1>1, <1>12, <1>13, <1>14, <1>15 DEF Walks, Unique, Matched
<1>17. outcome' = "walking"
  BY <1>1
<1> QED
  BY <1>10, <1>16, <1>17, WalkingOnly, Zenon

LEMMA CompleteKeeps ==
    ASSUME GraphInv, Complete
    PROVE  GraphInv'
<1> DEFINE N == Len(stack)
           L == Len(ordered)
           x == LinkAt(N).id
<1>1. /\ TypeOK /\ Walks /\ Walking /\ ~Pending /\ outcome = "walking"
      /\ stack' = SubSeq(stack, 1, N - 1) /\ visiting' = visiting \ {proof[Top.index].id}
      /\ visited' = visited \cup {proof[Top.index].id} /\ ordered' = Append(ordered, Top.index)
      /\ UNCHANGED <<proof, outcome>>
  BY DEF GraphInv, Complete, Walking
<1>2. /\ N \in Nat /\ DOMAIN stack = 1..N /\ N \in 1..N /\ stack \in Seq(Frames)
      /\ \A p \in 1..N : stack[p] \in Frames /\ stack[p].index \in DOMAIN proof
      /\ Top.offset \in Nat /\ Top = stack[N] /\ Top.index \in DOMAIN proof
      /\ proof[Top.index] = LinkAt(N) /\ proof[Top.index].id = x
  BY <1>1, StackShape, TopShape, ElementOfSeq
<1>3. /\ L \in Nat /\ DOMAIN ordered = 1..L /\ ordered \in Seq(DOMAIN proof)
  BY <1>1, ProofShape
<1> HIDE DEF N, L, x
<1>4. \A p \in 1..(N - 1) : p \in 1..N /\ p + 1 \in 1..N /\ p # N /\ p < N
  BY <1>2, BelowLast
<1>5. /\ stack' \in Seq(Frames) /\ Len(stack') = N - 1
      /\ \A p \in 1..(N - 1) : stack'[p] = stack[p]
  <2>1. 1 \in Int /\ N - 1 \in Int /\ \A p \in 1..(N - 1) : stack[p] \in Frames
    BY <1>2, <1>4
  <2>2. /\ stack' \in Seq(Frames) /\ Len(stack') = IF 1 <= N - 1 THEN (N - 1) - 1 + 1 ELSE 0
        /\ \A p \in 1..((N - 1) - 1 + 1) : stack'[p] = stack[1 + p - 1]
    BY <1>1, <2>1, SubSeqProperties
  <2>3. (N - 1) - 1 + 1 = N - 1 /\ (1 <= N - 1 \/ N - 1 = 0)
    BY <1>2
  <2>4. \A p \in 1..(N - 1) : 1 + p - 1 = p
    OBVIOUS
  <2> QED
    BY <2>2, <2>3, <2>4
<1>6. DOMAIN stack' = 1..(N - 1)
  BY <1>5, LenProperties
<1>7. \A p \in 1..(N - 1) : LinkAt(p)' = LinkAt(p)
  BY <1>1, <1>5 DEF LinkAt
<1>8. /\ ordered' \in Seq(DOMAIN proof) /\ Len(ordered') = L + 1
      /\ \A k \in 1..L : ordered'[k] = ordered[k]
      /\ ordered'[L + 1] = Top.index
  BY <1>1, <1>2, <1>3, AppendProperties DEF L
<1>9. DOMAIN ordered' = 1..(L + 1) /\ ordered' # <<>>
  BY <1>3, <1>8, LenProperties, EmptySeq
<1>10. \A k \in 1..(L + 1) : k \in 1..L \/ k = L + 1
  BY <1>3
<1>11. visiting = {LinkAt(p).id : p \in 1..N} /\ x \in visiting /\ x \notin visited
  <2>1. visiting = {LinkAt(p).id : p \in 1..N}
    BY <1>1, <1>2 DEF Walks, Path
  <2>2. x \in visiting
    BY <1>2, <2>1 DEF x
  <2>3. visiting \cap visited = {}
    BY <1>1 DEF Walks, Result
  <2> QED
    BY <2>1, <2>2, <2>3
<1>12. \A p \in 1..(N - 1) : LinkAt(p).id # x
  <2> SUFFICES ASSUME NEW p \in 1..(N - 1), LinkAt(p).id = x PROVE FALSE
    OBVIOUS
  <2>1. stack[p].index = stack[N].index
    BY <1>1, <1>2, <1>4 DEF Walks, Unique, LinkAt, x
  <2> QED
    BY <1>1, <1>2, <1>4, <2>1 DEF Walks, Path
<1>13. TypeOK'
  <2>1. \A p \in DOMAIN stack' : stack'[p].offset <= Len(LinkAt(p)'.deps)
    BY <1>1, <1>2, <1>4, <1>5, <1>6, <1>7, StackShape
  <2>2. visiting' \subseteq IdsOf(proof) /\ visited' \subseteq IdsOf(proof)
    BY <1>1, <1>2 DEF TypeOK, IdsOf
  <2> QED
    BY <1>1, <1>5, <1>8, <2>1, <2>2 DEF TypeOK, Frames, LinkAt
<1>14. Path'
  <2>1. visiting' = {LinkAt(p)'.id : p \in DOMAIN stack'}
    <3>1. \A p \in 1..N : p \in 1..(N - 1) \/ p = N
      BY <1>2
    <3>2. visiting' = {LinkAt(p).id : p \in 1..(N - 1)}
      BY <1>1, <1>2, <1>4, <1>11, <1>12, <3>1 DEF x
    <3> QED
      BY <1>6, <1>7, <3>2
  <2>2. \A p, q \in DOMAIN stack' : stack'[p].index = stack'[q].index => p = q
    BY <1>1, <1>2, <1>4, <1>5, <1>6 DEF Walks, Path
  <2>3. ASSUME NEW p \in 1..(Len(stack') - 1)
        PROVE  stack'[p].offset > 0 /\ LinkAt(p)'.deps[stack'[p].offset] = LinkAt(p + 1)'.id
    <3>1. p \in 1..(N - 1) /\ p + 1 \in 1..(N - 1)
      BY <1>2, <1>5
    <3> QED
      BY <1>1, <1>5, <1>7, <3>1 DEF Walks, Path, N
  <2>4. stack' # <<>> => stack'[1].index = Tip
    <3> SUFFICES ASSUME stack' # <<>> PROVE stack'[1].index = Tip
      OBVIOUS
    <3>1. N - 1 \in Nat \ {0}
      BY <1>5, EmptySeq
    <3>2. 1 \in 1..(N - 1) /\ stack # <<>>
      BY <1>1, <1>2, <3>1 DEF Walking
    <3> QED
      BY <1>1, <1>5, <3>2 DEF Walks, Path
  <2>5. stack' = <<>> => ordered'[Len(ordered')] = Tip
    <3> SUFFICES ASSUME stack' = <<>> PROVE Top.index = Tip
      BY <1>8
    <3>1. N = 1 /\ stack # <<>>
      BY <1>1, <1>2, <1>5, EmptySeq DEF Walking
    <3> QED
      BY <1>1, <1>2, <3>1 DEF Walks, Path
  <2> QED
    BY <1>9, <2>1, <2>2, <2>3, <2>4, <2>5 DEF Path
<1>15. Handled'
  <2> SUFFICES ASSUME NEW p \in 1..(N - 1), NEW d \in 1..stack[p].offset
               PROVE  \/ LinkAt(p).deps[d] \in visited'
                      \/ p < N - 1 /\ d = stack[p].offset
    BY <1>5, <1>6, <1>7 DEF Handled
  <2>1. LinkAt(p).deps[d] \in visited \/ d = stack[p].offset
    BY <1>1, <1>2, <1>4 DEF Walks, Handled
  <2>2. CASE p = N - 1 /\ d = stack[p].offset
    <3>1. LinkAt(p).deps[d] = LinkAt(p + 1).id /\ p + 1 = N
      BY <1>1, <1>2, <2>2 DEF Walks, Path, N
    <3> QED
      BY <1>1, <1>2, <3>1 DEF x
  <2>3. p < N - 1 \/ p = N - 1
    BY <1>2
  <2> QED
    BY <1>1, <2>1, <2>2, <2>3
<1>16. Result'
  <2>1. visited = {proof[ordered[k]].id : k \in 1..L} /\ visiting \cap visited = {}
    BY <1>1, <1>3 DEF Walks, Result
  <2>2. visited' = {proof'[ordered'[k]].id : k \in 1..(L + 1)}
    <3>1. L + 1 \in 1..(L + 1) /\ \A k \in 1..L : k \in 1..(L + 1)
      BY <1>3
    <3> QED
      BY <1>1, <1>8, <1>10, <2>1, <3>1
  <2>3. visiting' \cap visited' = {}
    BY <1>1, <2>1
  <2>4. \A k \in 1..L : ordered[k] # Top.index
    BY <1>2, <1>11, <2>1
  <2>5. \A j, k \in 1..(L + 1) : ordered'[j] = ordered'[k] => j = k
    <3>1. \A j, k \in 1..L : ordered[j] = ordered[k] => j = k
      BY <1>1, <1>3 DEF Walks, Result
    <3> QED
      BY <1>8, <1>10, <2>4, <3>1
  <2>6. ASSUME NEW k \in 1..(L + 1), NEW d \in DOMAIN proof[ordered'[k]].deps
        PROVE  \E j \in 1..(k - 1) : proof[ordered'[j]].id = proof[ordered'[k]].deps[d]
    <3>1. CASE k \in 1..L
      <4>1. \E j \in 1..(k - 1) : proof[ordered[j]].id = proof[ordered[k]].deps[d]
        BY <1>1, <1>3, <1>8, <3>1 DEF Walks, Result
      <4>2. \A j \in 1..(k - 1) : j \in 1..L
        BY <1>3, <3>1
      <4> QED
        BY <1>8, <3>1, <4>1, <4>2
    <3>2. CASE k = L + 1
      <4>1. ordered'[k] = Top.index /\ k - 1 = L
        BY <1>3, <1>8, <3>2
      <4>2. d \in 1..stack[N].offset
        <5>1. /\ DOMAIN LinkAt(N).deps = 1..Len(LinkAt(N).deps) /\ Len(LinkAt(N).deps) \in Nat
          BY <1>1, <1>2, ProofShape
        <5>2. ~(Top.offset < Len(LinkAt(N).deps))
          BY <1>1, <1>2 DEF Pending
        <5> QED
          BY <1>2, <4>1, <5>1, <5>2
      <4>3. ~(N < N)
        BY <1>2
      <4>4. LinkAt(N).deps[d] \in visited
        BY <1>1, <1>2, <4>2, <4>3 DEF Walks, Handled, N
      <4>5. \E j \in 1..L : proof[ordered[j]].id = proof[ordered'[k]].deps[d]
        BY <1>2, <2>1, <4>1, <4>4
      <4> QED
        BY <1>8, <4>1, <4>5
    <3> QED
      BY <1>10, <3>1, <3>2
  <2>7. visited' = {proof'[ordered'[k]].id : k \in DOMAIN ordered'}
    BY <1>9, <2>2
  <2>8. \A j, k \in DOMAIN ordered' : ordered'[j] = ordered'[k] => j = k
    BY <1>9, <2>5
  <2>9. \A k \in DOMAIN ordered' : \A d \in DOMAIN proof'[ordered'[k]].deps :
            \E j \in 1..(k - 1) : proof'[ordered'[j]].id = proof'[ordered'[k]].deps[d]
    BY <1>1, <1>9, <2>6
  <2> QED
    BY <2>3, <2>7, <2>8, <2>9 DEF Result
<1>17. Behind'
  <2> SUFFICES ASSUME NEW S \in SUBSET DOMAIN proof, Closed(proof, S)
               PROVE  /\ \A p \in DOMAIN stack' : stack'[p].index \in S
                      /\ \A k \in DOMAIN ordered' : ordered'[k] \in S
    BY <1>1 DEF Behind
  <2>1. /\ \A p \in 1..N : stack[p].index \in S
        /\ \A k \in 1..L : ordered[k] \in S
    BY <1>1, <1>2, <1>3 DEF Walks, Behind
  <2> QED
    BY <1>2, <1>4, <1>5, <1>6, <1>8, <1>9, <1>10, <2>1
<1>18. Walks'
  BY <1>1, <1>14, <1>15, <1>16, <1>17 DEF Walks, Unique, Matched
<1> QED
  BY <1>1, <1>13, <1>18, WalkingOnly

(***************************************************************************)
(* The ends of the walk.                                                   *)
(***************************************************************************)
LEMMA FailKeeps ==
    ASSUME GraphInv, outcome' \in Errors, ~History(proof),
           UNCHANGED <<proof, stack, visiting, visited, ordered>>
    PROVE  GraphInv'
<1>1. TypeOK'
  BY DEF GraphInv, TypeOK, Errors, IdsOf
<1>2. outcome' \notin {"indexing", "walking", "ordered"}
  BY DEF Errors
<1>3. proof' = proof
  OBVIOUS
<1> QED
  BY <1>1, <1>2, <1>3 DEF GraphInv, AcceptsExactlyHistories, DependenciesFirst

LEMMA RejectKeeps ==
    ASSUME GraphInv, Reject
    PROVE  GraphInv'
<1>1. ~History(proof)
  BY DEF Reject, History
<1>2. outcome' \in Errors /\ UNCHANGED <<proof, stack, visiting, visited, ordered>>
  BY DEF Reject, Fail, Errors
<1> QED
  BY <1>1, <1>2, FailKeeps

\* What is missing is missing from the proof.
LEMMA MissingKeeps ==
    ASSUME GraphInv, Missing
    PROVE  GraphInv'
<1>1. TypeOK /\ Walking /\ Pending /\ Dependency \notin IdsOf(proof)
  BY DEF GraphInv, Missing
<1>2. /\ Top.index \in DOMAIN proof /\ Top.offset + 1 \in DOMAIN proof[Top.index].deps
      /\ Dependency = proof[Top.index].deps[Top.offset + 1]
  BY <1>1, TopShape DEF Dependency
<1>3. ~History(proof)
  BY <1>1, <1>2 DEF History, AllThere
<1> QED
  BY <1>3, FailKeeps DEF Missing, Fail, Errors

\* A dependency that is being visited is on the stack: from there to the top
\* each link derives from the next, and the last from the first.
LEMMA CycleKeeps ==
    ASSUME GraphInv, Cycle
    PROVE  GraphInv'
<1>0. PICK N \in Nat : N = Len(stack)
  BY StackShape DEF GraphInv
<1>1. TypeOK /\ Walks /\ Walking /\ Pending /\ Dependency \in visiting
  BY DEF GraphInv, Cycle, Walking
<1>2. /\ DOMAIN stack = 1..N /\ N \in 1..N
      /\ Top.index = stack[N].index /\ Top.index \in DOMAIN proof
      /\ Top.offset + 1 \in DOMAIN proof[Top.index].deps
      /\ Dependency = proof[Top.index].deps[Top.offset + 1]
      /\ \A p \in 1..N : /\ stack[p].index \in DOMAIN proof /\ stack[p].offset \in Nat
                         /\ stack[p].offset <= Len(LinkAt(p).deps)
  BY <1>0, <1>1, StackShape, TopShape DEF Dependency
<1>3. PICK q \in 1..N : LinkAt(q).id = Dependency
  BY <1>1, <1>2 DEF Walks, Path
<1> DEFINE S == {stack[p].index : p \in q..N}
<1>4. \A p \in q..N : p \in 1..N /\ (p = N \/ (p \in 1..(N - 1) /\ p + 1 \in q..N))
  BY <1>3
<1>5. S \in SUBSET DOMAIN proof /\ stack[N].index \in S /\ stack[q].index \in S
  BY <1>2, <1>3, <1>4
<1>6. ASSUME NEW p \in q..N
      PROVE  DirectOrigins(proof, stack[p].index) \cap S # {}
  <2>1. CASE p = N
    <3>1. proof[stack[q].index].id = proof[stack[N].index].deps[Top.offset + 1]
      BY <1>2, <1>3 DEF LinkAt
    <3>2. stack[q].index \in DirectOrigins(proof, stack[N].index)
      BY <1>2, <1>3, <3>1 DEF DirectOrigins
    <3> QED
      BY <1>5, <2>1, <3>2
  <2>2. CASE p \in 1..(N - 1) /\ p + 1 \in q..N
    <3>1. stack[p].offset > 0 /\ LinkAt(p).deps[stack[p].offset] = LinkAt(p + 1).id
      BY <1>0, <1>1, <2>2 DEF Walks, Path
    <3>2. p \in 1..N /\ p + 1 \in 1..N
      BY <1>4, <2>2
    <3>3. Len(LinkAt(p).deps) \in Nat /\ DOMAIN LinkAt(p).deps = 1..Len(LinkAt(p).deps)
      BY <1>1, <1>2, <3>2, ProofShape DEF LinkAt
    <3>4. stack[p].offset \in DOMAIN LinkAt(p).deps
      BY <1>2, <3>1, <3>2, <3>3
    <3>5. stack[p + 1].index \in DirectOrigins(proof, stack[p].index)
      BY <1>2, <3>1, <3>2, <3>4 DEF DirectOrigins, LinkAt
    <3>6. stack[p + 1].index \in S
      BY <2>2
    <3> QED
      BY <3>5, <3>6
  <2> QED
    BY <1>4, <2>1, <2>2
<1>7. \A n \in S : DirectOrigins(proof, n) \cap S # {}
  BY <1>6
<1> HIDE DEF S
<1>8. ~History(proof)
  BY <1>5, <1>7 DEF History, Acyclic
<1> QED
  BY <1>8, FailKeeps DEF Cycle, Fail, Errors

(***************************************************************************)
(* Counting: the order has all links exactly if it is as long as the       *)
(* proof, and then as many ids are visited.                                *)
(***************************************************************************)
LEMMA AllOrdered ==
    ASSUME TypeOK, Unique(proof), Result
    PROVE  /\ Len(ordered) = Len(proof) <=>
                 \A n \in DOMAIN proof : \E k \in DOMAIN ordered : ordered[k] = n
           /\ Len(ordered) = Len(proof) => Cardinality(visited) = Len(proof)
<1> DEFINE N == Len(proof)
           L == Len(ordered)
<1>1. /\ N \in Nat /\ DOMAIN proof = 1..N /\ L \in Nat /\ DOMAIN ordered = 1..L
      /\ ordered \in [1..L -> 1..N]
  <2>1. ordered \in Seq(DOMAIN proof)
    BY ProofShape
  <2> QED
    BY <2>1, ProofShape, LenProperties
<1> HIDE DEF N, L
<1>2. ordered \in Injection(1..L, 1..N)
  BY <1>1 DEF Result, Injection, IsInjective
<1>3. /\ IsFiniteSet(1..N) /\ Cardinality(1..N) = N
      /\ IsFiniteSet(1..L) /\ Cardinality(1..L) = L
  BY <1>1, FS_Interval
<1>4. L = N <=> ordered \in Surjection(1..L, 1..N)
  BY <1>2, <1>3, FS_Injection
<1>5. ordered \in Surjection(1..L, 1..N) <=>
         \A n \in DOMAIN proof : \E k \in DOMAIN ordered : ordered[k] = n
  BY <1>1 DEF Surjection
<1>6. ASSUME L = N PROVE Cardinality(visited) = N
  <2> DEFINE f == [n \in 1..N |-> proof[n].id]
  <2>1. \A n \in 1..N : \E k \in 1..L : ordered[k] = n
    BY <1>1, <1>4, <1>5, <1>6
  <2>2. visited = {proof[n].id : n \in 1..N}
    BY <1>1, <2>1 DEF Result
  <2>3. f \in [1..N -> visited]
    BY <2>2
  <2>4. \A m, n \in 1..N : f[m] = f[n] => m = n
    BY <1>1 DEF Unique
  <2>5. \A v \in visited : \E n \in 1..N : f[n] = v
    BY <2>2
  <2> HIDE DEF f
  <2>6. f \in Bijection(1..N, visited)
    BY <2>3, <2>4, <2>5 DEF Bijection, Injection, Surjection, IsInjective
  <2> QED
    BY <1>3, <2>6, FS_Bijection DEF ExistsBijection
<1> QED
  BY <1>4, <1>5, <1>6 DEF N, L

\* What the order has is closed: with the tip, and with what its links derive
\* from.
LEMMA OrderIsClosed ==
    ASSUME TypeOK, Walks, stack = <<>>
    PROVE  Closed(proof, {ordered[k] : k \in DOMAIN ordered})
<1> DEFINE R == {ordered[k] : k \in DOMAIN ordered}
<1>1. /\ Len(ordered) \in Nat /\ DOMAIN ordered = 1..Len(ordered) /\ ordered # <<>>
      /\ \A k \in DOMAIN ordered : ordered[k] \in DOMAIN proof
  BY ProofShape DEF Walks, Path
<1>2. Tip \in R
  <2>1. Len(ordered) # 0
    BY <1>1, ProofShape, EmptySeq
  <2> QED
    BY <1>1, <2>1 DEF Walks, Path
<1>3. ASSUME NEW k \in DOMAIN ordered, NEW m \in DirectOrigins(proof, ordered[k])
      PROVE  m \in R
  <2>1. m \in DOMAIN proof
    BY DEF DirectOrigins
  <2>2. PICK d \in DOMAIN proof[ordered[k]].deps : proof[ordered[k]].deps[d] = proof[m].id
    BY DEF DirectOrigins
  <2>3. PICK j \in 1..(k - 1) : proof[ordered[j]].id = proof[m].id
    BY <2>2 DEF Walks, Result
  <2>4. j \in DOMAIN ordered
    BY <1>1
  <2>5. ordered[j] = m
    BY <1>1, <2>1, <2>3, <2>4 DEF Walks, Unique
  <2> QED
    BY <2>4, <2>5
<1> QED
  BY <1>2, <1>3 DEF Closed

\* An order of all links, each after what it derives from, leaves no cycle:
\* of any links the first in it derives from none of them.
LEMMA OrderIsAcyclic ==
    ASSUME TypeOK, Walks,
           \A n \in DOMAIN proof : \E k \in DOMAIN ordered : ordered[k] = n
    PROVE  Acyclic(proof)
<1> SUFFICES ASSUME NEW S \in SUBSET DOMAIN proof, S # {}
             PROVE  \E n \in S : DirectOrigins(proof, n) \cap S = {}
  BY DEF Acyclic
<1> DEFINE K == {k \in DOMAIN ordered : ordered[k] \in S}
<1>1. Len(ordered) \in Nat /\ DOMAIN ordered = 1..Len(ordered)
  BY ProofShape
<1>2. K \subseteq Nat /\ K # {}
  BY <1>1
<1>3. \A j, k \in Nat : j < k => <<j, k>> \in OpToRel(<, Nat)
  BY Zenon DEF OpToRel
<1> HIDE DEF K
<1>4. PICK k \in K : \A j \in K : <<j, k>> \notin OpToRel(<, Nat)
  BY <1>2, NatLessThanWellFounded, WFMin
<1>5. k \in DOMAIN ordered /\ ordered[k] \in S
  BY DEF K
<1>6. ASSUME NEW m \in DirectOrigins(proof, ordered[k]), m \in S
      PROVE  FALSE
  <2>1. m \in DOMAIN proof
    BY <1>6
  <2>2. PICK d \in DOMAIN proof[ordered[k]].deps : proof[ordered[k]].deps[d] = proof[m].id
    BY <1>6 DEF DirectOrigins
  <2>3. PICK j \in 1..(k - 1) : proof[ordered[j]].id = proof[m].id
    BY <1>5, <2>2 DEF Walks, Result
  <2>4. j \in DOMAIN ordered /\ j < k /\ j \in Nat /\ k \in Nat
    BY <1>1, <1>5
  <2>5. ordered[j] = m
    BY <2>1, <2>3, <2>4, ProofShape DEF Walks, Unique
  <2>6. j \in K
    BY <1>6, <2>4, <2>5 DEF K
  <2> QED
    BY <1>3, <1>4, <2>4, <2>6
<1> QED
  BY <1>5, <1>6

LEMMA FinishKeeps ==
    ASSUME GraphInv, Finish
    PROVE  GraphInv'
<1>1. /\ TypeOK /\ Walks /\ stack = <<>>
      /\ UNCHANGED <<proof, stack, visiting, visited, ordered>>
  BY DEF GraphInv, Finish
<1>2. /\ Len(ordered) = Len(proof) <=>
            \A n \in DOMAIN proof : \E k \in DOMAIN ordered : ordered[k] = n
      /\ Len(ordered) = Len(proof) => Cardinality(visited) = Len(proof)
  BY <1>1, AllOrdered DEF Walks
<1>3. CASE Len(ordered) = Len(proof)
  <2>1. outcome' = "ordered"
    BY <1>2, <1>3 DEF Finish
  <2>2. TypeOK'
    BY <1>1, <2>1 DEF TypeOK, IdsOf
  <2>3. AllThere(proof)
    <3> SUFFICES ASSUME NEW n \in DOMAIN proof, NEW d \in DOMAIN proof[n].deps
                 PROVE  proof[n].deps[d] \in IdsOf(proof)
      BY DEF AllThere
    <3>1. PICK k \in DOMAIN ordered : ordered[k] = n
      BY <1>2, <1>3
    <3>2. PICK j \in 1..(k - 1) : proof[ordered[j]].id = proof[n].deps[d]
      BY <1>1, <3>1 DEF Walks, Result
    <3>3. j \in DOMAIN ordered
      BY <1>1, ProofShape
    <3>4. ordered[j] \in DOMAIN proof
      BY <1>1, <3>3, ProofShape
    <3> QED
      BY <3>2, <3>4 DEF IdsOf
  <2>4. Acyclic(proof)
    BY <1>1, <1>2, <1>3, OrderIsAcyclic
  <2>5. AllBehindTip(proof)
    <3> SUFFICES ASSUME NEW S \in SUBSET DOMAIN proof, Closed(proof, S) PROVE S = DOMAIN proof
      BY DEF AllBehindTip
    <3>1. \A k \in DOMAIN ordered : ordered[k] \in S
      BY <1>1 DEF Walks, Behind
    <3> QED
      BY <1>2, <1>3, <3>1, Zenon
  <2>6. History(proof)
    BY <1>1, <2>3, <2>4, <2>5 DEF History, Walks
  <2>7. ordered[Len(ordered)] = Tip
    BY <1>1 DEF Walks, Path
  <2>8. DependenciesFirst'
    BY <1>1, <1>2, <1>3, <2>7 DEF DependenciesFirst, Walks, Result
  <2>9. AcceptsExactlyHistories'
    BY <1>1, <2>1, <2>6 DEF AcceptsExactlyHistories, Errors
  <2> QED
    BY <2>1, <2>2, <2>8, <2>9 DEF GraphInv
<1>4. CASE Len(ordered) # Len(proof)
  <2> DEFINE R == {ordered[k] : k \in DOMAIN ordered}
  <2>1. R \in SUBSET DOMAIN proof /\ R # DOMAIN proof
    BY <1>1, <1>2, <1>4, ProofShape, Zenon
  <2>2. Closed(proof, R)
    BY <1>1, OrderIsClosed
  <2> HIDE DEF R
  <2>3. ~History(proof)
    BY <2>1, <2>2 DEF History, AllBehindTip
  <2> QED
    BY <1>1, <1>4, <2>3, FailKeeps DEF Finish, Errors
<1> QED
  BY <1>3, <1>4

LEMMA StepKeepsGraph ==
    ASSUME GraphInv, [Next]_vars
    PROVE  GraphInv'
<1>1. CASE Walk
  BY <1>1, SkipKeeps, MissingKeeps, CycleKeeps, DescendKeeps, CompleteKeeps, FinishKeeps
  DEF Walk
<1>2. CASE UNCHANGED vars
  <2>1. TypeOK' /\ AcceptsExactlyHistories' /\ DependenciesFirst'
    BY <1>2 DEF GraphInv, TypeOK, AcceptsExactlyHistories, DependenciesFirst, vars, IdsOf
  <2>2. Untouched => Untouched'
    BY <1>2 DEF Untouched, vars
  <2>3. Walks => Walks'
    <3>1. /\ Path => Path'
          /\ Handled => Handled'
          /\ Result => Result'
          /\ Behind => Behind'
      BY <1>2 DEF Path, Handled, Result, Behind, LinkAt, vars
    <3> QED
      BY <1>2, <3>1 DEF Walks, vars
  <2> QED
    BY <1>2, <2>1, <2>2, <2>3 DEF GraphInv, vars
<1> QED
  BY <1>1, <1>2, RejectKeeps, StartKeeps DEF Next, Done

LEMMA WalkKeepsGraph == Spec => []GraphInv
BY InitGraph, StepKeepsGraph, PTL DEF Spec

(***************************************************************************)
(* Each turn of the loop gets the walk further.                            *)
(***************************************************************************)
LEMMA SkipMoves ==
    ASSUME GraphInv, Skip
    PROVE  MovesPast
<1>1. /\ TypeOK /\ Walking /\ Pending /\ stack' = Advanced
      /\ UNCHANGED <<proof, visiting, visited>>
  BY DEF GraphInv, Skip
<1>2. /\ Len(stack) \in DOMAIN stack /\ Top = stack[Len(stack)]
  BY <1>1, TopShape
<1>3. /\ Len(stack') = Len(stack)
      /\ stack'[Len(stack)].index = Top.index
      /\ stack'[Len(stack)].offset = Top.offset + 1
  BY <1>1, <1>2, AdvancedShape
<1> QED
  BY <1>1, <1>3 DEF MovesPast, Entered, Top

LEMMA DescendEnters ==
    ASSUME Descend
    PROVE  Enters
<1>1. /\ Dependency \in IdsOf(proof) /\ Dependency \notin visited /\ Dependency \notin visiting
      /\ visiting' = visiting \cup {Dependency} /\ visited' = visited
  BY DEF Descend
<1> HIDE DEF Dependency
<1>2. Entered' = Entered \cup {Dependency} /\ Dependency \in IdsOf(proof) \ Entered
  BY <1>1 DEF Entered
<1> QED
  BY <1>2 DEF Enters

\* The link on top is on the path, and no link of the path is in the result.
LEMMA CompleteLeaves ==
    ASSUME GraphInv, Complete
    PROVE  Leaves
<1> DEFINE x == proof[Top.index].id
<1>1. /\ TypeOK /\ Walks /\ Walking
      /\ visiting' = visiting \ {x} /\ visited' = visited \cup {x}
  BY DEF GraphInv, Complete, Walking
<1>2. x \in visiting
  <2>1. Len(stack) \in DOMAIN stack /\ x = LinkAt(Len(stack)).id
    BY <1>1, TopShape
  <2> QED
    BY <1>1, <2>1 DEF Walks, Path
<1>3. x \notin visited
  BY <1>1, <1>2 DEF Walks, Result
<1> HIDE DEF x
<1>4. Entered' = Entered /\ x \in Entered \ visited
  BY <1>1, <1>2, <1>3 DEF Entered
<1> QED
  BY <1>1, <1>4 DEF Leaves

LEMMA TurnAdvances ==
    ASSUME GraphInv, Next, outcome = "walking", outcome' = "walking"
    PROVE  Enters \/ Leaves \/ MovesPast
<1>1. Skip \/ Descend \/ Complete
  BY DEF Next, Reject, Start, Walk, Missing, Cycle, Finish, Done, Fail, Errors
<1> QED
  BY <1>1, SkipMoves, DescendEnters, CompleteLeaves

(***************************************************************************)
(* Theorems.                                                               *)
(***************************************************************************)

\* For proofs of any length: the stack, the sets and the order of
\* build_proof_graph stay within the proof.
THEOREM GraphIsTyped == Spec => []TypeOK
<1>1. GraphInv => TypeOK
  BY DEF GraphInv
<1> QED
  BY <1>1, WalkKeepsGraph, PTL

\* For proofs of any length: the order build_proof_graph returns has every
\* link once, after all it derives from, and the tip last.
THEOREM OrderIsCreationOrder == Spec => []DependenciesFirst
<1>1. GraphInv => DependenciesFirst
  BY DEF GraphInv
<1> QED
  BY <1>1, WalkKeepsGraph, PTL

\* For proofs of any length: build_proof_graph accepts a proof that is one
\* history and no other, and rejects none that is.
THEOREM AcceptsHistories == Spec => []AcceptsExactlyHistories
<1>1. GraphInv => AcceptsExactlyHistories
  BY DEF GraphInv
<1> QED
  BY <1>1, WalkKeepsGraph, PTL

\* For proofs of any length: a turn of build_proof_graph enters a link, leaves
\* one, or moves past a dependency, so the loop does not spin.
THEOREM WalkAdvances == Spec => EveryTurnAdvances
<1>1. GraphInv /\ [Next]_vars =>
          [outcome = "walking" /\ outcome' = "walking" => Enters \/ Leaves \/ MovesPast]_vars
  BY TurnAdvances
<1> QED
  BY <1>1, WalkKeepsGraph, PTL DEF Spec, EveryTurnAdvances
=============================================================================
