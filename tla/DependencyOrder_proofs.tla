------------------------ MODULE DependencyOrder_proofs ------------------------
(***************************************************************************)
(* Theorems about DependencyOrder, for every graph and all roots: that its *)
(* result is an order to create records in, and of what is behind the      *)
(* roots.                                                                  *)
(***************************************************************************)
EXTENDS ArchiveOrder, SequenceTheorems, WellFoundedInduction, TLAPS

Frames == [id : Ids, exit : BOOLEAN]

(***************************************************************************)
(* The stack.                                                              *)
(***************************************************************************)
LEMMA TailOfStack ==
    ASSUME stack \in Seq(Frames), stack # <<>>
    PROVE  /\ Tail(stack) \in Seq(Frames)
           /\ Len(stack) \in Nat /\ Len(stack) > 0
           /\ Len(Tail(stack)) = Len(stack) - 1
           /\ \A k \in 1..(Len(stack) - 1) : Tail(stack)[k] = stack[k + 1]
           /\ Head(stack) = stack[1] /\ stack[1] \in Frames
OBVIOUS

\* What is on the stack when a node is expanded: its dependencies, its exit,
\* and what was below it.
Pushed(S, ids, id, T) ==
    /\ S \in Seq(Frames)
    /\ Len(S) = Len(ids) + 1 + Len(T)
    /\ \A k \in 1..Len(ids) : S[k] = Enter(ids[k])
    /\ S[Len(ids) + 1] = Leave(id)
    /\ \A k \in 1..Len(T) : S[Len(ids) + 1 + k] = T[k]

LEMMA StackConcat ==
    ASSUME NEW s \in Seq(Frames), NEW t \in Seq(Frames)
    PROVE  /\ s \o t \in Seq(Frames)
           /\ Len(s \o t) = Len(s) + Len(t)
           /\ \A k \in 1..(Len(s) + Len(t)) :
                 (s \o t)[k] = IF k <= Len(s) THEN s[k] ELSE t[k - Len(s)]
BY ConcatProperties

LEMMA PushedStack ==
    ASSUME NEW ids \in Seq(Ids), NEW id \in Ids, NEW T \in Seq(Frames)
    PROVE  Pushed(Entries(ids) \o <<Leave(id)>> \o T, ids, id, T)
<1> DEFINE E == Entries(ids)
           F == <<Leave(id)>>
           G == E \o F
           S == G \o T
<1>1. /\ E \in Seq(Frames) /\ Len(E) = Len(ids)
      /\ \A k \in 1..Len(ids) : E[k] = Enter(ids[k])
  <2>1. Len(ids) \in Nat /\ DOMAIN ids = 1..Len(ids) /\ \A k \in 1..Len(ids) : ids[k] \in Ids
    BY LenProperties, ElementOfSeq
  <2>2. \A k \in 1..Len(ids) : Enter(ids[k]) \in Frames
    BY <2>1 DEF Enter, Frames
  <2>3. E = [k \in 1..Len(ids) |-> Enter(ids[k])]
    BY <2>1 DEF Entries
  <2> HIDE DEF E
  <2> QED
    BY <2>1, <2>2, <2>3
<1>2. F \in Seq(Frames) /\ Len(F) = 1 /\ F[1] = Leave(id)
  BY DEF Leave, Frames
<1>3. Len(ids) \in Nat /\ Len(T) \in Nat
  BY LenProperties
<1> HIDE DEF E, F
<1>4. /\ G \in Seq(Frames) /\ Len(G) = Len(E) + Len(F)
      /\ \A k \in 1..(Len(E) + Len(F)) : G[k] = IF k <= Len(E) THEN E[k] ELSE F[k - Len(E)]
  BY <1>1, <1>2, StackConcat
<1>5. /\ G \in Seq(Frames) /\ Len(G) = Len(ids) + 1
      /\ \A k \in 1..Len(ids) : G[k] = Enter(ids[k])
      /\ G[Len(ids) + 1] = Leave(id)
  <2>1. G[Len(ids) + 1] = F[(Len(ids) + 1) - Len(ids)] /\ (Len(ids) + 1) - Len(ids) = 1
    BY <1>1, <1>2, <1>3, <1>4
  <2> QED
    BY <1>1, <1>2, <1>3, <1>4, <2>1
<1> HIDE DEF G
<1>6. /\ S \in Seq(Frames) /\ Len(S) = Len(G) + Len(T)
      /\ \A k \in 1..(Len(G) + Len(T)) : S[k] = IF k <= Len(G) THEN G[k] ELSE T[k - Len(G)]
  BY <1>5, StackConcat
<1>7. \A k \in 1..(Len(ids) + 1) : S[k] = G[k]
  BY <1>3, <1>5, <1>6
<1>8. ASSUME NEW k \in 1..Len(T) PROVE S[Len(ids) + 1 + k] = T[k]
  <2>1. S[Len(ids) + 1 + k] = T[(Len(ids) + 1 + k) - (Len(ids) + 1)]
    BY <1>3, <1>5, <1>6
  <2>2. (Len(ids) + 1 + k) - (Len(ids) + 1) = k
    BY <1>3
  <2> QED
    BY <2>1, <2>2
<1> HIDE DEF S
<1>9. Pushed(S, ids, id, T)
  BY <1>3, <1>5, <1>6, <1>7, <1>8 DEF Pushed
<1>10. S = Entries(ids) \o <<Leave(id)>> \o T
  BY DEF S, G, F, E
<1> QED
  BY <1>9, <1>10

(***************************************************************************)
(* The inductive invariant.                                                *)
(***************************************************************************)
Types ==
    /\ request \in Requests
    /\ turn \in Nat \ {0}
    /\ stack \in Seq(Frames)
    /\ ordered \in Seq(Ids)
    /\ outcome \in Errors \cup {"walking", "ordered"}

\* The nodes entered and not left are those with an exit on the stack, one
\* each.
Exits ==
    /\ \A p \in DOMAIN stack : stack[p].exit => stack[p].id \in active
    /\ \A i \in active : \E p \in DOMAIN stack : stack[p].exit /\ stack[p].id = i
    /\ \A p, q \in DOMAIN stack :
          stack[p].exit /\ stack[q].exit /\ stack[p].id = stack[q].id => p = q

Result ==
    /\ \A i : i \in done <=> \E k \in DOMAIN ordered : ordered[k] = i
    /\ active \cap done = {}
    /\ IsInjective(ordered)

\* What the walk has to find: everything, or only what the archive has.
Needed(id) == request.complete \/ id \in DOMAIN Graph

\* What a node on the way out derives from is done, or yet to be left: it is
\* above the exit on the stack.
Accounted ==
    \A p \in DOMAIN stack : stack[p].exit =>
        \A n \in DOMAIN Dependencies(stack[p].id) :
            LET d == Dependencies(stack[p].id)[n] IN
            Needed(d) => d \in done \/ \E q \in 1..(p - 1) : stack[q].id = d

OrderInv == Types /\ Exits /\ Result /\ Accounted /\ DependenciesFirst

LEMMA InitOrder == Init => OrderInv
<1> SUFFICES ASSUME Init PROVE OrderInv
  OBVIOUS
<1>1. DOMAIN stack = {} /\ DOMAIN ordered = {} /\ active = {} /\ done = {}
  BY DEF Init
<1>2. Types
  BY DEF Init, Types
<1>3. Exits /\ Result /\ Accounted /\ DependenciesFirst
  BY <1>1 DEF Exits, Result, Accounted, DependenciesFirst, IsInjective
<1> QED
  BY <1>2, <1>3 DEF OrderInv

\* Nothing but the outcome changes.
LEMMA OutcomeOnly ==
    ASSUME OrderInv, outcome' \in Errors \cup {"walking", "ordered"},
           UNCHANGED <<request, turn, stack, active, done, ordered>>
    PROVE  OrderInv'
BY DEF OrderInv, Types, Exits, Result, Accounted, Needed, DependenciesFirst, IsInjective,
       Dependencies, Graph

LEMMA RootKeeps ==
    ASSUME OrderInv, NextRoot
    PROVE  OrderInv'
<1>1. /\ stack' = <<Enter(request.roots[turn])>> /\ turn' = turn + 1 /\ stack = <<>>
      /\ turn <= Len(request.roots)
      /\ UNCHANGED <<request, active, done, ordered, outcome>>
  BY DEF NextRoot
<1>2. request.roots \in Seq(Ids) /\ turn \in Nat \ {0}
  BY RequestsAssumption DEF OrderInv, Types
<1>3. request.roots[turn] \in Ids
  BY <1>1, <1>2, ElementOfSeq, LenProperties
<1>4. stack' \in Seq(Frames) /\ DOMAIN stack' = {1} /\ ~stack'[1].exit
  BY <1>1, <1>3 DEF Enter, Frames
<1>5. DOMAIN stack = {}
  BY <1>1
<1>6. Types'
  BY <1>1, <1>2, <1>4 DEF OrderInv, Types
<1>7. Exits' /\ Accounted'
  BY <1>1, <1>4, <1>5 DEF OrderInv, Exits, Accounted
<1>8. Result' /\ DependenciesFirst'
  BY <1>1 DEF OrderInv, Result, IsInjective, DependenciesFirst, Dependencies, Graph
<1> QED
  BY <1>6, <1>7, <1>8 DEF OrderInv

\* The top of the stack, and what is below it.
LEMMA StackFacts ==
    ASSUME OrderInv, Walking
    PROVE  /\ stack \in Seq(Frames) /\ Len(stack) \in Nat /\ Len(stack) > 0
           /\ DOMAIN stack = 1..Len(stack)
           /\ Tail(stack) \in Seq(Frames) /\ Len(Tail(stack)) = Len(stack) - 1
           /\ DOMAIN Tail(stack) = 1..(Len(stack) - 1)
           /\ \A k \in 1..(Len(stack) - 1) : Tail(stack)[k] = stack[k + 1]
           /\ Head(stack) = stack[1] /\ Here = stack[1].id /\ Here \in Ids
<1>1. stack \in Seq(Frames) /\ stack # <<>>
  BY DEF OrderInv, Types, Walking
<1>2. DOMAIN stack = 1..Len(stack) /\ DOMAIN Tail(stack) = 1..Len(Tail(stack))
  BY <1>1, TailOfStack, LenProperties
<1>3. stack[1].id \in Ids
  BY <1>1, TailOfStack DEF Frames
<1> QED
  BY <1>1, <1>2, <1>3, TailOfStack DEF Here

\* A node that need not be entered leaves the stack.
LEMMA PopKeeps ==
    ASSUME OrderInv, Entering, Pop, Here \in done \/ ~Needed(Here)
    PROVE  OrderInv'
<1> DEFINE T == Tail(stack)
<1>1. /\ Walking /\ ~stack[1].exit /\ stack' = T
      /\ UNCHANGED <<request, turn, active, done, ordered, outcome>>
  BY StackFacts DEF Entering, Pop
<1>2. /\ Len(stack) \in Nat /\ Len(stack) > 0 /\ DOMAIN stack = 1..Len(stack)
      /\ T \in Seq(Frames) /\ DOMAIN T = 1..(Len(stack) - 1)
      /\ \A k \in 1..(Len(stack) - 1) : T[k] = stack[k + 1]
      /\ Here = stack[1].id
  BY <1>1, StackFacts
<1> HIDE DEF T
<1>3. Types'
  BY <1>1, <1>2 DEF OrderInv, Types
<1>4. Exits'
  <2>1. \A p \in DOMAIN T : p + 1 \in DOMAIN stack /\ T[p] = stack[p + 1]
    BY <1>2
  <2>2. \A p \in DOMAIN stack : stack[p].exit => p - 1 \in DOMAIN T /\ T[p - 1] = stack[p]
    BY <1>1, <1>2
  <2>3. \A p, q \in DOMAIN T : p + 1 = q + 1 => p = q
    BY <1>2
  <2>4. \A p \in DOMAIN T : T[p].exit => T[p].id \in active
    BY <2>1 DEF OrderInv, Exits
  <2>5. \A i \in active : \E p \in DOMAIN T : T[p].exit /\ T[p].id = i
    BY <2>2 DEF OrderInv, Exits
  <2>6. \A p, q \in DOMAIN T : T[p].exit /\ T[q].exit /\ T[p].id = T[q].id => p = q
    BY <2>1, <2>3 DEF OrderInv, Exits
  <2> QED
    BY <1>1, <2>4, <2>5, <2>6 DEF Exits
<1>5. Accounted'
  <2> SUFFICES ASSUME NEW p \in DOMAIN T, T[p].exit,
                      NEW n \in DOMAIN Dependencies(T[p].id),
                      Needed(Dependencies(T[p].id)[n]),
                      Dependencies(T[p].id)[n] \notin done
               PROVE  \E q \in 1..(p - 1) : T[q].id = Dependencies(T[p].id)[n]
    BY <1>1 DEF Accounted, Needed, Dependencies, Graph
  <2>1. p + 1 \in DOMAIN stack /\ T[p] = stack[p + 1] /\ p \in Nat
    BY <1>2
  <2>2. PICK q \in 1..((p + 1) - 1) : stack[q].id = Dependencies(T[p].id)[n]
    BY <2>1 DEF OrderInv, Accounted
  <2>3. q # 1
    BY <1>2, <2>2
  <2>4. q - 1 \in 1..(p - 1) /\ T[q - 1] = stack[q]
    BY <1>2, <2>1, <2>2, <2>3
  <2> QED
    BY <2>2, <2>4
<1>6. Result' /\ DependenciesFirst'
  BY <1>1 DEF OrderInv, Result, IsInjective, DependenciesFirst, Dependencies, Graph
<1> QED
  BY <1>3, <1>4, <1>5, <1>6 DEF OrderInv

\* A node with its exit on top is left: all it derives from is done.
LEMMA ExitKeeps ==
    ASSUME OrderInv, Exit
    PROVE  OrderInv'
<1> DEFINE T == Tail(stack)
           L == Len(ordered)
<1>1. /\ Walking /\ stack[1].exit /\ stack' = T
      /\ active' = active \ {Here} /\ done' = done \cup {Here}
      /\ ordered' = Append(ordered, Here)
      /\ UNCHANGED <<request, turn, outcome>>
  BY StackFacts DEF Exit
<1>2. /\ Len(stack) \in Nat /\ Len(stack) > 0 /\ DOMAIN stack = 1..Len(stack)
      /\ T \in Seq(Frames) /\ DOMAIN T = 1..(Len(stack) - 1)
      /\ \A k \in 1..(Len(stack) - 1) : T[k] = stack[k + 1]
      /\ Here = stack[1].id /\ Here \in Ids
  BY <1>1, StackFacts
<1>3. ordered \in Seq(Ids) /\ L \in Nat /\ DOMAIN ordered = 1..L
  BY LenProperties DEF OrderInv, Types
<1>4. /\ ordered' \in Seq(Ids) /\ DOMAIN ordered' = 1..(L + 1)
      /\ \A k \in 1..L : ordered'[k] = ordered[k]
      /\ ordered'[L + 1] = Here
  BY <1>1, <1>2, <1>3
<1>5. Here \in active /\ Here \notin done
  BY <1>1, <1>2 DEF OrderInv, Exits, Result
<1>6. \A k \in 1..L : ordered[k] # Here
  BY <1>3, <1>5 DEF OrderInv, Result
<1> HIDE DEF T, L
<1>7. Types'
  BY <1>1, <1>2, <1>4 DEF OrderInv, Types
<1>8. Exits'
  <2>1. \A p \in DOMAIN T : p + 1 \in DOMAIN stack /\ p + 1 # 1 /\ T[p] = stack[p + 1]
    BY <1>2
  <2>2. \A p \in DOMAIN stack : p # 1 => p - 1 \in DOMAIN T /\ T[p - 1] = stack[p]
    BY <1>2
  <2>3. \A p, q \in DOMAIN T : p + 1 = q + 1 => p = q
    BY <1>2
  <2>4. 1 \in DOMAIN stack
    BY <1>2
  <2>5. \A p \in DOMAIN T : T[p].exit => T[p].id \in active \ {Here}
    BY <1>1, <1>2, <2>1, <2>4 DEF OrderInv, Exits
  <2>6. \A i \in active \ {Here} : \E p \in DOMAIN T : T[p].exit /\ T[p].id = i
    BY <1>2, <2>2 DEF OrderInv, Exits
  <2>7. \A p, q \in DOMAIN T : T[p].exit /\ T[q].exit /\ T[p].id = T[q].id => p = q
    BY <2>1, <2>3 DEF OrderInv, Exits
  <2> QED
    BY <1>1, <2>5, <2>6, <2>7 DEF Exits
<1>9. Result'
  <2>1. active' \cap done' = {}
    BY <1>1 DEF OrderInv, Result
  <2>2. ASSUME NEW i
        PROVE  i \in done' <=> \E k \in DOMAIN ordered' : ordered'[k] = i
    <3>1. i \in done <=> \E k \in 1..L : ordered[k] = i
      BY <1>3 DEF OrderInv, Result
    <3>2. L + 1 \in 1..(L + 1) /\ \A k \in 1..L : k \in 1..(L + 1)
      BY <1>3
    <3>3. \A k \in 1..(L + 1) : k = L + 1 \/ k \in 1..L
      BY <1>3
    <3> QED
      BY <1>1, <1>4, <3>1, <3>2, <3>3
  <2>3. IsInjective(ordered')
    <3>1. ASSUME NEW a \in 1..(L + 1), NEW b \in 1..(L + 1), ordered'[a] = ordered'[b]
          PROVE  a = b
      <4>1. (a \in 1..L \/ a = L + 1) /\ (b \in 1..L \/ b = L + 1)
        BY <1>3
      <4>2. ASSUME a \in 1..L, b \in 1..L PROVE a = b
        BY <1>3, <1>4, <3>1, <4>2 DEF OrderInv, Result, IsInjective
      <4>3. ASSUME a \in 1..L, b = L + 1 PROVE FALSE
        BY <1>4, <1>6, <3>1, <4>3
      <4>4. ASSUME a = L + 1, b \in 1..L PROVE FALSE
        BY <1>4, <1>6, <3>1, <4>4
      <4> QED
        BY <4>1, <4>2, <4>3, <4>4
    <3> QED
      BY <1>4, <3>1 DEF IsInjective
  <2> QED
    BY <2>1, <2>2, <2>3 DEF Result
<1>10. Accounted'
  <2> DEFINE Left == done'
  <2>0. stack' = T /\ done' = Left /\ request' = request
    BY <1>1
  <2>1. \A id : id \notin Left => id \notin done /\ id # Here
    BY <1>1
  <2> HIDE DEF Left
  <2> SUFFICES ASSUME NEW p \in DOMAIN T, T[p].exit,
                      NEW n \in DOMAIN Dependencies(T[p].id),
                      Needed(Dependencies(T[p].id)[n]),
                      Dependencies(T[p].id)[n] \notin Left
               PROVE  \E q \in 1..(p - 1) : T[q].id = Dependencies(T[p].id)[n]
    BY <2>0 DEF Accounted, Needed, Dependencies, Graph
  <2>2. p + 1 \in DOMAIN stack /\ T[p] = stack[p + 1] /\ p \in Nat
    BY <1>2
  <2>3. Dependencies(T[p].id)[n] \notin done /\ Dependencies(T[p].id)[n] # Here
    BY <2>1
  <2>4. PICK q \in 1..((p + 1) - 1) : stack[q].id = Dependencies(T[p].id)[n]
    BY <2>2, <2>3 DEF OrderInv, Accounted
  <2>5. q # 1
    BY <1>2, <2>3, <2>4
  <2>6. q - 1 \in 1..(p - 1) /\ T[q - 1] = stack[q]
    BY <1>2, <2>2, <2>4, <2>5
  <2> QED
    BY <2>4, <2>6
<1>11. DependenciesFirst'
  <2>1. IsInjective(ordered')
    BY <1>9 DEF Result
  <2>0. DOMAIN Graph' = DOMAIN Graph /\ \A id : Dependencies(id)' = Dependencies(id)
    BY <1>1 DEF Dependencies, Graph
  <2> SUFFICES ASSUME NEW k \in DOMAIN ordered',
                      NEW n \in DOMAIN Dependencies(ordered'[k]),
                      Dependencies(ordered'[k])[n] \in DOMAIN Graph
               PROVE  \E j \in 1..(k - 1) : ordered'[j] = Dependencies(ordered'[k])[n]
    BY <2>0, <2>1, Zenon DEF DependenciesFirst
  <2>2. CASE k \in 1..L
    <3>1. \E j \in 1..(k - 1) : ordered[j] = Dependencies(ordered[k])[n]
      BY <1>3, <1>4, <2>2 DEF OrderInv, DependenciesFirst
    <3>2. \A j \in 1..(k - 1) : j \in 1..L
      BY <1>3, <2>2
    <3> QED
      BY <1>4, <2>2, <3>1, <3>2
  <2>3. CASE k = L + 1
    <3>1. ordered'[k] = Here
      BY <1>4, <2>3
    <3>2. 1 \in DOMAIN stack /\ 1..(1 - 1) = {}
      BY <1>2
    <3>3. Dependencies(Here)[n] \in done
      BY <1>1, <1>2, <3>1, <3>2 DEF OrderInv, Accounted, Needed
    <3>4. \E j \in 1..L : ordered[j] = Dependencies(Here)[n]
      BY <1>3, <3>3 DEF OrderInv, Result
    <3>5. (k - 1) = L
      BY <1>3, <2>3
    <3> QED
      BY <1>4, <3>1, <3>4, <3>5
  <2> QED
    BY <1>3, <1>4, <2>2, <2>3
<1> QED
  BY <1>7, <1>8, <1>9, <1>10, <1>11 DEF OrderInv

\* The stack when a node is entered: all it derives from is put above its exit,
\* and what was below it stays.
LEMMA ExpandedStack ==
    ASSUME OrderInv, Expand
    PROVE  LET D == Dependencies(Here)
               M == Len(D) + 1
           IN  /\ Len(D) \in Nat /\ DOMAIN D = 1..Len(D)
               /\ stack' \in Seq(Frames) /\ DOMAIN stack' \subseteq Nat
               /\ \A k \in 1..Len(D) :
                     k \in DOMAIN stack' /\ ~stack'[k].exit /\ stack'[k].id = D[k]
               /\ M \in DOMAIN stack' /\ stack'[M].exit /\ stack'[M].id = Here
               /\ \A p \in DOMAIN stack' : p \in 1..Len(D) \/ p = M \/ p > M
               /\ \A p \in DOMAIN stack' :
                     p > M => LET q == p - M + 1 IN
                              q \in DOMAIN stack /\ q # 1 /\ stack'[p] = stack[q]
               /\ \A q \in DOMAIN stack :
                     q # 1 => q + M - 1 \in DOMAIN stack' /\ stack'[q + M - 1] = stack[q]
<1> DEFINE T == Tail(stack)
           D == Dependencies(Here)
           M == Len(D) + 1
<1>1. /\ Walking /\ ~stack[1].exit /\ Here \notin done /\ Here \notin active
      /\ active' = active \cup {Here}
      /\ stack' = Entries(D) \o <<Leave(Here)>> \o T
      /\ UNCHANGED <<request, turn, done, ordered, outcome>>
  BY StackFacts DEF Expand, CanExpand, Entering
<1>2. /\ Len(stack) \in Nat /\ Len(stack) > 0 /\ DOMAIN stack = 1..Len(stack)
      /\ T \in Seq(Frames) /\ Len(T) = Len(stack) - 1
      /\ \A k \in 1..(Len(stack) - 1) : T[k] = stack[k + 1]
      /\ Here = stack[1].id /\ Here \in Ids
  BY <1>1, StackFacts
<1>3. D \in Seq(Ids) /\ Len(D) \in Nat /\ DOMAIN D = 1..Len(D)
  <2>1. Here \in DOMAIN Graph
    BY DEF Expand, CanExpand
  <2>2. Graph[Here].deps \in Seq(Ids)
    BY <2>1, RequestsAssumption DEF OrderInv, Types, Graph
  <2>3. D \in Seq(Ids)
    BY <2>2 DEF Dependencies
  <2> HIDE DEF D
  <2> QED
    BY <2>3, LenProperties
<1> HIDE DEF T, D
<1>4. Pushed(stack', D, Here, T)
  BY <1>1, <1>2, <1>3, PushedStack
<1>5. /\ stack' \in Seq(Frames) /\ Len(stack') = M + Len(T) /\ M \in Nat
      /\ \A k \in 1..Len(D) : stack'[k] = Enter(D[k])
      /\ stack'[M] = Leave(Here)
      /\ \A k \in 1..Len(T) : stack'[M + k] = T[k]
  BY <1>3, <1>4 DEF Pushed
<1>6. DOMAIN stack' = 1..(M + Len(T))
  BY <1>5, LenProperties
<1>7. \A k \in 1..Len(D) : k \in DOMAIN stack' /\ ~stack'[k].exit /\ stack'[k].id = D[k]
  <2>1. \A k \in 1..Len(D) : k \in 1..(M + Len(T))
    BY <1>2, <1>3
  <2>2. \A i : ~Enter(i).exit /\ Enter(i).id = i
    BY DEF Enter
  <2>3. \A k \in 1..Len(D) : ~stack'[k].exit /\ stack'[k].id = D[k]
    BY <1>5, <2>2
  <2> QED
    BY <1>6, <2>1, <2>3
<1>8. M \in DOMAIN stack' /\ stack'[M].exit /\ stack'[M].id = Here
  BY <1>2, <1>3, <1>5, <1>6 DEF Leave
<1> DEFINE Old(p) == p - M + 1
<1>9. \A p \in DOMAIN stack' :
          p > M => Old(p) \in DOMAIN stack /\ Old(p) # 1 /\ stack'[p] = stack[Old(p)]
  <2> SUFFICES ASSUME NEW p \in DOMAIN stack', p > M
               PROVE  Old(p) \in DOMAIN stack /\ Old(p) # 1 /\ stack'[p] = stack[Old(p)]
    OBVIOUS
  <2>1. p - M \in 1..Len(T) /\ M + (p - M) = p
    BY <1>2, <1>3, <1>6
  <2>2. stack'[p] = T[p - M]
    BY <1>5, <2>1
  <2>3. T[p - M] = stack[(p - M) + 1]
    BY <1>2, <2>1
  <2> QED
    BY <1>2, <2>1, <2>2, <2>3
<1>10. \A q \in DOMAIN stack :
          q # 1 => q + M - 1 \in DOMAIN stack' /\ stack'[q + M - 1] = stack[q]
  <2> SUFFICES ASSUME NEW q \in DOMAIN stack, q # 1
               PROVE  q + M - 1 \in DOMAIN stack' /\ stack'[q + M - 1] = stack[q]
    OBVIOUS
  <2>1. q - 1 \in 1..Len(T) /\ M + (q - 1) = q + M - 1 /\ (q - 1) + 1 = q
    BY <1>2, <1>3
  <2>2. stack'[M + (q - 1)] = T[q - 1] /\ T[q - 1] = stack[(q - 1) + 1]
    BY <1>2, <1>5, <2>1
  <2>3. q + M - 1 \in 1..(M + Len(T))
    BY <1>2, <1>3, <2>1
  <2> QED
    BY <1>6, <2>1, <2>2, <2>3
<1>11. \A p \in DOMAIN stack' : p \in 1..Len(D) \/ p = M \/ p > M
  BY <1>3, <1>6
<1>12. DOMAIN stack' \subseteq Nat
  BY <1>2, <1>5, <1>6
<1> HIDE DEF M
<1> QED
  BY <1>3, <1>5, <1>7, <1>8, <1>9, <1>10, <1>11, <1>12 DEF D, M

LEMMA ExpandKeeps ==
    ASSUME OrderInv, Expand
    PROVE  OrderInv'
<1> DEFINE D == Dependencies(Here)
           M == Len(D) + 1
           Old(p) == p - M + 1
<1>1. /\ Walking /\ ~stack[1].exit /\ Here \notin done /\ Here \notin active
      /\ active' = active \cup {Here}
      /\ UNCHANGED <<request, turn, done, ordered, outcome>>
  BY StackFacts DEF Expand, CanExpand, Entering
<1>2. /\ Len(stack) \in Nat /\ Len(stack) > 0 /\ DOMAIN stack = 1..Len(stack)
      /\ Here = stack[1].id /\ Here \in Ids
  BY <1>1, StackFacts
<1>3. /\ Len(D) \in Nat /\ DOMAIN D = 1..Len(D)
      /\ stack' \in Seq(Frames) /\ DOMAIN stack' \subseteq Nat
  BY ExpandedStack
<1>4. \A k \in 1..Len(D) : k \in DOMAIN stack' /\ ~stack'[k].exit /\ stack'[k].id = D[k]
  BY ExpandedStack
<1>5. M \in DOMAIN stack' /\ stack'[M].exit /\ stack'[M].id = Here
  BY ExpandedStack
<1>6. \A p \in DOMAIN stack' :
          p > M => Old(p) \in DOMAIN stack /\ Old(p) # 1 /\ stack'[p] = stack[Old(p)]
  BY ExpandedStack
<1>7. \A q \in DOMAIN stack :
          q # 1 => q + M - 1 \in DOMAIN stack' /\ stack'[q + M - 1] = stack[q]
  BY ExpandedStack
<1>8. \A p \in DOMAIN stack' : p \in 1..Len(D) \/ p = M \/ p > M
  BY ExpandedStack
<1> HIDE DEF D
<1>9. Types'
  BY <1>1, <1>3 DEF OrderInv, Types
<1>10. Exits'
  <2>1. \A p \in DOMAIN stack' : stack'[p].exit => p = M \/ p > M
    BY <1>4, <1>8
  <2>2. ASSUME NEW p \in DOMAIN stack', stack'[p].exit PROVE stack'[p].id \in active'
    <3>1. CASE p = M
      BY <1>1, <1>5, <3>1
    <3>2. CASE p > M
      <4>1. Old(p) \in DOMAIN stack /\ stack'[p] = stack[Old(p)]
        BY <1>6, <3>2
      <4> HIDE DEF Old
      <4> QED
        BY <1>1, <2>2, <4>1 DEF OrderInv, Exits
    <3> QED
      BY <2>1, <2>2, <3>1, <3>2
  <2>3. \A i \in active : \E p \in DOMAIN stack' : stack'[p].exit /\ stack'[p].id = i
    <3> SUFFICES ASSUME NEW i \in active
                 PROVE  \E p \in DOMAIN stack' : stack'[p].exit /\ stack'[p].id = i
      OBVIOUS
    <3>1. PICK q \in DOMAIN stack : stack[q].exit /\ stack[q].id = i
      BY DEF OrderInv, Exits
    <3>2. q # 1
      BY <1>1, <3>1
    <3> QED
      BY <1>7, <3>1, <3>2
  <2>4. \A i \in active' : \E p \in DOMAIN stack' : stack'[p].exit /\ stack'[p].id = i
    BY <1>1, <1>5, <2>3
  <2>5. ASSUME NEW p \in DOMAIN stack', NEW q \in DOMAIN stack',
               stack'[p].exit, stack'[q].exit, stack'[p].id = stack'[q].id
        PROVE  p = q
    <3>1. (p = M \/ p > M) /\ (q = M \/ q > M)
      BY <2>1, <2>5
    <3>2. \A r \in DOMAIN stack' : r > M /\ stack'[r].exit => stack'[r].id \in active
      BY <1>6 DEF OrderInv, Exits
    <3>3. CASE p > M /\ q > M
      <4>1. Old(p) = Old(q)
        BY <1>6, <2>5, <3>3 DEF OrderInv, Exits
      <4> QED
        BY <1>3, <4>1
    <3>4. CASE p = M /\ q > M
      BY <1>1, <1>5, <2>5, <3>2, <3>4
    <3>5. CASE p > M /\ q = M
      BY <1>1, <1>5, <2>5, <3>2, <3>5
    <3> QED
      BY <3>1, <3>3, <3>4, <3>5
  <2> QED
    BY <2>2, <2>4, <2>5 DEF Exits
<1>11. Result' /\ DependenciesFirst'
  BY <1>1 DEF OrderInv, Result, IsInjective, DependenciesFirst, Dependencies, Graph
<1>12. Accounted'
  <2> SUFFICES ASSUME NEW p \in DOMAIN stack', stack'[p].exit,
                      NEW n \in DOMAIN Dependencies(stack'[p].id),
                      Needed(Dependencies(stack'[p].id)[n]),
                      Dependencies(stack'[p].id)[n] \notin done
               PROVE  \E q \in 1..(p - 1) : stack'[q].id = Dependencies(stack'[p].id)[n]
    <3>1. \A id : Dependencies(id)' = Dependencies(id)
      BY <1>1, Zenon DEF Dependencies, Graph
    <3>2. done' = done /\ \A id : Needed(id)' = Needed(id)
      BY <1>1, Zenon DEF Graph, Needed
    <3> QED
      BY <3>1, <3>2, Zenon DEF Accounted
  <2>1. CASE p = M
    <3>1. stack'[p].id = Here /\ n \in 1..Len(D) /\ D = Dependencies(Here)
      BY <1>3, <1>5, <2>1 DEF D
    <3>2. stack'[n].id = D[n] /\ n \in 1..(p - 1)
      BY <1>3, <1>4, <2>1, <3>1
    <3> QED
      BY <3>1, <3>2
  <2>2. CASE p > M
    <3>1. /\ Old(p) \in DOMAIN stack /\ Old(p) # 1 /\ stack'[p] = stack[Old(p)]
          /\ p \in Nat
      BY <1>3, <1>6, <2>2
    <3>2. \E q \in 1..(Old(p) - 1) : stack[q].id = Dependencies(stack'[p].id)[n]
      <4>1. stack[Old(p)].exit /\ Old(p) \in DOMAIN stack
        BY <3>1
      <4>2. Accounted
        BY DEF OrderInv
      <4> HIDE DEF Old
      <4>3. ASSUME NEW o \in DOMAIN stack, stack[o] = stack'[p]
            PROVE  \E q \in 1..(o - 1) : stack[q].id = Dependencies(stack'[p].id)[n]
        BY <4>2, <4>3 DEF Accounted
      <4> QED
        BY <3>1, <4>1, <4>3
    <3>3. PICK q \in 1..(Old(p) - 1) : stack[q].id = Dependencies(stack'[p].id)[n]
      BY <3>2
    <3>4. q \in DOMAIN stack
      BY <1>2, <1>3, <3>1, <3>3
    <3>5. CASE q = 1
      <4>1. stack'[M].id = Dependencies(stack'[p].id)[n]
        BY <1>2, <1>5, <3>3, <3>5
      <4>2. M \in 1..(p - 1)
        BY <1>3, <2>2, <3>1
      <4> QED
        BY <4>1, <4>2
    <3>6. CASE q # 1
      <4>1. stack'[q + M - 1].id = Dependencies(stack'[p].id)[n]
        BY <1>7, <3>3, <3>4, <3>6
      <4>2. q + M - 1 \in 1..(p - 1)
        BY <1>3, <3>1, <3>3, <3>6
      <4> QED
        BY <4>1, <4>2
    <3> QED
      BY <3>5, <3>6
  <2>3. p = M \/ p > M
    BY <1>4, <1>8
  <2> QED
    BY <2>1, <2>2, <2>3
<1> QED
  BY <1>9, <1>10, <1>11, <1>12 DEF OrderInv

\* Every turn of the loop keeps the invariant.
LEMMA WalkKeeps ==
    ASSUME OrderInv, [Next]_vars
    PROVE  OrderInv'
<1>1. CASE NextRoot
  BY <1>1, RootKeeps
<1>2. CASE Return
  BY <1>2, OutcomeOnly DEF Return
<1>3. CASE Exit
  BY <1>3, ExitKeeps
<1>4. CASE SkipDone
  BY <1>4, PopKeeps DEF SkipDone
<1>5. CASE Cycle
  BY <1>5, OutcomeOnly DEF Cycle, Throw, Errors
<1>6. CASE Absent
  <2>1. CASE request.complete
    BY <1>6, <2>1, OutcomeOnly DEF Absent, Throw, Errors
  <2>2. CASE ~request.complete
    BY <1>6, <2>2, PopKeeps DEF Absent, Needed
  <2> QED
    BY <2>1, <2>2
<1>7. CASE MembersUnknown
  BY <1>7, OutcomeOnly DEF MembersUnknown, Throw, Errors
<1>8. CASE Expand
  BY <1>8, ExpandKeeps
<1>9. CASE UNCHANGED vars
  <2>1. outcome \in Errors \cup {"walking", "ordered"}
    BY DEF OrderInv, Types
  <2> QED
    BY <1>9, <2>1, OutcomeOnly DEF vars
<1> QED
  BY <1>1, <1>2, <1>3, <1>4, <1>5, <1>6, <1>7, <1>8, <1>9 DEF Next, Walk, Finished

\* The invariant is at least what TypeOK says.
LEMMA OrderImpliesType == OrderInv => TypeOK
<1> SUFFICES ASSUME OrderInv PROVE TypeOK
  OBVIOUS
<1>1. active = {stack[k].id : k \in {m \in DOMAIN stack : stack[m].exit}}
  BY DEF OrderInv, Exits
<1>2. done = Range(ordered)
  BY DEF OrderInv, Result, Range
<1> QED
  BY <1>1, <1>2 DEF OrderInv, Types, Result, TypeOK, Frames

(***************************************************************************)
(* What the graph of the call says is what module Archive says of an       *)
(* archive with that graph.                                                *)
(***************************************************************************)
LEMMA GraphOfArchive ==
    /\ DOMAIN GraphArchive = DOMAIN Graph
    /\ \A i \in DOMAIN Graph :
          /\ NodeDependencies(GraphArchive[i]) = Dependencies(i)
          /\ Graph[i].known <=> DependenciesKnown(GraphArchive[i])
<1>1. DOMAIN GraphArchive = DOMAIN Graph
  BY DEF GraphArchive
<1>2. ASSUME NEW i \in DOMAIN Graph
      PROVE  /\ NodeDependencies(GraphArchive[i]) = Dependencies(i)
             /\ Graph[i].known <=> DependenciesKnown(GraphArchive[i])
  <2>1. /\ GraphArchive[i].source.kind = "Pack"
        /\ Graph[i].known => GraphArchive[i].witness = <<Graph[i].deps>>
        /\ ~Graph[i].known => GraphArchive[i].witness = <<>>
    BY DEF GraphArchive, PackOrigin, Unknown
  <2> QED
    BY <2>1 DEF NodeDependencies, DependenciesKnown, Dependencies, Unknown
<1> QED
  BY <1>1, <1>2

\* What is behind the roots is the least set that has them and is closed.
LEMMA BehindRootsIsClosed ==
    /\ Roots \subseteq BehindRoots
    /\ \A j \in BehindRoots \cap DOMAIN Graph : Range(Dependencies(j)) \subseteq BehindRoots
<1> DEFINE A == GraphArchive
           M == Roots \cup Mentioned(A)
<1>1. BehindRoots = {i \in M : \A S \in SUBSET M :
                        /\ Roots \subseteq S
                        /\ \A j \in S \cap DOMAIN A : Range(NodeDependencies(A[j])) \subseteq S
                        => i \in S}
  BY DEF BehindRoots, Behind
<1>2. Roots \subseteq BehindRoots
  BY <1>1
<1>3. ASSUME NEW j \in BehindRoots \cap DOMAIN A, NEW d \in Range(NodeDependencies(A[j]))
      PROVE  d \in BehindRoots
  <2>1. d \in M
    BY DEF Mentioned
  <2>2. ASSUME NEW S \in SUBSET M, Roots \subseteq S,
               \A k \in S \cap DOMAIN A : Range(NodeDependencies(A[k])) \subseteq S
        PROVE  d \in S
    BY <1>1, <2>2
  <2> QED
    BY <1>1, <2>1, <2>2
<1> QED
  BY <1>2, <1>3, GraphOfArchive

LEMMA BehindRootsIsLeast ==
    ASSUME NEW S, Roots \subseteq S,
           \A j \in S \cap DOMAIN Graph : Range(Dependencies(j)) \subseteq S
    PROVE  BehindRoots \subseteq S
<1> DEFINE A == GraphArchive
           M == Roots \cup Mentioned(A)
           T == S \cap M
<1>1. T \in SUBSET M /\ Roots \subseteq T
  OBVIOUS
<1>2. \A j \in T \cap DOMAIN A : Range(NodeDependencies(A[j])) \subseteq T
  BY GraphOfArchive DEF Mentioned
<1>3. BehindRoots \subseteq T
  BY <1>1, <1>2 DEF BehindRoots, Behind
<1> QED
  BY <1>3

LEMMA BehindIsCyclic ==
    ASSUME NEW S \in SUBSET (BehindRoots \cap DOMAIN Graph), S # {},
           \A i \in S : Range(Dependencies(i)) \cap S # {}
    PROVE  ~BehindCycleFree
<1> DEFINE D == BehindRoots \cap DOMAIN Graph
           P == [i \in D |-> GraphArchive[i]]
<1>1. Restrict(GraphArchive, D) = P
  BY DEF Restrict
<1>2. \A i \in S : Range(NodeDependencies(P[i])) = Range(Dependencies(i))
  BY GraphOfArchive
<1>3. DOMAIN P = D
  OBVIOUS
<1> HIDE DEF P
<1>4. ~CycleFree(P)
  BY <1>2, <1>3 DEF CycleFree
<1> QED
  BY <1>1, <1>4 DEF BehindCycleFree

LEMMA BehindIsCycleFree ==
    ASSUME \A S \in SUBSET (BehindRoots \cap DOMAIN Graph) :
              S # {} => \E i \in S : Range(Dependencies(i)) \cap S = {}
    PROVE  BehindCycleFree
<1> DEFINE D == BehindRoots \cap DOMAIN Graph
           P == [i \in D |-> GraphArchive[i]]
<1>1. Restrict(GraphArchive, D) = P
  BY DEF Restrict
<1>2. \A i \in D : Range(NodeDependencies(P[i])) = Range(Dependencies(i))
  BY GraphOfArchive
<1>3. DOMAIN P = D
  OBVIOUS
<1> HIDE DEF P
<1>4. CycleFree(P)
  BY <1>2, <1>3 DEF CycleFree
<1> QED
  BY <1>1, <1>4 DEF BehindCycleFree

LEMMA BehindCanBeOrdered ==
    CanOrder(GraphArchive, Roots) <=>
        \A i \in BehindRoots : i \in DOMAIN Graph /\ Graph[i].known
BY GraphOfArchive DEF CanOrder, BehindRoots

(***************************************************************************)
(* The walk goes only where the roots lead, and leaves nothing of that.    *)
(***************************************************************************)
\* Only what is behind the roots is entered; what is entered is there and, if
\* everything must be, known.
Reached ==
    /\ \A p \in DOMAIN stack : stack[p].id \in BehindRoots
    /\ \A i \in active \cup done :
          i \in BehindRoots \cap DOMAIN Graph /\ (request.complete => Graph[i].known)

\* A root whose turn was is done or waits, if it is needed; what is done has
\* all done that it needs.
RootsTaken ==
    \A k \in 1..(turn - 1) :
        LET i == request.roots[k] IN
        Needed(i) => i \in done \/ \E p \in DOMAIN stack : stack[p].id = i

DoneIsClosed == \A i \in done : \A d \in Range(Dependencies(i)) : Needed(d) => d \in done

\* From an exit up the stack: what is above it derives from it through the
\* exits in between.
Path ==
    \A p \in DOMAIN stack : stack[p].exit =>
        \A m \in 1..(p - 1) : \E q \in m..(p - 1) :
            /\ q = m \/ stack[q].exit
            /\ stack[q].id \in Range(Dependencies(stack[p].id))

\* The walk ends with nothing left to do, or with an error the archive has.
Ended ==
    /\ outcome = "ordered" => stack = <<>> /\ turn > Len(request.roots)
    /\ outcome = "Cyclic" => ~BehindCycleFree
    /\ outcome \in {"MissingNode", "MissingMembers"} =>
          request.complete /\ ~CanOrder(GraphArchive, Roots)

WalkInv == OrderInv /\ Reached /\ RootsTaken /\ DoneIsClosed /\ Path /\ Ended

\* What is behind the roots depends on the call alone.
LEMMA CallFixed ==
    ASSUME request' = request
    PROVE  /\ Graph' = Graph /\ Roots' = Roots /\ BehindRoots' = BehindRoots
           /\ BehindCycleFree' = BehindCycleFree
           /\ CanOrder(GraphArchive, Roots)' = CanOrder(GraphArchive, Roots)
           /\ \A i : Dependencies(i)' = Dependencies(i) /\ Needed(i)' = Needed(i)
<1>1. Graph' = Graph /\ Roots' = Roots
  BY DEF Graph, Roots
<1>2. GraphArchive' = GraphArchive
  BY <1>1 DEF GraphArchive
<1>3. BehindRoots' = BehindRoots
  BY <1>1, <1>2 DEF BehindRoots
<1>4. BehindCycleFree' = BehindCycleFree
  BY <1>1, <1>2, <1>3 DEF BehindCycleFree
<1>5. CanOrder(GraphArchive, Roots)' = CanOrder(GraphArchive, Roots)
  BY <1>1, <1>2
<1>6. \A i : Dependencies(i)' = Dependencies(i) /\ Needed(i)' = Needed(i)
  BY <1>1, Zenon DEF Dependencies, Needed
<1> QED
  BY <1>1, <1>3, <1>4, <1>5, <1>6

LEMMA InitWalk == Init => WalkInv
<1> SUFFICES ASSUME Init PROVE WalkInv
  OBVIOUS
<1>1. DOMAIN stack = {} /\ active = {} /\ done = {} /\ turn = 1 /\ outcome = "walking"
  BY DEF Init
<1> QED
  BY <1>1, InitOrder DEF WalkInv, Reached, RootsTaken, DoneIsClosed, Path, Ended

\* Nothing but the outcome changes.
LEMMA EndKeeps ==
    ASSUME WalkInv, OrderInv', Ended',
           UNCHANGED <<request, turn, stack, active, done, ordered>>
    PROVE  WalkInv'
<1>1. Reached' /\ RootsTaken' /\ DoneIsClosed' /\ Path'
  BY CallFixed DEF WalkInv, Reached, RootsTaken, DoneIsClosed, Path
<1> QED
  BY <1>1 DEF WalkInv

LEMMA RootReached ==
    ASSUME WalkInv, NextRoot
    PROVE  WalkInv'
<1>1. /\ stack' = <<Enter(request.roots[turn])>> /\ turn' = turn + 1 /\ stack = <<>>
      /\ turn <= Len(request.roots) /\ outcome = "walking"
      /\ UNCHANGED <<request, active, done, ordered, outcome>>
  BY DEF NextRoot
<1>2. request.roots \in Seq(Ids) /\ turn \in Nat \ {0}
  BY RequestsAssumption DEF WalkInv, OrderInv, Types
<1>3. /\ DOMAIN stack' = {1} /\ ~stack'[1].exit /\ stack'[1].id = request.roots[turn]
      /\ DOMAIN stack = {}
  BY <1>1 DEF Enter
<1>4. OrderInv'
  BY RootKeeps DEF WalkInv
<1>5. Reached'
  <2>1. turn \in DOMAIN request.roots
    BY <1>1, <1>2, LenProperties
  <2>2. request.roots[turn] \in BehindRoots
    BY <2>1, BehindRootsIsClosed DEF Roots, Range
  <2> QED
    BY <1>1, <1>3, <2>2, CallFixed DEF WalkInv, Reached
<1>6. RootsTaken'
  <2> SUFFICES ASSUME NEW k \in 1..turn, Needed(request.roots[k]), request.roots[k] \notin done
               PROVE  \E p \in DOMAIN stack' : stack'[p].id = request.roots[k]
    <3>1. turn' - 1 = turn
      BY <1>1, <1>2
    <3> QED
      BY <1>1, <3>1, CallFixed DEF RootsTaken
  <2>1. CASE k = turn
    BY <1>3, <2>1
  <2>2. CASE k # turn
    <3>1. k \in 1..(turn - 1)
      BY <1>2, <2>2
    <3> QED
      BY <1>3, <3>1 DEF WalkInv, RootsTaken
  <2> QED
    BY <2>1, <2>2
<1>7. DoneIsClosed' /\ Path'
  BY <1>1, <1>3, CallFixed DEF WalkInv, DoneIsClosed, Path
<1>8. Ended'
  BY <1>1 DEF Ended
<1> QED
  BY <1>4, <1>5, <1>6, <1>7, <1>8 DEF WalkInv

\* The stack when its top is taken.
LEMMA PoppedStack ==
    ASSUME OrderInv, Walking, stack' = Tail(stack)
    PROVE  /\ DOMAIN stack \subseteq Nat /\ DOMAIN stack' \subseteq Nat /\ 1 \in DOMAIN stack
           /\ \A p \in DOMAIN stack' :
                 p + 1 \in DOMAIN stack /\ p + 1 # 1 /\ stack'[p] = stack[p + 1]
           /\ \A q \in DOMAIN stack :
                 q # 1 => q - 1 \in DOMAIN stack' /\ stack'[q - 1] = stack[q]
           /\ Here = stack[1].id
BY StackFacts

\* Taking the top of the stack leaves the paths from the exits below it.
LEMMA PathPops ==
    ASSUME OrderInv, Path, Walking, stack' = Tail(stack), request' = request
    PROVE  Path'
<1> SUFFICES ASSUME NEW p \in DOMAIN stack', stack'[p].exit, NEW m \in 1..(p - 1)
             PROVE  \E q \in m..(p - 1) :
                       /\ q = m \/ stack'[q].exit
                       /\ stack'[q].id \in Range(Dependencies(stack'[p].id))
  BY CallFixed DEF Path
<1>1. p \in Nat /\ p + 1 \in DOMAIN stack /\ stack'[p] = stack[p + 1]
  BY PoppedStack
<1>2. m + 1 \in 1..((p + 1) - 1)
  BY <1>1
<1>3. PICK q \in (m + 1)..((p + 1) - 1) :
         /\ q = m + 1 \/ stack[q].exit
         /\ stack[q].id \in Range(Dependencies(stack[p + 1].id))
  BY <1>1, <1>2 DEF Path
<1>4. q - 1 \in m..(p - 1) /\ q # 1 /\ (q = m + 1 => q - 1 = m)
  BY <1>1, <1>3
<1>5. q \in DOMAIN stack
  BY <1>1, <1>3, StackFacts
<1>6. stack'[q - 1] = stack[q]
  BY <1>4, <1>5, PoppedStack
<1> QED
  BY <1>1, <1>3, <1>4, <1>6

\* A node that need not be entered leaves the stack.
LEMMA PopReached ==
    ASSUME WalkInv, Entering, Pop, Here \in done \/ ~Needed(Here)
    PROVE  WalkInv'
<1>1. /\ Walking /\ OrderInv /\ stack' = Tail(stack) /\ outcome = "walking"
      /\ UNCHANGED <<request, turn, active, done, ordered, outcome>>
  BY DEF Entering, Walking, Pop, WalkInv
<1>2. OrderInv'
  BY PopKeeps DEF WalkInv
<1>3. Reached'
  BY <1>1, PoppedStack, CallFixed DEF WalkInv, Reached
<1>4. RootsTaken'
  <2> SUFFICES ASSUME NEW k \in 1..(turn - 1), Needed(request.roots[k]),
                      request.roots[k] \notin done
               PROVE  \E p \in DOMAIN stack' : stack'[p].id = request.roots[k]
    BY <1>1, CallFixed DEF RootsTaken
  <2>1. PICK q \in DOMAIN stack : stack[q].id = request.roots[k]
    BY DEF WalkInv, RootsTaken
  <2>2. q # 1
    BY <1>1, <2>1, PoppedStack
  <2>3. q - 1 \in DOMAIN stack' /\ stack'[q - 1] = stack[q]
    BY <1>1, <2>2, PoppedStack
  <2> QED
    BY <2>1, <2>3
<1>5. DoneIsClosed'
  BY <1>1, CallFixed DEF WalkInv, DoneIsClosed
<1>6. Path'
  BY <1>1, PathPops DEF WalkInv
<1>7. Ended'
  BY <1>1 DEF Ended
<1> QED
  BY <1>2, <1>3, <1>4, <1>5, <1>6, <1>7 DEF WalkInv

\* A node is left: all it needs is done.
LEMMA ExitReached ==
    ASSUME WalkInv, Exit
    PROVE  WalkInv'
<1>1. /\ Walking /\ OrderInv /\ stack' = Tail(stack) /\ outcome = "walking"
      /\ Head(stack).exit /\ active' = active \ {Here} /\ done' = done \cup {Here}
      /\ UNCHANGED <<request, turn, outcome>>
  BY DEF Exit, Walking, WalkInv
<1>2. OrderInv'
  BY ExitKeeps DEF WalkInv
<1>3. stack[1].exit /\ 1 \in DOMAIN stack /\ Here = stack[1].id /\ Here \in active
  BY <1>1, StackFacts DEF OrderInv, Exits
<1>4. Reached'
  BY <1>1, <1>3, PoppedStack, CallFixed DEF WalkInv, Reached
<1>5. RootsTaken'
  <2> SUFFICES ASSUME NEW k \in 1..(turn - 1), Needed(request.roots[k]),
                      request.roots[k] \notin done, request.roots[k] # Here
               PROVE  \E p \in DOMAIN stack' : stack'[p].id = request.roots[k]
    BY <1>1, CallFixed DEF RootsTaken
  <2>1. PICK q \in DOMAIN stack : stack[q].id = request.roots[k]
    BY DEF WalkInv, RootsTaken
  <2>2. q # 1
    BY <1>3, <2>1
  <2>3. q - 1 \in DOMAIN stack' /\ stack'[q - 1] = stack[q]
    BY <1>1, <2>2, PoppedStack
  <2> QED
    BY <2>1, <2>3
<1>6. DoneIsClosed'
  <2>1. ASSUME NEW d \in Range(Dependencies(Here)), Needed(d) PROVE d \in done
    <3>1. PICK n \in DOMAIN Dependencies(Here) : Dependencies(Here)[n] = d
      BY DEF Range
    <3>2. 1..(1 - 1) = {}
      OBVIOUS
    <3> QED
      BY <1>1, <1>3, <2>1, <3>1, <3>2 DEF OrderInv, Accounted
  <2> QED
    BY <1>1, <2>1, CallFixed DEF WalkInv, DoneIsClosed
<1>7. Path'
  BY <1>1, PathPops DEF WalkInv
<1>8. Ended'
  BY <1>1 DEF Ended
<1> QED
  BY <1>2, <1>4, <1>5, <1>6, <1>7, <1>8 DEF WalkInv

\* A node is entered: it lies between the exit below it and its own.
LEMMA PathExpands ==
    ASSUME WalkInv, Expand
    PROVE  Path'
<1> DEFINE D == Dependencies(Here)
           M == Len(D) + 1
           Old(p) == p - M + 1
<1>1. /\ Walking /\ OrderInv /\ Path /\ ~stack[1].exit /\ request' = request
      /\ 1 \in DOMAIN stack /\ Here = stack[1].id /\ DOMAIN stack \subseteq Nat
  BY StackFacts DEF Expand, CanExpand, Entering, WalkInv
<1>2. Len(D) \in Nat /\ DOMAIN D = 1..Len(D) /\ DOMAIN stack' \subseteq Nat
  BY <1>1, ExpandedStack
<1>3. \A k \in 1..Len(D) : k \in DOMAIN stack' /\ ~stack'[k].exit /\ stack'[k].id = D[k]
  BY <1>1, ExpandedStack
<1>4. M \in DOMAIN stack' /\ stack'[M].exit /\ stack'[M].id = Here
  BY <1>1, ExpandedStack
<1>5. \A p \in DOMAIN stack' :
          p > M => Old(p) \in DOMAIN stack /\ Old(p) # 1 /\ stack'[p] = stack[Old(p)]
  BY <1>1, ExpandedStack
<1>6. \A q \in DOMAIN stack :
          q # 1 => q + M - 1 \in DOMAIN stack' /\ stack'[q + M - 1] = stack[q]
  BY <1>1, ExpandedStack
<1>7. \A p \in DOMAIN stack' : p \in 1..Len(D) \/ p = M \/ p > M
  BY <1>1, ExpandedStack
<1>8. DOMAIN stack = 1..Len(stack) /\ Len(stack) \in Nat
  BY <1>1, StackFacts
<1>9. \A k \in DOMAIN D : D[k] \in Range(D)
  BY DEF Range
<1> HIDE DEF D
<1> SUFFICES ASSUME NEW p \in DOMAIN stack', stack'[p].exit, NEW m \in 1..(p - 1)
             PROVE  \E q \in m..(p - 1) :
                       /\ q = m \/ stack'[q].exit
                       /\ stack'[q].id \in Range(Dependencies(stack'[p].id))
  BY <1>1, CallFixed DEF Path
<1>10. CASE p = M
  <2>1. m \in 1..Len(D) /\ stack'[p].id = Here
    BY <1>2, <1>4, <1>10
  <2>2. stack'[m].id \in Range(Dependencies(Here))
    BY <1>2, <1>3, <1>9, <2>1 DEF D
  <2>3. m \in m..(p - 1)
    BY <1>2
  <2> QED
    BY <2>1, <2>2, <2>3
<1>11. CASE p > M
  <2> DEFINE o == Old(p)
             from == IF m <= M THEN 1 ELSE Old(m)
  <2>1. o \in DOMAIN stack /\ o # 1 /\ stack'[p] = stack[o] /\ p \in Nat
    BY <1>2, <1>5, <1>11
  <2>2. from \in 1..(o - 1)
    BY <1>2, <1>8, <2>1
  <2>3. PICK q \in from..(o - 1) :
           /\ q = from \/ stack[q].exit
           /\ stack[q].id \in Range(Dependencies(stack'[p].id))
    <3> HIDE DEF o, from
    <3> QED
      BY <1>1, <2>1, <2>2 DEF Path
  <2>4. q \in DOMAIN stack /\ q \in Nat
    BY <1>8, <2>1, <2>2
  <2>5. CASE q = 1
    <3>1. m <= M /\ M \in m..(p - 1)
      BY <1>2, <1>11, <2>1, <2>2, <2>5
    <3>2. stack'[M].id \in Range(Dependencies(stack'[p].id))
      BY <1>1, <1>4, <2>3, <2>5
    <3> QED
      BY <1>4, <3>1, <3>2
  <2>6. CASE q # 1
    <3> DEFINE r == q + M - 1
    <3>1. r \in DOMAIN stack' /\ stack'[r] = stack[q]
      BY <1>6, <2>4, <2>6
    <3>2. r \in m..(p - 1)
      BY <1>2, <2>1, <2>2, <2>4, <2>6
    <3>3. q = from => r = m
      BY <1>2, <2>6
    <3> HIDE DEF r
    <3> QED
      BY <2>3, <3>1, <3>2, <3>3
  <2> QED
    BY <2>5, <2>6
<1> QED
  BY <1>3, <1>7, <1>10, <1>11

LEMMA ExpandReached ==
    ASSUME WalkInv, Expand
    PROVE  WalkInv'
<1> DEFINE D == Dependencies(Here)
           M == Len(D) + 1
<1>1. /\ Walking /\ OrderInv /\ ~stack[1].exit /\ 1 \in DOMAIN stack /\ Here = stack[1].id
      /\ Here \in DOMAIN Graph /\ (request.complete => Graph[Here].known)
      /\ active' = active \cup {Here} /\ outcome = "walking"
      /\ UNCHANGED <<request, turn, done, ordered, outcome>>
  BY StackFacts DEF Expand, CanExpand, Entering, Walking, WalkInv
<1>2. OrderInv'
  BY ExpandKeeps DEF WalkInv
<1>3. /\ \A k \in 1..Len(D) : stack'[k].id = D[k] /\ k \in DOMAIN D
      /\ M \in DOMAIN stack' /\ stack'[M].id = Here
      /\ \A p \in DOMAIN stack' : p \in 1..Len(D) \/ p = M \/ p > M
      /\ \A p \in DOMAIN stack' : p > M => \E q \in DOMAIN stack : stack'[p] = stack[q]
      /\ \A q \in DOMAIN stack : q # 1 => \E p \in DOMAIN stack' : stack'[p] = stack[q]
  BY <1>1, ExpandedStack
<1>4. Here \in BehindRoots /\ Range(D) \subseteq BehindRoots
  BY <1>1, BehindRootsIsClosed DEF WalkInv, Reached
<1> HIDE DEF D
<1>5. Reached'
  <2>1. ASSUME NEW p \in DOMAIN stack' PROVE stack'[p].id \in BehindRoots
    <3>1. CASE p \in 1..Len(D)
      BY <1>3, <1>4, <3>1 DEF Range
    <3>2. CASE p = M
      BY <1>3, <1>4, <3>2
    <3>3. CASE p > M
      BY <1>3, <3>3 DEF WalkInv, Reached
    <3> QED
      BY <1>3, <3>1, <3>2, <3>3
  <2> QED
    BY <1>1, <1>4, <2>1, CallFixed DEF WalkInv, Reached
<1>6. RootsTaken'
  <2> SUFFICES ASSUME NEW k \in 1..(turn - 1), Needed(request.roots[k]),
                      request.roots[k] \notin done
               PROVE  \E p \in DOMAIN stack' : stack'[p].id = request.roots[k]
    BY <1>1, CallFixed DEF RootsTaken
  <2>1. PICK q \in DOMAIN stack : stack[q].id = request.roots[k]
    BY DEF WalkInv, RootsTaken
  <2> QED
    BY <1>1, <1>3, <2>1
<1>7. DoneIsClosed'
  BY <1>1, CallFixed DEF WalkInv, DoneIsClosed
<1>8. Path'
  BY PathExpands
<1>9. Ended'
  BY <1>1 DEF Ended
<1> QED
  BY <1>2, <1>5, <1>6, <1>7, <1>8, <1>9 DEF WalkInv

\* A node met again between its entry and its exit derives from itself: so do
\* all whose exits are between, each through the next.
LEMMA MetAgainIsCyclic ==
    ASSUME WalkInv, Entering, Here \in active
    PROVE  ~BehindCycleFree
<1>1. /\ stack[1].id = Here /\ ~stack[1].exit /\ DOMAIN stack = 1..Len(stack)
      /\ Len(stack) \in Nat
  BY StackFacts DEF Entering, WalkInv
<1>2. PICK p \in DOMAIN stack : stack[p].exit /\ stack[p].id = Here
  BY DEF WalkInv, OrderInv, Exits
<1> DEFINE Q == {q \in 1..p : stack[q].exit}
           S == {stack[q].id : q \in Q}
<1>3. \A q \in Q : q \in DOMAIN stack /\ stack[q].exit /\ q \in 1..p
  BY <1>1, <1>2
<1>4. p \in Q /\ Here \in S
  BY <1>1, <1>2
<1>5. S \subseteq BehindRoots \cap DOMAIN Graph
  BY <1>3 DEF WalkInv, OrderInv, Exits, Reached
<1>6. ASSUME NEW q \in Q PROVE Range(Dependencies(stack[q].id)) \cap S # {}
  <2>1. 1 \in 1..(q - 1)
    BY <1>1, <1>3
  <2>2. PICK r \in 1..(q - 1) :
           /\ r = 1 \/ stack[r].exit
           /\ stack[r].id \in Range(Dependencies(stack[q].id))
    BY <1>3, <2>1 DEF WalkInv, Path
  <2>3. CASE r = 1
    BY <1>1, <1>4, <2>2, <2>3
  <2>4. CASE stack[r].exit
    <3>1. r \in 1..p
      BY <1>1, <1>3
    <3>2. stack[r].id \in S
      BY <2>4, <3>1
    <3> QED
      BY <2>2, <3>2
  <2> QED
    BY <2>2, <2>3, <2>4
<1>7. \A i \in S : Range(Dependencies(i)) \cap S # {}
  BY <1>6
<1> HIDE DEF S
<1> QED
  BY <1>4, <1>5, <1>7, BehindIsCyclic

\* Every turn of the loop keeps the invariant.
LEMMA WalkReaches ==
    ASSUME WalkInv, [Next]_vars
    PROVE  WalkInv'
<1>1. OrderInv' /\ OrderInv
  BY WalkKeeps DEF WalkInv
<1>2. CASE NextRoot
  BY <1>2, RootReached
<1>3. CASE Return
  BY <1>1, <1>3, EndKeeps DEF Return, Ended
<1>4. CASE Exit
  BY <1>4, ExitReached
<1>5. CASE SkipDone
  BY <1>5, PopReached DEF SkipDone
<1>6. CASE Cycle
  <2>1. ~BehindCycleFree
    BY <1>6, MetAgainIsCyclic DEF Cycle
  <2>2. Ended'
    BY <1>6, <2>1, CallFixed DEF Cycle, Throw, Ended
  <2> QED
    BY <1>1, <1>6, <2>2, EndKeeps DEF Cycle, Throw
<1>7. CASE Absent
  <2>1. CASE request.complete
    <3>1. Here \in BehindRoots /\ Here \notin DOMAIN Graph
      BY <1>1, <1>7, StackFacts DEF Absent, Entering, WalkInv, Reached
    <3>2. ~CanOrder(GraphArchive, Roots)
      BY <3>1, BehindCanBeOrdered
    <3>3. Throw("MissingNode")
      BY <1>7, <2>1 DEF Absent
    <3>4. Ended'
      BY <2>1, <3>2, <3>3, CallFixed DEF Throw, Ended
    <3> QED
      BY <1>1, <3>3, <3>4, EndKeeps DEF Throw
  <2>2. CASE ~request.complete
    BY <1>7, <2>2, PopReached DEF Absent, Needed
  <2> QED
    BY <2>1, <2>2
<1>8. CASE MembersUnknown
  <2>1. Here \in BehindRoots /\ ~Graph[Here].known /\ request.complete
    BY <1>1, <1>8, StackFacts DEF MembersUnknown, Entering, WalkInv, Reached
  <2>2. ~CanOrder(GraphArchive, Roots)
    BY <2>1, BehindCanBeOrdered
  <2>3. Ended'
    BY <1>8, <2>1, <2>2, CallFixed DEF MembersUnknown, Throw, Ended
  <2> QED
    BY <1>1, <1>8, <2>3, EndKeeps DEF MembersUnknown, Throw
<1>9. CASE Expand
  BY <1>9, ExpandReached
<1>10. CASE UNCHANGED vars
  <2>1. Ended'
    BY <1>10, CallFixed DEF WalkInv, Ended, vars
  <2> QED
    BY <1>1, <1>10, <2>1, EndKeeps DEF vars
<1> QED
  BY <1>2, <1>3, <1>4, <1>5, <1>6, <1>7, <1>8, <1>9, <1>10 DEF Next, Walk, Finished

\* The first of any nodes in the order derives from none of them.
LEMMA OrderedIsCycleFree ==
    ASSUME OrderInv, NEW S, S # {}, S \subseteq done, S \subseteq DOMAIN Graph
    PROVE  \E i \in S : Range(Dependencies(i)) \cap S = {}
<1> DEFINE K == {k \in DOMAIN ordered : ordered[k] \in S}
<1>1. Len(ordered) \in Nat /\ DOMAIN ordered = 1..Len(ordered)
  BY LenProperties DEF OrderInv, Types
<1>2. K \subseteq Nat /\ K # {}
  <2>1. \A i \in S : \E k \in DOMAIN ordered : ordered[k] = i
    BY DEF OrderInv, Result
  <2> QED
    BY <1>1, <2>1
<1>3. \A j, k \in Nat : j < k => <<j, k>> \in OpToRel(<, Nat)
  BY Zenon DEF OpToRel
<1> HIDE DEF K
<1>4. PICK k \in K : \A j \in K : <<j, k>> \notin OpToRel(<, Nat)
  BY <1>2, NatLessThanWellFounded, WFMin
<1>5. k \in DOMAIN ordered /\ ordered[k] \in S /\ k \in Nat
  BY <1>1 DEF K
<1>6. ASSUME NEW d \in Range(Dependencies(ordered[k])), d \in S
      PROVE  FALSE
  <2>1. PICK n \in DOMAIN Dependencies(ordered[k]) : Dependencies(ordered[k])[n] = d
    BY DEF Range
  <2>2. PICK j \in 1..(k - 1) : ordered[j] = d
    BY <1>5, <1>6, <2>1 DEF OrderInv, DependenciesFirst
  <2>3. j \in DOMAIN ordered /\ j \in Nat /\ j < k
    BY <1>1, <1>5, <2>2
  <2>4. j \in K
    BY <1>6, <2>2, <2>3 DEF K
  <2> QED
    BY <1>3, <1>4, <1>5, <2>3, <2>4
<1> QED
  BY <1>5, <1>6

\* When nothing is on the stack and every root had its turn, what is done is
\* what is behind the roots.
LEMMA ResultIsBehind ==
    ASSUME WalkInv, outcome = "ordered"
    PROVE  /\ done = BehindRoots \cap DOMAIN Graph
           /\ BehindCycleFree
           /\ request.complete => CanOrder(GraphArchive, Roots)
<1>1. DOMAIN stack = {} /\ turn > Len(request.roots)
  BY DEF WalkInv, Ended
<1>2. /\ done \subseteq BehindRoots \cap DOMAIN Graph
      /\ request.complete => \A i \in done : Graph[i].known
  BY DEF WalkInv, Reached
<1>3. ASSUME NEW i \in Roots, Needed(i) PROVE i \in done
  <2>1. request.roots \in Seq(Ids) /\ turn \in Nat \ {0}
    BY RequestsAssumption DEF WalkInv, OrderInv, Types
  <2>2. PICK k \in DOMAIN request.roots : request.roots[k] = i
    BY DEF Roots, Range
  <2>3. k \in 1..(turn - 1)
    BY <1>1, <2>1, LenProperties
  <2> QED
    BY <1>1, <1>3, <2>2, <2>3 DEF WalkInv, RootsTaken
<1> DEFINE S == done \cup {i \in BehindRoots : ~Needed(i)}
<1>4. BehindRoots \subseteq S
  <2>1. Roots \subseteq S
    BY <1>3, BehindRootsIsClosed
  <2>2. ASSUME NEW j \in S \cap DOMAIN Graph, NEW d \in Range(Dependencies(j)) PROVE d \in S
    <3>1. j \in done /\ d \in BehindRoots
      BY <1>2, BehindRootsIsClosed DEF Needed
    <3> QED
      BY <3>1 DEF WalkInv, DoneIsClosed
  <2> HIDE DEF S
  <2> QED
    BY <2>1, <2>2, BehindRootsIsLeast
<1>5. done = BehindRoots \cap DOMAIN Graph
  BY <1>2, <1>4 DEF Needed
<1>6. BehindCycleFree
  BY <1>5, OrderedIsCycleFree, BehindIsCycleFree DEF WalkInv
<1>7. request.complete => CanOrder(GraphArchive, Roots)
  <2> HAVE request.complete
  <2>1. BehindRoots \subseteq done
    BY <1>4 DEF Needed
  <2> QED
    BY <1>2, <2>1, BehindCanBeOrdered
<1> QED
  BY <1>5, <1>6, <1>7

LEMMA WalkIsBehind == WalkInv => OrdersWhatIsBehind
<1> SUFFICES ASSUME WalkInv PROVE OrdersWhatIsBehind
  OBVIOUS
<1>1. Range(ordered) = done
  BY DEF WalkInv, OrderInv, Result, Range
<1>2. outcome = "ordered" =>
         /\ Range(ordered) = BehindRoots \cap DOMAIN Graph
         /\ BehindCycleFree
         /\ request.complete => CanOrder(GraphArchive, Roots)
  BY <1>1, ResultIsBehind
<1>3. /\ outcome = "Cyclic" => ~BehindCycleFree
      /\ outcome \in {"MissingNode", "MissingMembers"} =>
            request.complete /\ ~CanOrder(GraphArchive, Roots)
  BY DEF WalkInv, Ended
<1> QED
  BY <1>2, <1>3 DEF OrdersWhatIsBehind

(***************************************************************************)
(* Each turn of the loop gets the walk further.                            *)
(***************************************************************************)

\* A node left was entered, and was not left before.
LEMMA ExitLeaves ==
    ASSUME OrderInv, Exit
    PROVE  Leaves
<1>1. /\ Walking /\ Head(stack).exit
      /\ active' = active \ {Here} /\ done' = done \cup {Here}
  BY DEF Exit
<1>2. Here \in active
  <2>1. 1 \in DOMAIN stack /\ stack[1].exit /\ Here = stack[1].id
    BY <1>1, StackFacts
  <2> QED
    BY <2>1 DEF OrderInv, Exits
<1>3. Here \notin done
  BY <1>2 DEF OrderInv, Result
<1>4. Entered' = Entered /\ Here \in Entered \ done
  BY <1>1, <1>2, <1>3 DEF Entered
<1> QED
  BY <1>1, <1>4 DEF Leaves

LEMMA ExpandEnters ==
    ASSUME Expand
    PROVE  Enters
<1>1. /\ Here \in DOMAIN Graph /\ Here \notin done /\ Here \notin active
      /\ active' = active \cup {Here} /\ done' = done
  BY DEF Expand, CanExpand
<1>2. Entered' = Entered \cup {Here} /\ Here \in DOMAIN Graph \ Entered
  BY <1>1 DEF Entered
<1> QED
  BY <1>2 DEF Enters

LEMMA TurnAdvances ==
    ASSUME OrderInv, Walk, outcome' = "walking"
    PROVE  Enters \/ Leaves \/ Starts \/ Pops
<1>1. CASE NextRoot
  BY <1>1 DEF NextRoot, Starts
<1>2. CASE Exit
  BY <1>2, ExitLeaves
<1>3. CASE SkipDone
  BY <1>3 DEF SkipDone, Entering, Walking, Pop, Pops
<1>4. CASE Absent
  BY <1>4 DEF Absent, Entering, Walking, Throw, Pop, Pops
<1>5. CASE Expand
  BY <1>5, ExpandEnters
<1>6. ~Return /\ ~Cycle /\ ~MembersUnknown
  BY DEF Return, Cycle, MembersUnknown, Throw
<1> QED
  BY <1>1, <1>2, <1>3, <1>4, <1>5, <1>6 DEF Walk

(***************************************************************************)
(* Theorems.                                                               *)
(***************************************************************************)

\* For every archive, every list of roots and either mode of
\* dependencyOrder: the set the walk calls active is the set of its exits on
\* the stack, and nothing is both active and done.
THEOREM WalkIsTyped == Spec => []TypeOK
<1>1. Init => OrderInv
  BY InitOrder
<1>2. OrderInv /\ [Next]_vars => OrderInv'
  BY WalkKeeps
<1>3. OrderInv => TypeOK
  BY OrderImpliesType
<1> QED
  BY <1>1, <1>2, <1>3, PTL DEF Spec

\* For every archive, every list of roots and either mode of
\* dependencyOrder: at every moment the result so far lists a node once, and
\* after all it derives from that the archive has.
THEOREM ResultIsCreationOrder == Spec => []DependenciesFirst
<1>1. Init => OrderInv
  BY InitOrder
<1>2. OrderInv /\ [Next]_vars => OrderInv'
  BY WalkKeeps
<1>3. OrderInv => DependenciesFirst
  BY DEF OrderInv
<1> QED
  BY <1>1, <1>2, <1>3, PTL DEF Spec

\* For every archive, every list of roots and either mode: dependencyOrder
\* returns exactly what module Archive calls behind the roots, and throws only
\* for a cycle or a gap that is there.
THEOREM OrderIsBehind == Spec => []OrdersWhatIsBehind
<1>1. Init => WalkInv
  BY InitWalk
<1>2. WalkInv /\ [Next]_vars => WalkInv'
  BY WalkReaches
<1>3. WalkInv => OrdersWhatIsBehind
  BY WalkIsBehind
<1> QED
  BY <1>1, <1>2, <1>3, PTL DEF Spec

\* For every archive, every list of roots and either mode: a turn of
\* dependencyOrder's loop enters a node, leaves one, starts a root or takes a
\* node off the stack, so the loop does not spin.
THEOREM OrderAdvances == Spec => EveryTurnAdvances
<1>1. Init => OrderInv
  BY InitOrder
<1>2. OrderInv /\ [Next]_vars => OrderInv'
  BY WalkKeeps
<1>3. OrderInv /\ [Next]_vars =>
          [outcome' = "walking" => Enters \/ Leaves \/ Starts \/ Pops]_vars
  BY TurnAdvances DEF Next, Finished
<1> QED
  BY <1>1, <1>2, <1>3, PTL DEF Spec, EveryTurnAdvances
=============================================================================
