--------------------------- MODULE Economy_proofs ---------------------------
(***************************************************************************)
(* Theorems about Economy, for every number of users, every rent price and *)
(* every gift: the balances the program keeps cover what it owes.          *)
(***************************************************************************)
EXTENDS Economy, Records_proofs, WellFoundedInduction

(***************************************************************************)
(* Sums.  A sum folds a function over a finite set, one element at a time, *)
(* in whatever order CHOOSE takes them.  What it does for every set is     *)
(* shown on a smallest set for which it would not.                         *)
(***************************************************************************)
LEMMA SmallestSet ==
    ASSUME NEW S, IsFiniteSet(S), NEW B \in SUBSET SUBSET S, B # {}
    PROVE  \E T \in B : \A U \in B : U \subseteq T => U = T
<1>1. IsWellFoundedOn(StrictSubsetOrdering(S), SUBSET S)
  BY FS_StrictSubsetOrderingWellFounded, FS_FiniteSubsetsOfFinite
<1>2. PICK T \in B : \A U \in B : <<U, T>> \notin StrictSubsetOrdering(S)
  BY <1>1, WFMin
<1> QED
  BY <1>2 DEF StrictSubsetOrdering

Pick(s) == CHOOSE x \in s : TRUE

LEMMA PickIn == ASSUME NEW s, s # {} PROVE Pick(s) \in s
BY DEF Pick

\* it has the sum of f over every subset of S.
SumsTo(it, f, S) ==
    it = [s \in SUBSET S |-> IF s = {} THEN 0 ELSE f[Pick(s)] + it[s \ {Pick(s)}]]

LEMMA SumUnfolds ==
    ASSUME NEW f, NEW S
    PROVE  SumFunctionOnSet(f, S) = (CHOOSE it : SumsTo(it, f, S))[S]
BY DEF SumFunctionOnSet, FoldFunctionOnSet, MapThenFoldSet, SumsTo, Pick

LEMMA SumsUnique ==
    ASSUME NEW f, NEW S, IsFiniteSet(S), NEW c, NEW h, SumsTo(c, f, S), SumsTo(h, f, S)
    PROVE  \A s \in SUBSET S : c[s] = h[s]
<1> DEFINE B == {s \in SUBSET S : c[s] # h[s]}
<1> SUFFICES ASSUME B # {} PROVE FALSE
  OBVIOUS
<1>1. B \in SUBSET SUBSET S
  OBVIOUS
<1>2. PICK T \in B : \A U \in B : U \subseteq T => U = T
  <2> HIDE DEF B
  <2> QED
    BY <1>1, SmallestSet
<1>3. /\ \A s \in SUBSET S : c[s] = IF s = {} THEN 0 ELSE f[Pick(s)] + c[s \ {Pick(s)}]
      /\ \A s \in SUBSET S : h[s] = IF s = {} THEN 0 ELSE f[Pick(s)] + h[s \ {Pick(s)}]
  BY DEF SumsTo
<1>4. T # {}
  BY <1>2, <1>3
<1>5. c[T \ {Pick(T)}] = h[T \ {Pick(T)}]
  BY <1>2, <1>4, PickIn
<1> QED
  BY <1>2, <1>3, <1>4, <1>5

\* The sum of a set is that of the element taken first and of the rest.
FirstAndRest(f, s) ==
    IF s = {} THEN 0 ELSE f[Pick(s)] + SumFunctionOnSet(f, s \ {Pick(s)})

LEMMA SumIsFirstAndRest ==
    ASSUME NEW f, NEW S, IsFiniteSet(S)
    PROVE  SumFunctionOnSet(f, S) = FirstAndRest(f, S)
<1> DEFINE B == {s \in SUBSET S : SumFunctionOnSet(f, s) # FirstAndRest(f, s)}
<1> SUFFICES ASSUME B # {} PROVE FALSE
  BY Zenon
<1>1. B \in SUBSET SUBSET S
  OBVIOUS
<1>2. PICK T \in B : \A U \in B : U \subseteq T => U = T
  <2> HIDE DEF B
  <2> QED
    BY <1>1, SmallestSet
<1>3. /\ T \in SUBSET S /\ IsFiniteSet(T)
      /\ SumFunctionOnSet(f, T) # FirstAndRest(f, T)
  BY <1>2, FS_Subset
<1>4. \A s \in SUBSET T : s # T => SumFunctionOnSet(f, s) = FirstAndRest(f, s)
  BY <1>2, <1>3
<1> DEFINE h == [s \in SUBSET T |-> FirstAndRest(f, s)]
<1>5. \A s \in SUBSET T : s # {} => s \ {Pick(s)} \in SUBSET T /\ s \ {Pick(s)} # T
  BY PickIn
<1>6. \A s \in SUBSET T :
         s # {} => h[s \ {Pick(s)}] = SumFunctionOnSet(f, s \ {Pick(s)})
  BY <1>4, <1>5, Zenon
<1>7. SumsTo(h, f, T)
  BY <1>6 DEF SumsTo, FirstAndRest
<1> HIDE DEF h
<1>8. SumsTo(CHOOSE it : SumsTo(it, f, T), f, T)
  BY <1>7
<1>9. SumFunctionOnSet(f, T) = h[T]
  BY <1>3, <1>7, <1>8, SumsUnique, SumUnfolds
<1> QED
  BY <1>3, <1>9 DEF h

LEMMA SumOfNone == ASSUME NEW f PROVE SumFunctionOnSet(f, {}) = 0
BY SumIsFirstAndRest, FS_EmptySet DEF FirstAndRest

LEMMA SumNat ==
    ASSUME NEW f, NEW S, IsFiniteSet(S), \A x \in S : f[x] \in Nat
    PROVE  SumFunctionOnSet(f, S) \in Nat
<1> DEFINE B == {s \in SUBSET S : SumFunctionOnSet(f, s) \notin Nat}
<1> SUFFICES ASSUME B # {} PROVE FALSE
  BY Zenon
<1>1. B \in SUBSET SUBSET S
  OBVIOUS
<1>2. PICK T \in B : \A U \in B : U \subseteq T => U = T
  <2> HIDE DEF B
  <2> QED
    BY <1>1, SmallestSet
<1>3. T \in SUBSET S /\ IsFiniteSet(T) /\ SumFunctionOnSet(f, T) \notin Nat
  BY <1>2, FS_Subset
<1>4. SumFunctionOnSet(f, T) = FirstAndRest(f, T)
  BY <1>3, SumIsFirstAndRest
<1>5. T # {}
  BY <1>3, <1>4 DEF FirstAndRest
<1>6. Pick(T) \in T /\ SumFunctionOnSet(f, T \ {Pick(T)}) \in Nat
  BY <1>2, <1>5, PickIn
<1> QED
  BY <1>3, <1>4, <1>5, <1>6 DEF FirstAndRest

\* Any element may be taken first.
LEMMA SumOf ==
    ASSUME NEW f, NEW S, IsFiniteSet(S), \A y \in S : f[y] \in Nat, NEW x \in S
    PROVE  SumFunctionOnSet(f, S) = f[x] + SumFunctionOnSet(f, S \ {x})
<1> DEFINE B == {s \in SUBSET S :
                    \E y \in s : SumFunctionOnSet(f, s) # f[y] + SumFunctionOnSet(f, s \ {y})}
<1> SUFFICES ASSUME B # {} PROVE FALSE
  BY Zenon
<1>1. B \in SUBSET SUBSET S
  OBVIOUS
<1>2. PICK T \in B : \A U \in B : U \subseteq T => U = T
  <2> HIDE DEF B
  <2> QED
    BY <1>1, SmallestSet
<1>3. PICK y \in T : SumFunctionOnSet(f, T) # f[y] + SumFunctionOnSet(f, T \ {y})
  BY <1>2
<1>4. T \in SUBSET S /\ IsFiniteSet(T) /\ T # {}
  BY <1>2, <1>3, FS_Subset
<1> DEFINE p == Pick(T)
           P == T \ {p}
           Y == T \ {y}
<1>5. SumFunctionOnSet(f, T) = f[p] + SumFunctionOnSet(f, P) /\ p \in T
  BY <1>4, SumIsFirstAndRest, PickIn DEF FirstAndRest
<1>6. p # y
  BY <1>3, <1>5
<1>7. \A U \in SUBSET T : U # T =>
          \A z \in U : SumFunctionOnSet(f, U) = f[z] + SumFunctionOnSet(f, U \ {z})
  BY <1>2, <1>4
<1>8. SumFunctionOnSet(f, P) = f[y] + SumFunctionOnSet(f, P \ {y})
  <2>1. P \in SUBSET T /\ P # T /\ y \in P
    BY <1>3, <1>5, <1>6
  <2> QED
    BY <1>7, <2>1, Zenon
<1>9. SumFunctionOnSet(f, Y) = f[p] + SumFunctionOnSet(f, Y \ {p})
  <2>1. Y \in SUBSET T /\ Y # T /\ p \in Y
    BY <1>3, <1>5, <1>6
  <2> QED
    BY <1>7, <2>1, Zenon
<1>10. P \ {y} = Y \ {p}
  OBVIOUS
<1>11. f[p] \in Nat /\ f[y] \in Nat /\ SumFunctionOnSet(f, P \ {y}) \in Nat
  BY <1>3, <1>4, <1>5, SumNat, FS_Subset
<1> QED
  BY <1>3, <1>5, <1>8, <1>9, <1>10, <1>11

LEMMA SumSame ==
    ASSUME NEW f, NEW g, NEW S, IsFiniteSet(S), \A y \in S : f[y] = g[y]
    PROVE  SumFunctionOnSet(f, S) = SumFunctionOnSet(g, S)
<1> DEFINE B == {s \in SUBSET S : SumFunctionOnSet(f, s) # SumFunctionOnSet(g, s)}
<1> SUFFICES ASSUME B # {} PROVE FALSE
  BY Zenon
<1>1. B \in SUBSET SUBSET S
  OBVIOUS
<1>2. PICK T \in B : \A U \in B : U \subseteq T => U = T
  <2> HIDE DEF B
  <2> QED
    BY <1>1, SmallestSet
<1>3. /\ T \in SUBSET S /\ IsFiniteSet(T)
      /\ SumFunctionOnSet(f, T) # SumFunctionOnSet(g, T)
  BY <1>2, FS_Subset
<1>4. /\ SumFunctionOnSet(f, T) = FirstAndRest(f, T)
      /\ SumFunctionOnSet(g, T) = FirstAndRest(g, T)
  BY <1>3, SumIsFirstAndRest
<1>5. T # {}
  BY <1>3, <1>4 DEF FirstAndRest
<1>6. /\ Pick(T) \in T
      /\ SumFunctionOnSet(f, T \ {Pick(T)}) = SumFunctionOnSet(g, T \ {Pick(T)})
  BY <1>2, <1>5, PickIn
<1> QED
  BY <1>3, <1>4, <1>5, <1>6 DEF FirstAndRest

\* What k adds to the sum of f over S.
Part(f, S, k) == IF k \in S THEN f[k] ELSE 0

LEMMA SumIsPartAndRest ==
    ASSUME NEW f, NEW S, IsFiniteSet(S), \A y \in S : f[y] \in Nat, NEW k
    PROVE  /\ SumFunctionOnSet(f, S) = Part(f, S, k) + SumFunctionOnSet(f, S \ {k})
           /\ Part(f, S, k) \in Nat
           /\ SumFunctionOnSet(f, S \ {k}) \in Nat
<1>1. SumFunctionOnSet(f, S \ {k}) \in Nat
  BY FS_Subset, SumNat
<1>2. CASE k \in S
  BY <1>1, <1>2, SumOf DEF Part
<1>3. CASE k \notin S
  <2>1. S \ {k} = S
    BY <1>3
  <2> QED
    BY <1>1, <1>3, <2>1 DEF Part
<1> QED
  BY <1>1, <1>2, <1>3

\* Two sums that differ in k at most, differ by what k adds to each.
LEMMA SumsApart ==
    ASSUME NEW f, NEW S, IsFiniteSet(S), \A y \in S : f[y] \in Nat,
           NEW g, NEW T, IsFiniteSet(T), \A y \in T : g[y] \in Nat,
           NEW k, T \ {k} = S \ {k}, \A y \in S \ {k} : g[y] = f[y]
    PROVE  SumFunctionOnSet(g, T) + Part(f, S, k) = SumFunctionOnSet(f, S) + Part(g, T, k)
<1>1. /\ SumFunctionOnSet(f, S) = Part(f, S, k) + SumFunctionOnSet(f, S \ {k})
      /\ Part(f, S, k) \in Nat /\ SumFunctionOnSet(f, S \ {k}) \in Nat
  BY SumIsPartAndRest
<1>2. /\ SumFunctionOnSet(g, T) = Part(g, T, k) + SumFunctionOnSet(g, T \ {k})
      /\ Part(g, T, k) \in Nat /\ SumFunctionOnSet(g, T \ {k}) \in Nat
  BY SumIsPartAndRest
<1>3. SumFunctionOnSet(g, T \ {k}) = SumFunctionOnSet(f, S \ {k})
  <2>1. IsFiniteSet(S \ {k})
    BY FS_Subset
  <2>2. SumFunctionOnSet(g, S \ {k}) = SumFunctionOnSet(f, S \ {k})
    BY <2>1, SumSame
  <2> QED
    BY <2>2
<1> QED
  BY <1>1, <1>2, <1>3

\* Each of two summands is in the sum.
LEMMA SumHasBoth ==
    ASSUME NEW f, NEW S, IsFiniteSet(S), \A y \in S : f[y] \in Nat,
           NEW x \in S, NEW z \in S, x # z
    PROVE  SumFunctionOnSet(f, S) >= f[x] + f[z]
<1>1. IsFiniteSet(S \ {x}) /\ z \in S \ {x} /\ \A y \in S \ {x} : f[y] \in Nat
  BY FS_Subset
<1>2. IsFiniteSet((S \ {x}) \ {z}) /\ \A y \in (S \ {x}) \ {z} : f[y] \in Nat
  BY FS_Subset
<1>3. SumFunctionOnSet(f, S) = f[x] + SumFunctionOnSet(f, S \ {x})
  BY SumOf
<1>4. SumFunctionOnSet(f, S \ {x}) = f[z] + SumFunctionOnSet(f, (S \ {x}) \ {z})
  BY <1>1, SumOf
<1>5. SumFunctionOnSet(f, (S \ {x}) \ {z}) \in Nat
  BY <1>2, SumNat
<1> QED
  BY <1>3, <1>4, <1>5

LEMMA SumOfEqual ==
    ASSUME NEW f, NEW S, IsFiniteSet(S), NEW n \in Nat, \A y \in S : f[y] = n
    PROVE  SumFunctionOnSet(f, S) = Cardinality(S) * n
<1> DEFINE B == {s \in SUBSET S : SumFunctionOnSet(f, s) # Cardinality(s) * n}
<1> SUFFICES ASSUME B # {} PROVE FALSE
  BY Zenon
<1>1. B \in SUBSET SUBSET S
  OBVIOUS
<1>2. PICK T \in B : \A U \in B : U \subseteq T => U = T
  <2> HIDE DEF B
  <2> QED
    BY <1>1, SmallestSet
<1>3. /\ T \in SUBSET S /\ IsFiniteSet(T)
      /\ SumFunctionOnSet(f, T) # Cardinality(T) * n
  BY <1>2, FS_Subset
<1>4. T # {}
  BY <1>3, SumOfNone, FS_EmptySet
<1> DEFINE P == T \ {Pick(T)}
<1>5. Pick(T) \in T /\ SumFunctionOnSet(f, P) = Cardinality(P) * n
  BY <1>2, <1>4, PickIn
<1>6. Cardinality(T) \in Nat /\ Cardinality(P) = Cardinality(T) - 1
  BY <1>3, <1>5, FS_RemoveElement, FS_CardinalityType
<1>7. SumFunctionOnSet(f, T) = n + SumFunctionOnSet(f, P)
  BY <1>3, <1>4, <1>5, SumIsFirstAndRest DEF FirstAndRest
<1>8. \A k \in Nat : n + (k - 1) * n = k * n
  OBVIOUS
<1> QED
  BY <1>3, <1>5, <1>6, <1>7, <1>8

(***************************************************************************)
(* A transfer.                                                             *)
(***************************************************************************)

\* The balances of a ledger, finitely many.
Funds(L) == BalancesOK(L) /\ IsFiniteSet(DOMAIN L.lamports)

\* Setting one balance changes the total by what that balance changes.
LEMMA SetBalanceTotal ==
    ASSUME NEW f, IsFiniteSet(DOMAIN f), \A b \in DOMAIN f : f[b] \in Nat,
           NEW a, NEW n \in Nat
    PROVE  LET g == SetBalance(f, a, n) IN
           /\ IsFiniteSet(DOMAIN g)
           /\ \A b \in DOMAIN g : g[b] \in Nat
           /\ SumFunction(g) + Part(f, DOMAIN f, a) = SumFunction(f) + n
<1> DEFINE g == SetBalance(f, a, n)
           S == DOMAIN f
           T == DOMAIN g
<1>1. /\ \A b : b \in T <=> (b \in S /\ b # a) \/ (b = a /\ n # 0)
      /\ \A b \in T : g[b] = IF b = a THEN n ELSE f[b]
  BY SetBalanceFacts
<1> HIDE DEF g
<1>2. T \subseteq S \cup {a}
  BY <1>1
<1>3. IsFiniteSet(T)
  <2>1. IsFiniteSet(S \cup {a})
    BY FS_AddElement
  <2> QED
    BY <1>2, <2>1, FS_Subset
<1>4. \A b \in T : g[b] \in Nat
  BY <1>1
<1>5. T \ {a} = S \ {a} /\ \A b \in S \ {a} : g[b] = f[b]
  BY <1>1
<1>6. Part(g, T, a) = n
  BY <1>1 DEF Part
<1>7. SumFunctionOnSet(g, T) + Part(f, S, a) = SumFunctionOnSet(f, S) + Part(g, T, a)
  <2> HIDE DEF S, T
  <2> QED
    BY <1>3, <1>4, <1>5, SumsApart DEF S
<1> QED
  BY <1>3, <1>4, <1>6, <1>7 DEF SumFunction, g

\* M has the balances of L after n went from one address to another.
Moved(L, M, from, to, n) ==
    /\ Funds(M)
    /\ SumFunction(M.lamports) = SumFunction(L.lamports)
    /\ Balance(M, from) = Balance(L, from) - n
    /\ Balance(M, to) = Balance(L, to) + n
    /\ \A a : a # from /\ a # to => Balance(M, a) = Balance(L, a)

LEMMA TransferMoves ==
    ASSUME NEW L, Funds(L), NEW from, NEW to, from # to,
           NEW n \in Nat, n <= Balance(L, from)
    PROVE  LET M == Transferred(L, from, to, n) IN
           Moved(L, M, from, to, n) /\ M.hash = L.hash /\ M.vote = L.vote
<1> DEFINE M == Transferred(L, from, to, n)
<1>1. BalancesOK(L) /\ Balance(L, from) \in Nat /\ Balance(L, to) \in Nat
  BY BalanceNat DEF Funds
<1>2. /\ BalancesOK(M) /\ M.hash = L.hash /\ M.vote = L.vote
      /\ Balance(M, from) = Balance(L, from) - n
  BY <1>1, TransferredOK
<1>3. \A a : a # from /\ a # to => Balance(M, a) = Balance(L, a)
  BY ThirdPartyBalance
<1>4. CASE n = 0
  <2>1. M.lamports = L.lamports
    BY <1>4 DEF Transferred
  <2> HIDE DEF M
  <2>2. Funds(M) /\ Balance(M, to) = Balance(L, to)
    BY <1>2, <2>1 DEF Funds, Balance
  <2> QED
    BY <1>1, <1>2, <1>3, <1>4, <2>1, <2>2 DEF Moved, M
<1>5. CASE n # 0
  <2> DEFINE f  == L.lamports
             g  == SetBalance(f, from, Balance(L, from) - n)
             gg == SetBalance(g, to, Balance(L, to) + n)
  <2>1. M.lamports = gg
    BY <1>5 DEF Transferred
  <2>2. Balance(L, from) - n \in Nat /\ Balance(L, to) + n \in Nat
    BY <1>1
  <2>3. /\ IsFiniteSet(DOMAIN f) /\ \A b \in DOMAIN f : f[b] \in Nat
        /\ Part(f, DOMAIN f, from) = Balance(L, from)
    BY <1>1 DEF Funds, BalancesOK, Part, Balance
  <2>4. /\ IsFiniteSet(DOMAIN g) /\ \A b \in DOMAIN g : g[b] \in Nat
        /\ SumFunction(g) + Balance(L, from) = SumFunction(f) + (Balance(L, from) - n)
    BY <2>2, <2>3, SetBalanceTotal
  <2>5. Part(g, DOMAIN g, to) = Balance(L, to)
    <3>1. /\ to \in DOMAIN g <=> to \in DOMAIN f
          /\ to \in DOMAIN g => g[to] = f[to]
      BY SetBalanceFacts
    <3> HIDE DEF g
    <3> QED
      BY <3>1 DEF Part, Balance
  <2>6. /\ to \in DOMAIN gg <=> Balance(L, to) + n # 0
        /\ to \in DOMAIN gg => gg[to] = Balance(L, to) + n
    BY SetBalanceFacts
  <2> HIDE DEF g
  <2>7. /\ IsFiniteSet(DOMAIN gg)
        /\ SumFunction(gg) + Balance(L, to) = SumFunction(g) + (Balance(L, to) + n)
    BY <2>2, <2>4, <2>5, SetBalanceTotal
  <2>8. SumFunction(f) \in Nat /\ SumFunction(g) \in Nat
    BY <2>3, <2>4, SumNat DEF SumFunction
  <2>9. SumFunction(gg) \in Nat
    <3>1. \A b \in DOMAIN gg : gg[b] \in Nat
      BY <2>2, <2>4, SetBalanceTotal
    <3> QED
      BY <2>7, <3>1, SumNat DEF SumFunction
  <2> HIDE DEF gg, M, f
  <2>10. SumFunction(M.lamports) = SumFunction(L.lamports)
    BY <1>1, <2>1, <2>4, <2>7, <2>8, <2>9 DEF f
  <2>11. Balance(M, to) = Balance(L, to) + n
    BY <2>1, <2>6 DEF Balance
  <2>12. Funds(M)
    BY <1>2, <2>1, <2>7 DEF Funds
  <2> QED
    BY <1>2, <1>3, <2>10, <2>11, <2>12 DEF Moved, M
<1> QED
  BY <1>4, <1>5

(***************************************************************************)
(* What an instruction does to the balances of its caller, of its record   *)
(* and of the caller's vote account on it.                                 *)
(***************************************************************************)

\* M has the balances of L after u put that much on record id, and that much
\* on the vote account; a negative amount is what u took.
Spent(L, M, u, id, onRecord, onVote) ==
    /\ Funds(M)
    /\ SumFunction(M.lamports) = SumFunction(L.lamports)
    /\ Balance(M, Wallet(u)) = Balance(L, Wallet(u)) - (onRecord + onVote)
    /\ Balance(M, HashAddress(id)) = Balance(L, HashAddress(id)) + onRecord
    /\ Balance(M, VoteAddress(id, u)) = Balance(L, VoteAddress(id, u)) + onVote
    /\ \A a : a \notin {Wallet(u), HashAddress(id), VoteAddress(id, u)} =>
          Balance(M, a) = Balance(L, a)

\* Different seeds, different addresses.
LEMMA AddressesApart ==
    ASSUME NEW u, NEW id, NEW x, NEW i
    PROVE  /\ Wallet(u) # HashAddress(id) /\ Wallet(u) # VoteAddress(i, x)
           /\ HashAddress(id) # VoteAddress(i, x)
           /\ Wallet(u) = Wallet(x) => u = x
           /\ HashAddress(id) = HashAddress(i) => id = i
           /\ VoteAddress(id, u) = VoteAddress(i, x) => id = i /\ u = x
BY DEF Wallet, HashAddress, VoteAddress

\* One after the other.
LEMMA SpentTwice ==
    ASSUME NEW L, NEW M, NEW N, Funds(L), Funds(M), NEW u, NEW id,
           NEW a \in Int, NEW b \in Int, NEW c \in Int, NEW d \in Int,
           Spent(L, M, u, id, a, b), Spent(M, N, u, id, c, d)
    PROVE  Spent(L, N, u, id, a + c, b + d)
<1>1. \A x : Balance(L, x) \in Nat /\ Balance(M, x) \in Nat
  BY BalanceNat DEF Funds
<1>2. /\ Balance(N, Wallet(u)) = Balance(L, Wallet(u)) - ((a + c) + (b + d))
      /\ Balance(N, HashAddress(id)) = Balance(L, HashAddress(id)) + (a + c)
      /\ Balance(N, VoteAddress(id, u)) = Balance(L, VoteAddress(id, u)) + (b + d)
  BY <1>1 DEF Spent
<1> QED
  BY <1>2 DEF Spent

\* The records and the votes of a ledger have no part in it.
LEMMA SpentOnLamports ==
    ASSUME NEW L, NEW M, NEW N, NEW u, NEW id, NEW a, NEW b,
           Spent(L, M, u, id, a, b), N.lamports = M.lamports
    PROVE  Spent(L, N, u, id, a, b)
<1>1. \A x : Balance(N, x) = Balance(M, x)
  BY DEF Balance
<1>2. Funds(N)
  BY DEF Funds, BalancesOK, Spent
<1> QED
  BY <1>1, <1>2 DEF Spent

LEMMA PaidToRecord ==
    ASSUME NEW L, Funds(L), NEW u, NEW id, NEW n \in Nat, n <= Balance(L, Wallet(u))
    PROVE  LET M == Transferred(L, Wallet(u), HashAddress(id), n) IN
           Spent(L, M, u, id, n, 0) /\ M.hash = L.hash /\ M.vote = L.vote
<1> DEFINE M == Transferred(L, Wallet(u), HashAddress(id), n)
<1>1. /\ Moved(L, M, Wallet(u), HashAddress(id), n)
      /\ M.hash = L.hash /\ M.vote = L.vote
  BY AddressesApart, TransferMoves
<1>2. Balance(L, VoteAddress(id, u)) \in Nat /\ Balance(M, VoteAddress(id, u)) = Balance(L, VoteAddress(id, u))
  BY <1>1, AddressesApart, BalanceNat DEF Moved, Funds
<1> HIDE DEF M
<1> QED
  BY <1>1, <1>2 DEF Moved, Spent, M

LEMMA PaidToVote ==
    ASSUME NEW L, Funds(L), NEW u, NEW id, NEW n \in Nat, n <= Balance(L, Wallet(u))
    PROVE  LET M == Transferred(L, Wallet(u), VoteAddress(id, u), n) IN
           Spent(L, M, u, id, 0, n) /\ M.hash = L.hash /\ M.vote = L.vote
<1> DEFINE M == Transferred(L, Wallet(u), VoteAddress(id, u), n)
<1>1. /\ Moved(L, M, Wallet(u), VoteAddress(id, u), n)
      /\ M.hash = L.hash /\ M.vote = L.vote
  BY AddressesApart, TransferMoves
<1>2. Balance(L, HashAddress(id)) \in Nat /\ Balance(M, HashAddress(id)) = Balance(L, HashAddress(id))
  BY <1>1, AddressesApart, BalanceNat DEF Moved, Funds
<1> HIDE DEF M
<1> QED
  BY <1>1, <1>2 DEF Moved, Spent, M

LEMMA TakenFromRecord ==
    ASSUME NEW L, Funds(L), NEW u, NEW id, NEW n \in Nat, n <= Balance(L, HashAddress(id))
    PROVE  LET M == Transferred(L, HashAddress(id), Wallet(u), n) IN
           Spent(L, M, u, id, -n, 0) /\ M.hash = L.hash /\ M.vote = L.vote
<1> DEFINE M == Transferred(L, HashAddress(id), Wallet(u), n)
<1>1. /\ Moved(L, M, HashAddress(id), Wallet(u), n)
      /\ M.hash = L.hash /\ M.vote = L.vote
  BY AddressesApart, TransferMoves
<1>2. Balance(M, VoteAddress(id, u)) = Balance(L, VoteAddress(id, u))
  BY <1>1, AddressesApart DEF Moved
<1>3. \A a : Balance(L, a) \in Nat
  BY BalanceNat DEF Funds
<1> HIDE DEF M
<1> QED
  BY <1>1, <1>2, <1>3 DEF Moved, Spent, M

LEMMA TakenFromVote ==
    ASSUME NEW L, Funds(L), NEW u, NEW id, NEW n \in Nat, n <= Balance(L, VoteAddress(id, u))
    PROVE  LET M == Transferred(L, VoteAddress(id, u), Wallet(u), n) IN
           Spent(L, M, u, id, 0, -n) /\ M.hash = L.hash /\ M.vote = L.vote
<1> DEFINE M == Transferred(L, VoteAddress(id, u), Wallet(u), n)
<1>1. /\ Moved(L, M, VoteAddress(id, u), Wallet(u), n)
      /\ M.hash = L.hash /\ M.vote = L.vote
  BY AddressesApart, TransferMoves
<1>2. Balance(M, HashAddress(id)) = Balance(L, HashAddress(id))
  BY <1>1, AddressesApart DEF Moved
<1>3. \A a : Balance(L, a) \in Nat
  BY BalanceNat DEF Funds
<1> HIDE DEF M
<1> QED
  BY <1>1, <1>2, <1>3 DEF Moved, Spent, M

\* After a top-up the address holds a reserve.
LEMMA ToppedUp ==
    ASSUME NEW L, Funds(L), NEW a, NEW space \in Nat, NEW r \in Rates
    PROVE  /\ TopUp(L, a, space, r) \in Nat
           /\ TopUp(L, a, space, r) <= Reserve(space, r)
           /\ Balance(L, a) + TopUp(L, a, space, r) >= Reserve(space, r)
BY ReserveNat, BalanceNat DEF TopUp, Funds

LEMMA ReservePositive ==
    ASSUME NEW space \in Nat, NEW r \in Rates PROVE Reserve(space, r) > 0
<1>1. r \in Nat \ {0}
  BY RatesAssumption
<1>2. \A m \in Nat, n \in Nat \ {0} : (128 + m) * n > 0
  OBVIOUS
<1> QED
  BY <1>1, <1>2 DEF Reserve

(***************************************************************************)
(* The runtime functions.                                                  *)
(***************************************************************************)
LEMMA VoteCreatedSpends ==
    ASSUME NEW L, Funds(L), NEW u, NEW id, NEW amount, NEW deposit \in Nat,
           NEW r \in Rates, CanCreateVote(L, u, id, deposit, r)
    PROVE  LET V == VoteCreated(L, u, id, amount, deposit, r)
               t == TopUp(L, VoteAddress(id, u), VoteInfoSpace, r) IN
           /\ t \in Nat
           /\ Spent(L, V, u, id, deposit, t)
           /\ V.hash = L.hash /\ V.vote = Put(L.vote, <<id, u>>, amount)
           /\ Balance(V, VoteAddress(id, u)) > 0
<1> DEFINE t == TopUp(L, VoteAddress(id, u), VoteInfoSpace, r)
           claimed == Transferred(L, Wallet(u), VoteAddress(id, u), t)
           funded  == Transferred(claimed, Wallet(u), HashAddress(id), deposit)
           V == VoteCreated(L, u, id, amount, deposit, r)
<1>1. VoteInfoSpace \in Nat
  BY DEF VoteInfoSpace
<1>2. /\ t \in Nat
      /\ Balance(L, VoteAddress(id, u)) + t >= Reserve(VoteInfoSpace, r)
  BY <1>1, ToppedUp
<1>3. /\ Balance(L, Wallet(u)) >= t + deposit
      /\ Balance(L, Wallet(u)) \in Nat /\ Balance(L, VoteAddress(id, u)) \in Nat
  BY BalanceNat DEF CanCreateVote, Funds
<1>4. V = [hash |-> funded.hash, vote |-> Put(funded.vote, <<id, u>>, amount),
           lamports |-> funded.lamports]
  BY DEF VoteCreated, Claimed
<1> HIDE DEF t, V
<1>5. Spent(L, claimed, u, id, 0, t) /\ claimed.hash = L.hash /\ claimed.vote = L.vote
  BY <1>2, <1>3, PaidToVote
<1> HIDE DEF claimed
<1>6. Funds(claimed) /\ deposit <= Balance(claimed, Wallet(u))
  BY <1>2, <1>3, <1>5 DEF Spent
<1>7. /\ Spent(claimed, funded, u, id, deposit, 0)
      /\ funded.hash = L.hash /\ funded.vote = L.vote
  BY <1>5, <1>6, PaidToRecord
<1> HIDE DEF funded
<1>8. Spent(L, funded, u, id, 0 + deposit, t + 0)
  BY <1>2, <1>5, <1>6, <1>7, SpentTwice
<1>9. 0 + deposit = deposit /\ t + 0 = t
  BY <1>2
<1>10. Spent(L, V, u, id, deposit, t)
  BY <1>4, <1>8, <1>9, SpentOnLamports
<1>11. Reserve(VoteInfoSpace, r) > 0 /\ Reserve(VoteInfoSpace, r) \in Nat
  BY <1>1, ReservePositive, ReserveNat
<1>12. Balance(V, VoteAddress(id, u)) > 0
  BY <1>2, <1>3, <1>10, <1>11 DEF Spent
<1> QED
  BY <1>2, <1>4, <1>7, <1>10, <1>12 DEF V, t

\* M is L with a vote of u on record id more: it cost t on the record and n on
\* the vote account, and its claim is no less than t.
Bought(L, M, u, id, claim, t, n) ==
    /\ Spent(L, M, u, id, t, n)
    /\ claim \in Nat /\ t <= claim
    /\ Balance(M, VoteAddress(id, u)) > 0
    /\ M.vote = Put(L.vote, <<id, u>>, claim)
    /\ <<id, u>> \notin DOMAIN L.vote

LEMMA CreatedSpends ==
    ASSUME NEW L, Funds(L), NEW now, NEW s, Creatable(s, now), NEW u, NEW r \in Rates,
           CanCreate(L, u, s, r)
    PROVE  LET id == IdOf(s)
               R  == Reserve(Space(s.source), r)
               C  == Created(L, u, s, r) IN
           \E t, n \in Nat : Bought(L, C, u, id, R, t, n) /\ Balance(C, HashAddress(id)) >= R
<1> DEFINE id == IdOf(s)
           R  == Reserve(Space(s.source), r)
           C  == Created(L, u, s, r)
           H  == HashCreated(L, u, s, r)
           t  == TopUp(L, HashAddress(id), Space(s.source), r)
           n  == TopUp(H, VoteAddress(id, u), VoteInfoSpace, r)
           paid == Transferred(L, Wallet(u), HashAddress(id), t)
<1>1. Space(s.source) \in Nat /\ R \in Nat
  BY ReserveNat DEF Creatable
<1>2. t \in Nat /\ t <= R /\ Balance(L, HashAddress(id)) + t >= R
  BY <1>1, ToppedUp
<1>3. t <= Balance(L, Wallet(u))
  BY <1>2, BalanceNat DEF CanCreate, CanCreateHash, Funds
<1>4. Spent(L, paid, u, id, t, 0) /\ paid.vote = L.vote
  BY <1>2, <1>3, PaidToRecord
<1>5. H.vote = paid.vote /\ H.lamports = paid.lamports
  BY DEF HashCreated, Claimed
<1>6. CanCreateVote(H, u, id, 0, r) /\ C = VoteCreated(H, u, id, R, 0, r)
  BY DEF CanCreate, Created
<1> HIDE DEF id, R, C, H, t, paid
<1>7. Spent(L, H, u, id, t, 0) /\ Funds(H)
  BY <1>4, <1>5, SpentOnLamports DEF Spent
<1>8. /\ n \in Nat /\ Spent(H, C, u, id, 0, n)
      /\ C.vote = Put(L.vote, <<id, u>>, R)
      /\ Balance(C, VoteAddress(id, u)) > 0
  BY <1>4, <1>5, <1>6, <1>7, VoteCreatedSpends
<1> HIDE DEF n
<1>9. Spent(L, C, u, id, t + 0, 0 + n)
  BY <1>2, <1>7, <1>8, SpentTwice
<1>10. t + 0 = t /\ 0 + n = n
  BY <1>2, <1>8
<1>11. Spent(L, C, u, id, t, n)
  BY <1>9, <1>10
<1>12. Balance(C, HashAddress(id)) >= R
  BY <1>2, <1>11 DEF Spent
<1>13. <<id, u>> \notin DOMAIN L.vote
  BY <1>4, <1>5, <1>6 DEF CanCreateVote
<1> QED
  BY <1>1, <1>2, <1>8, <1>11, <1>12, <1>13 DEF Bought, id, R, C

LEMMA VoteAddedSpends ==
    ASSUME NEW L, Funds(L), NEW u, NEW id, NEW r \in Rates,
           Space(L.hash[id].source) \in Nat, CanAddVote(L, u, id, r, MaxVoters)
    PROVE  LET d == Reserve(Space(L.hash[id].source), r)
               A == VoteAdded(L, u, id, r) IN
           \E n \in Nat : Bought(L, A, u, id, d, d, n)
<1> DEFINE d == Reserve(Space(L.hash[id].source), r)
           V == VoteCreated(L, u, id, d, d, r)
           A == VoteAdded(L, u, id, r)
           n == TopUp(L, VoteAddress(id, u), VoteInfoSpace, r)
<1>1. d \in Nat
  BY ReserveNat
<1>2. CanCreateVote(L, u, id, d, r)
  BY DEF CanAddVote
<1>3. A.vote = V.vote /\ A.lamports = V.lamports
  BY DEF VoteAdded, WithVoters
<1> HIDE DEF d, A
<1>4. /\ n \in Nat /\ Spent(L, V, u, id, d, n)
      /\ V.vote = Put(L.vote, <<id, u>>, d) /\ Balance(V, VoteAddress(id, u)) > 0
  BY <1>1, <1>2, VoteCreatedSpends
<1> HIDE DEF n, V
<1>5. Spent(L, A, u, id, d, n) /\ Balance(A, VoteAddress(id, u)) > 0
  BY <1>3, <1>4, SpentOnLamports DEF Balance
<1>6. <<id, u>> \notin DOMAIN L.vote
  BY <1>2 DEF CanCreateVote
<1> QED
  BY <1>1, <1>3, <1>4, <1>5, <1>6 DEF Bought, d, A

\* A release gives back the claim, or all there is to the last voter.
LEMMA ReleasedSpends ==
    ASSUME NEW L, Funds(L), NEW u, NEW id, L.vote[<<id, u>>] \in Nat,
           L.vote[<<id, u>>] <= Balance(L, HashAddress(id))
    PROVE  LET m == IF L.hash[id].voters = 1 THEN Balance(L, HashAddress(id))
                    ELSE L.vote[<<id, u>>]
               n == Balance(L, VoteAddress(id, u))
               R == Released(L, u, id) IN
           /\ Spent(L, R, u, id, -m, -n)
           /\ m \in Nat /\ n \in Nat
           /\ R.vote = Drop(L.vote, <<id, u>>)
<1> DEFINE m == IF L.hash[id].voters = 1 THEN Balance(L, HashAddress(id))
                ELSE L.vote[<<id, u>>]
           n == Balance(L, VoteAddress(id, u))
           R == Released(L, u, id)
           V == VoteClosed(L, u, id)
           paid == Transferred(L, VoteAddress(id, u), Wallet(u), n)
           Kept == WithVoters(V, id, L.hash[id].voters - 1)
<1>1. m \in Nat /\ n \in Nat /\ m <= Balance(L, HashAddress(id))
  BY BalanceNat DEF Funds
<1>2. Spent(L, paid, u, id, 0, -n) /\ paid.vote = L.vote
  BY <1>1, TakenFromVote
<1>3. V.vote = Drop(paid.vote, <<id, u>>) /\ V.lamports = paid.lamports
  BY DEF VoteClosed
<1>4. Kept.vote = V.vote /\ Kept.lamports = V.lamports
  BY DEF WithVoters
<1>5. CASE L.hash[id].voters = 1
  <2> DEFINE closed == Transferred(V, HashAddress(id), Wallet(u), Balance(V, HashAddress(id)))
  <2>1. R.vote = closed.vote /\ R.lamports = closed.lamports
    BY <1>5 DEF Released, HashClosed
  <2> HIDE DEF m, n, R, V, paid, Kept
  <2>2. Spent(L, V, u, id, 0, -n) /\ Funds(V)
    BY <1>2, <1>3, SpentOnLamports DEF Spent
  <2>3. Balance(V, HashAddress(id)) = m
    BY <1>1, <1>5, <2>2, BalanceNat DEF Spent, Funds, m
  <2>4. Spent(V, closed, u, id, -m, 0) /\ closed.vote = V.vote
    BY <1>1, <2>2, <2>3, TakenFromRecord
  <2> HIDE DEF closed
  <2>5. Spent(L, R, u, id, 0 + (-m), (-n) + 0)
    <3>1. -m \in Int /\ -n \in Int
      BY <1>1
    <3> QED
      BY <2>1, <2>2, <2>4, <3>1, SpentTwice, SpentOnLamports
  <2>6. 0 + (-m) = -m /\ (-n) + 0 = -n
    BY <1>1
  <2>7. Spent(L, R, u, id, -m, -n)
    BY <2>5, <2>6
  <2> QED
    BY <1>1, <1>2, <1>3, <2>1, <2>4, <2>7 DEF m, n, R
<1>6. CASE L.hash[id].voters # 1
  <2> DEFINE freed == Transferred(Kept, HashAddress(id), Wallet(u), m)
  <2>1. R.vote = freed.vote /\ R.lamports = freed.lamports
    BY <1>6 DEF Released
  <2> HIDE DEF m, n, R, V, paid, Kept
  <2>2. Spent(L, Kept, u, id, 0, -n) /\ Funds(Kept)
    BY <1>2, <1>3, <1>4, SpentOnLamports DEF Spent
  <2>3. m <= Balance(Kept, HashAddress(id))
    BY <1>1, <2>2, BalanceNat DEF Spent, Funds
  <2>4. Spent(Kept, freed, u, id, -m, 0) /\ freed.vote = Kept.vote
    BY <1>1, <2>2, <2>3, TakenFromRecord
  <2> HIDE DEF freed
  <2>5. Spent(L, R, u, id, 0 + (-m), (-n) + 0)
    <3>1. -m \in Int /\ -n \in Int
      BY <1>1
    <3> QED
      BY <2>1, <2>2, <2>4, <3>1, SpentTwice, SpentOnLamports
  <2>6. 0 + (-m) = -m /\ (-n) + 0 = -n
    BY <1>1
  <2>7. Spent(L, R, u, id, -m, -n)
    BY <2>5, <2>6
  <2> QED
    BY <1>1, <1>2, <1>3, <1>4, <2>1, <2>4, <2>7 DEF m, n, R
<1> QED
  BY <1>5, <1>6

(***************************************************************************)
(* What changes with one vote.                                             *)
(***************************************************************************)
SameVotesElsewhere(L, M, k) ==
    /\ DOMAIN M.vote \ {k} = DOMAIN L.vote \ {k}
    /\ \A o \in DOMAIN L.vote \ {k} : M.vote[o] = L.vote[o]

LEMMA PutElsewhere ==
    ASSUME NEW L, NEW M, NEW k, NEW n, M.vote = Put(L.vote, k, n)
    PROVE  SameVotesElsewhere(L, M, k) /\ k \in DOMAIN M.vote /\ M.vote[k] = n
BY DEF SameVotesElsewhere, Put

LEMMA DropElsewhere ==
    ASSUME NEW L, NEW M, NEW k, M.vote = Drop(L.vote, k)
    PROVE  SameVotesElsewhere(L, M, k) /\ k \notin DOMAIN M.vote
BY DEF SameVotesElsewhere, Drop, Restrict

\* A vote's claim, and with what its account holds, its worth to the voter.
ClaimOf(L, k) == IF k \in DOMAIN L.vote THEN L.vote[k] ELSE 0

Worth(L, k) ==
    IF k \in DOMAIN L.vote
    THEN L.vote[k] + Balance(L, VoteAddress(k[1], k[2])) ELSE 0

\* The claims on a record are amounts, and their sum another.
LEMMA ClaimsNat ==
    ASSUME NEW L, VotesOK(L), NEW i
    PROVE  /\ Claims(L, i) \in Nat
           /\ IsFiniteSet(Votes(L, i)) /\ \A k \in Votes(L, i) : L.vote[k] \in Nat
<1>1. IsFiniteSet(Votes(L, i)) /\ \A k \in Votes(L, i) : L.vote[k] \in Nat
  BY FS_Subset DEF VotesOK, Votes
<1> QED
  BY <1>1, SumNat DEF Claims

LEMMA ClaimsChange ==
    ASSUME NEW L, VotesOK(L), NEW M, VotesOK(M), NEW id, NEW u,
           SameVotesElsewhere(L, M, <<id, u>>)
    PROVE  /\ Claims(M, id) + ClaimOf(L, <<id, u>>) = Claims(L, id) + ClaimOf(M, <<id, u>>)
           /\ \A i : i # id => Claims(M, i) = Claims(L, i)
<1> DEFINE k == <<id, u>>
<1>1. ASSUME NEW i
      PROVE  Claims(M, i) + Part(L.vote, Votes(L, i), k)
                = Claims(L, i) + Part(M.vote, Votes(M, i), k)
  <2>1. /\ Votes(M, i) \ {k} = Votes(L, i) \ {k}
        /\ \A o \in Votes(L, i) \ {k} : M.vote[o] = L.vote[o]
    BY DEF SameVotesElsewhere, Votes
  <2> QED
    BY <2>1, ClaimsNat, SumsApart DEF Claims
<1>2. \A N : Part(N.vote, Votes(N, id), k) = ClaimOf(N, k)
  BY DEF Part, Votes, ClaimOf
<1>3. ASSUME NEW i, i # id PROVE Claims(M, i) = Claims(L, i)
  <2>1. Part(L.vote, Votes(L, i), k) = 0 /\ Part(M.vote, Votes(M, i), k) = 0
    BY <1>3 DEF Part, Votes
  <2> QED
    BY <1>1, <2>1, ClaimsNat
<1> QED
  BY <1>1, <1>2, <1>3

\* What the sum in Equity adds up.
Holdings(L) ==
    [k \in DOMAIN L.vote |-> L.vote[k] + Balance(L, VoteAddress(k[1], k[2]))]

LEMMA HoldingsNat ==
    ASSUME NEW L, VotesOK(L), BalancesOK(L), NEW x
    PROVE  /\ IsFiniteSet(VotesOf(L, x))
           /\ \A k \in VotesOf(L, x) : Holdings(L)[k] \in Nat
           /\ SumFunctionOnSet(Holdings(L), VotesOf(L, x)) \in Nat
           /\ Equity(L, x) = Balance(L, Wallet(x)) + SumFunctionOnSet(Holdings(L), VotesOf(L, x))
           /\ Equity(L, x) \in Nat
<1>1. /\ IsFiniteSet(VotesOf(L, x))
      /\ \A k \in VotesOf(L, x) : Holdings(L)[k] \in Nat
  BY FS_Subset, BalanceNat DEF VotesOK, VotesOf, Holdings
<1>2. SumFunctionOnSet(Holdings(L), VotesOf(L, x)) \in Nat
  BY <1>1, SumNat
<1>3. Equity(L, x) = Balance(L, Wallet(x)) + SumFunctionOnSet(Holdings(L), VotesOf(L, x))
  BY DEF Equity, Holdings
<1> QED
  BY <1>1, <1>2, <1>3, BalanceNat

LEMMA EquityChange ==
    ASSUME NEW L, VotesOK(L), BalancesOK(L), NEW M, VotesOK(M), BalancesOK(M),
           NEW id, NEW u, NEW a \in Int, NEW b \in Int, Spent(L, M, u, id, a, b),
           SameVotesElsewhere(L, M, <<id, u>>)
    PROVE  /\ Equity(M, u) + Worth(L, <<id, u>>)
                 = (Equity(L, u) - (a + b)) + Worth(M, <<id, u>>)
           /\ \A x : x # u => Equity(M, x) = Equity(L, x)
<1> DEFINE k == <<id, u>>
<1>1. ASSUME NEW x
      PROVE  SumFunctionOnSet(Holdings(M), VotesOf(M, x)) + Part(Holdings(L), VotesOf(L, x), k)
                = SumFunctionOnSet(Holdings(L), VotesOf(L, x))
                     + Part(Holdings(M), VotesOf(M, x), k)
  <2>1. VotesOf(M, x) \ {k} = VotesOf(L, x) \ {k}
    BY DEF SameVotesElsewhere, VotesOf
  <2>2. ASSUME NEW o \in VotesOf(L, x) \ {k} PROVE Holdings(M)[o] = Holdings(L)[o]
    <3>1. o = <<o[1], o[2]>> /\ o \in DOMAIN L.vote /\ o \in DOMAIN M.vote
          /\ M.vote[o] = L.vote[o]
      BY <2>2 DEF VotesOK, VotesOf, SameVotesElsewhere
    <3>2. VoteAddress(o[1], o[2]) \notin {Wallet(u), HashAddress(id), VoteAddress(id, u)}
      BY <2>2, <3>1, AddressesApart
    <3>3. Balance(M, VoteAddress(o[1], o[2])) = Balance(L, VoteAddress(o[1], o[2]))
      BY <3>2 DEF Spent
    <3> QED
      BY <3>1, <3>3 DEF Holdings
  <2> QED
    BY <2>1, <2>2, HoldingsNat, SumsApart
<1>2. /\ Part(Holdings(L), VotesOf(L, u), k) = Worth(L, k)
      /\ Part(Holdings(M), VotesOf(M, u), k) = Worth(M, k)
  BY DEF Part, VotesOf, Worth, Holdings
<1>3. Worth(L, k) \in Nat /\ Worth(M, k) \in Nat
  BY BalanceNat DEF Worth, VotesOK
<1>4. Equity(M, u) + Worth(L, k) = (Equity(L, u) - (a + b)) + Worth(M, k)
  <2>1. Balance(M, Wallet(u)) = Balance(L, Wallet(u)) - (a + b)
    BY DEF Spent
  <2>2. Balance(L, Wallet(u)) \in Nat
    BY BalanceNat
  <2> QED
    BY <1>1, <1>2, <1>3, <2>1, <2>2, HoldingsNat
<1>5. ASSUME NEW x, x # u PROVE Equity(M, x) = Equity(L, x)
  <2>1. Part(Holdings(L), VotesOf(L, x), k) = 0 /\ Part(Holdings(M), VotesOf(M, x), k) = 0
    BY <1>5 DEF Part, VotesOf
  <2>2. Wallet(x) \notin {Wallet(u), HashAddress(id), VoteAddress(id, u)}
    BY <1>5, AddressesApart
  <2>3. Balance(M, Wallet(x)) = Balance(L, Wallet(x))
    BY <2>2 DEF Spent
  <2> QED
    BY <1>1, <2>1, <2>3, HoldingsNat
<1> QED
  BY <1>4, <1>5

(***************************************************************************)
(* The books: what is kept, and what a step owes.                          *)
(***************************************************************************)

\* ClaimsCovered of any ledger.
Covered(L) ==
    /\ \A i \in DOMAIN L.hash : Balance(L, HashAddress(i)) >= Claims(L, i)
    /\ \A k \in DOMAIN L.vote : Balance(L, VoteAddress(k[1], k[2])) > 0

Books(L) == IsFiniteSet(DOMAIN L.lamports) /\ Covered(L)

\* Nothing is created, and nobody pays for somebody else's step, or for good.
Fair(L, M) ==
    /\ SumFunction(M.lamports) = SumFunction(L.lamports)
    /\ \A x \in Users : Equity(M, x) >= Equity(L, x)

\* What has to be seen of record id and of the vote of u on it: the rest of
\* the books is as it was.
LEMMA BooksKept ==
    ASSUME NEW L, VotesOK(L), NEW M, VotesOK(M), NEW id, NEW u, NEW a, NEW b,
           Covered(L), Spent(L, M, u, id, a, b), SameVotesElsewhere(L, M, <<id, u>>),
           \A i \in DOMAIN M.hash : i # id => i \in DOMAIN L.hash,
           id \in DOMAIN M.hash => Balance(M, HashAddress(id)) >= Claims(M, id),
           <<id, u>> \in DOMAIN M.vote => Balance(M, VoteAddress(id, u)) > 0
    PROVE  Books(M)
<1>1. ASSUME NEW i \in DOMAIN M.hash, i # id
      PROVE  Balance(M, HashAddress(i)) >= Claims(M, i)
  <2>1. HashAddress(i) \notin {Wallet(u), HashAddress(id), VoteAddress(id, u)}
    BY <1>1, AddressesApart
  <2>2. Balance(M, HashAddress(i)) = Balance(L, HashAddress(i))
    BY <2>1 DEF Spent
  <2>3. Claims(M, i) = Claims(L, i)
    BY <1>1, ClaimsChange
  <2> QED
    BY <1>1, <2>2, <2>3 DEF Covered
<1>2. ASSUME NEW k \in DOMAIN M.vote, k # <<id, u>>
      PROVE  Balance(M, VoteAddress(k[1], k[2])) > 0
  <2>1. k = <<k[1], k[2]>> /\ k \in DOMAIN L.vote
    BY <1>2 DEF VotesOK, SameVotesElsewhere
  <2>2. VoteAddress(k[1], k[2]) \notin {Wallet(u), HashAddress(id), VoteAddress(id, u)}
    BY <1>2, <2>1, AddressesApart
  <2>3. Balance(M, VoteAddress(k[1], k[2])) = Balance(L, VoteAddress(k[1], k[2]))
    BY <2>2 DEF Spent
  <2> QED
    BY <2>1, <2>3 DEF Covered
<1>3. IsFiniteSet(DOMAIN M.lamports)
  BY DEF Spent, Funds
<1> QED
  BY <1>1, <1>2, <1>3 DEF Books, Covered

\* And of the worth of that vote.
LEMMA FairIfWorth ==
    ASSUME NEW L, VotesOK(L), BalancesOK(L), NEW M, VotesOK(M), BalancesOK(M),
           NEW id, NEW u, NEW a \in Int, NEW b \in Int, Spent(L, M, u, id, a, b),
           SameVotesElsewhere(L, M, <<id, u>>),
           Worth(M, <<id, u>>) >= Worth(L, <<id, u>>) + (a + b)
    PROVE  Fair(L, M)
<1>1. \A x : Equity(L, x) \in Nat /\ Equity(M, x) \in Nat
  BY HoldingsNat
<1>2. Worth(L, <<id, u>>) \in Nat /\ Worth(M, <<id, u>>) \in Nat
  BY BalanceNat DEF Worth, VotesOK
<1>3. Equity(M, u) >= Equity(L, u)
  BY <1>1, <1>2, EquityChange
<1>4. \A x : x # u => Equity(M, x) >= Equity(L, x)
  BY <1>1, EquityChange
<1>5. SumFunction(M.lamports) = SumFunction(L.lamports)
  BY DEF Spent
<1> QED
  BY <1>3, <1>4, <1>5 DEF Fair

(***************************************************************************)
(* The instructions keep the books, and are fair.                          *)
(***************************************************************************)

\* A vote is worth what it cost, and adds its claim to the record's.
LEMMA BoughtFair ==
    ASSUME NEW L, VotesOK(L), BalancesOK(L), NEW M, VotesOK(M), BalancesOK(M),
           NEW id, NEW u, NEW claim, NEW t \in Nat, NEW n \in Nat,
           Bought(L, M, u, id, claim, t, n)
    PROVE  /\ Fair(L, M)
           /\ Claims(M, id) = Claims(L, id) + claim
<1> DEFINE k == <<id, u>>
<1>1. SameVotesElsewhere(L, M, k) /\ k \in DOMAIN M.vote /\ M.vote[k] = claim
  BY PutElsewhere DEF Bought
<1>2. ClaimOf(L, k) = 0 /\ ClaimOf(M, k) = claim
  BY <1>1 DEF ClaimOf, Bought
<1>3. Claims(M, id) + 0 = Claims(L, id) + claim
  BY <1>1, <1>2, ClaimsChange
<1>4. Claims(M, id) = Claims(L, id) + claim
  BY <1>3, ClaimsNat
<1>5. Worth(L, k) = 0 /\ Worth(M, k) = claim + Balance(M, VoteAddress(id, u))
  BY <1>1 DEF Worth, Bought
<1>6. /\ Balance(M, VoteAddress(id, u)) = Balance(L, VoteAddress(id, u)) + n
      /\ Balance(L, VoteAddress(id, u)) \in Nat
      /\ claim \in Nat /\ t <= claim
  BY BalanceNat DEF Bought, Spent
<1> HIDE DEF k
<1>7. Worth(M, k) >= Worth(L, k) + (t + n)
  BY <1>5, <1>6
<1>8. Fair(L, M)
  <2>1. t \in Int /\ n \in Int /\ Spent(L, M, u, id, t, n)
    BY DEF Bought
  <2> QED
    BY <1>1, <1>7, <2>1, FairIfWorth DEF k
<1> QED
  BY <1>4, <1>8

\* RecordWriter::create_with_initial_vote: the first claim is the reserve,
\* whoever paid for it.
LEMMA CreatedFair ==
    ASSUME NEW L, NEW now \in Nat, LedgerOK(L, now), Books(L),
           NEW s, Creatable(s, now), NEW u \in Users, NEW r \in Rates,
           CanCreate(L, u, s, r)
    PROVE  Books(Created(L, u, s, r)) /\ Fair(L, Created(L, u, s, r))
<1> DEFINE id == IdOf(s)
           k  == <<id, u>>
           R  == Reserve(Space(s.source), r)
           C  == Created(L, u, s, r)
<1>1. Funds(L) /\ Covered(L) /\ VotesOK(L) /\ BalancesOK(L)
  BY DEF LedgerOK, Books, Funds
<1>2. VotesOK(C) /\ BalancesOK(C)
  BY CreatedOK DEF LedgerOK
<1>3. id \notin DOMAIN L.hash /\ DOMAIN C.hash = DOMAIN L.hash \cup {id}
  <2> DEFINE rec == [hash |-> s.hash, source |-> s.source,
                     voters |-> 1, created_at |-> s.created_at]
  <2>1. id \notin DOMAIN L.hash /\ C.hash = Put(L.hash, id, rec)
    BY CreatedOK
  <2> HIDE DEF C, id, rec
  <2> QED
    BY <2>1 DEF Put
<1>4. \E t, n \in Nat : Bought(L, C, u, id, R, t, n) /\ Balance(C, HashAddress(id)) >= R
  BY <1>1, CreatedSpends
<1> HIDE DEF id, R, C
<1>5. PICK t \in Nat, n \in Nat :
         Bought(L, C, u, id, R, t, n) /\ Balance(C, HashAddress(id)) >= R
  BY <1>4
<1>6. Fair(L, C) /\ Claims(C, id) = Claims(L, id) + R
  BY <1>1, <1>2, <1>5, BoughtFair
<1>7. Balance(C, HashAddress(id)) >= Claims(C, id)
  <2>1. Votes(L, id) = {}
    BY <1>3 DEF LedgerOK, CountersOK, Votes
  <2>2. Claims(L, id) = 0
    BY <2>1, SumOfNone DEF Claims
  <2>3. R \in Nat
    BY <1>5 DEF Bought
  <2> QED
    BY <1>5, <1>6, <2>2, <2>3
<1>8. /\ SameVotesElsewhere(L, C, k) /\ Spent(L, C, u, id, t, n)
      /\ Balance(C, VoteAddress(id, u)) > 0
  BY <1>5, PutElsewhere DEF Bought
<1>9. Books(C)
  BY <1>1, <1>2, <1>3, <1>7, <1>8, BooksKept
<1> QED
  BY <1>6, <1>9 DEF C

\* RecordWriter::add_vote: a deposit is a claim of as much.
LEMMA VoteAddedFair ==
    ASSUME NEW L, NEW now \in Nat, LedgerOK(L, now), Books(L),
           NEW u \in Users, NEW id, NEW r \in Rates, CanAddVote(L, u, id, r, MaxVoters)
    PROVE  Books(VoteAdded(L, u, id, r)) /\ Fair(L, VoteAdded(L, u, id, r))
<1> DEFINE k == <<id, u>>
           d == Reserve(Space(L.hash[id].source), r)
           A == VoteAdded(L, u, id, r)
<1>1. Funds(L) /\ Covered(L) /\ VotesOK(L) /\ BalancesOK(L)
  BY DEF LedgerOK, Books, Funds
<1>2. id \in DOMAIN L.hash /\ Space(L.hash[id].source) \in Nat
  BY DEF CanAddVote, Live, LedgerOK, RecordsOK
<1>3. VotesOK(A) /\ BalancesOK(A) /\ DOMAIN A.hash = DOMAIN L.hash
  BY VoteAddedOK DEF LedgerOK
<1>4. \E n \in Nat : Bought(L, A, u, id, d, d, n)
  BY <1>1, <1>2, VoteAddedSpends
<1> HIDE DEF d, A
<1>5. PICK n \in Nat : Bought(L, A, u, id, d, d, n)
  BY <1>4
<1>6. d \in Nat
  BY <1>5 DEF Bought
<1>7. Fair(L, A) /\ Claims(A, id) = Claims(L, id) + d
  BY <1>1, <1>3, <1>5, <1>6, BoughtFair
<1>8. /\ SameVotesElsewhere(L, A, k) /\ Spent(L, A, u, id, d, n)
      /\ Balance(A, VoteAddress(id, u)) > 0
  BY <1>5, PutElsewhere DEF Bought
<1>9. Balance(A, HashAddress(id)) >= Claims(A, id)
  <2>1. Claims(L, id) \in Nat
    BY <1>1, ClaimsNat
  <2>2. /\ Balance(A, HashAddress(id)) = Balance(L, HashAddress(id)) + d
        /\ Balance(L, HashAddress(id)) \in Nat
        /\ Balance(L, HashAddress(id)) >= Claims(L, id)
    BY <1>1, <1>2, <1>8, BalanceNat DEF Spent, Covered
  <2> QED
    BY <1>6, <1>7, <2>1, <2>2
<1>10. Books(A)
  BY <1>1, <1>3, <1>8, <1>9, BooksKept
<1> QED
  BY <1>7, <1>10 DEF A

\* ValidatedVote::release: the claim comes back, and the books cover it.
LEMMA ReleasedFair ==
    ASSUME NEW L, NEW now \in Nat, LedgerOK(L, now), Books(L),
           NEW u \in Users, NEW id, NEW r \in Rates, CanRelease(L, u, id, r)
    PROVE  Books(Released(L, u, id)) /\ Fair(L, Released(L, u, id))
<1> DEFINE k == <<id, u>>
           claim == L.vote[k]
           R == Released(L, u, id)
           m == IF L.hash[id].voters = 1 THEN Balance(L, HashAddress(id)) ELSE claim
           n == Balance(L, VoteAddress(id, u))
<1>1. Funds(L) /\ Covered(L) /\ VotesOK(L) /\ BalancesOK(L)
  BY DEF LedgerOK, Books, Funds
<1>2. /\ VotesOK(R) /\ BalancesOK(R)
      /\ DOMAIN R.hash \subseteq DOMAIN L.hash
      /\ L.hash[id].voters = 1 => id \notin DOMAIN R.hash
  <2>1. LedgerOK(R, now) /\ WithoutVote(L, R, u, id)
    BY ReleasedOK
  <2> HIDE DEF R
  <2>2. DOMAIN R.vote = DOMAIN L.vote \ {k}
    BY <2>1 DEF WithoutVote
  <2>3. ASSUME L.hash[id].voters = 1, id \in DOMAIN R.hash PROVE FALSE
    <3>1. id \in DOMAIN L.hash /\ k \in Votes(L, id) /\ IsFiniteSet(Votes(L, id))
      BY <1>1, ClaimsNat DEF CanRelease, Live, Votes
    <3>2. Cardinality(Votes(L, id)) = 1
      BY <2>3, <3>1 DEF LedgerOK, CountersOK
    <3>3. Votes(L, id) = {k}
      <4>1. Cardinality(Votes(L, id) \ {k}) = 0 /\ IsFiniteSet(Votes(L, id) \ {k})
        BY <3>1, <3>2, FS_RemoveElement
      <4> QED
        BY <3>1, <4>1, FS_EmptySet
    <3> QED
      BY <2>1, <2>3, <3>3 DEF WithoutVote
  <2> QED
    BY <2>1, <2>3 DEF LedgerOK, WithoutVote
<1>3. /\ id \in DOMAIN L.hash /\ k \in DOMAIN L.vote /\ k \in Votes(L, id)
      /\ claim \in Nat /\ n \in Nat
  BY <1>1, BalanceNat DEF CanRelease, Live, Votes, VotesOK
<1>4. claim <= Claims(L, id) /\ claim <= Balance(L, HashAddress(id))
  <2>1. /\ Claims(L, id) = claim + SumFunctionOnSet(L.vote, Votes(L, id) \ {k})
        /\ SumFunctionOnSet(L.vote, Votes(L, id) \ {k}) \in Nat
    BY <1>1, <1>3, ClaimsNat, SumIsPartAndRest DEF Claims, Part
  <2>2. Balance(L, HashAddress(id)) >= Claims(L, id) /\ Balance(L, HashAddress(id)) \in Nat
    BY <1>1, <1>3, BalanceNat DEF Covered
  <2> QED
    BY <1>3, <2>1, <2>2
<1>5. /\ Spent(L, R, u, id, -m, -n) /\ m \in Nat /\ R.vote = Drop(L.vote, k)
  BY <1>1, <1>3, <1>4, ReleasedSpends
<1>6. SameVotesElsewhere(L, R, k) /\ k \notin DOMAIN R.vote
  BY <1>5, DropElsewhere
<1>7. claim <= m
  BY <1>3, <1>4
<1>8. L.hash[id].voters # 1 => m = claim
  OBVIOUS
<1> HIDE DEF R, m
<1>9. ASSUME id \in DOMAIN R.hash PROVE Balance(R, HashAddress(id)) >= Claims(R, id)
  <2>1. m = claim
    BY <1>2, <1>8, <1>9
  <2>2. ClaimOf(L, k) = claim /\ ClaimOf(R, k) = 0
    BY <1>3, <1>6 DEF ClaimOf
  <2>3. Claims(L, id) \in Nat /\ Claims(R, id) \in Nat
    BY <1>1, <1>2, ClaimsNat
  <2>4. Claims(R, id) + claim = Claims(L, id) + 0
    BY <1>1, <1>2, <1>6, <2>2, ClaimsChange
  <2>5. /\ Balance(R, HashAddress(id)) = Balance(L, HashAddress(id)) + (-m)
        /\ Balance(L, HashAddress(id)) \in Nat
        /\ Balance(L, HashAddress(id)) >= Claims(L, id)
    BY <1>1, <1>3, <1>5, BalanceNat DEF Spent, Covered
  <2> HIDE DEF claim
  <2> QED
    BY <1>3, <2>1, <2>3, <2>4, <2>5
<1>10. Books(R)
  BY <1>1, <1>2, <1>5, <1>6, <1>9, BooksKept
<1>11. Worth(R, k) >= Worth(L, k) + ((-m) + (-n))
  <2>1. Worth(R, k) = 0 /\ Worth(L, k) = claim + n
    BY <1>3, <1>6 DEF Worth
  <2> HIDE DEF claim, n
  <2> QED
    BY <1>3, <1>5, <1>7, <2>1
<1>12. Fair(L, R)
  <2>1. -m \in Int /\ -n \in Int
    BY <1>3, <1>5
  <2> QED
    BY <1>1, <1>2, <1>5, <1>6, <1>11, <2>1, FairIfWorth
<1> QED
  BY <1>10, <1>12 DEF R

(***************************************************************************)
(* The invariant.                                                          *)
(***************************************************************************)
EconomyInv == Inv /\ Books(ledger)

\* What a step does to the books; a gift changes what its giver owns.
Step ==
    /\ Books(ledger')
    /\ SumFunction(ledger.lamports)' = SumFunction(ledger.lamports)
    /\ SomeGift \/ \A x \in Users : Equity(ledger', x) >= Equity(ledger, x)

LEMMA FairStep ==
    ASSUME NEW L, Commit(L), Books(L), Fair(ledger, L) PROVE Step
<1>1. ledger' = L
  BY DEF Commit
<1> QED
  BY <1>1 DEF Step, Fair

LEMMA CreateStep ==
    ASSUME EconomyInv, NEW u \in Users, NEW s, Creatable(s, clock), Create(u, s)
    PROVE  Step
<1>1. LedgerOK(ledger, clock) /\ clock \in Nat /\ rate \in Rates /\ Books(ledger)
  BY InvIsLedgerOK DEF EconomyInv
<1>2. CanCreate(ledger, u, s, rate) /\ Commit(Created(ledger, u, s, rate))
  BY DEF Create
<1>3. /\ Books(Created(ledger, u, s, rate))
      /\ Fair(ledger, Created(ledger, u, s, rate))
  BY <1>1, <1>2, CreatedFair
<1> QED
  BY <1>2, <1>3, FairStep

\* A migrated vote is a creation, then a release.
LEMMA MigrationStep ==
    ASSUME EconomyInv, NEW u \in Users, NEW i \in DOMAIN ledger.hash, NEW p,
           BranchTakingVote(u, i, p)
    PROVE  Step
<1> DEFINE s == Child(i, p)
           C == Created(ledger, u, s, rate)
           R == Released(C, u, i)
<1>1. LedgerOK(ledger, clock) /\ clock \in Nat /\ rate \in Rates /\ Books(ledger)
  BY InvIsLedgerOK DEF EconomyInv
<1>2. /\ Creatable(s, clock) /\ CanCreate(ledger, u, s, rate)
      /\ CanRelease(C, u, i, rate) /\ Commit(R)
  BY CreatableChild DEF EconomyInv, BranchTakingVote
<1> HIDE DEF s
<1>3. LedgerOK(C, clock) /\ Books(C) /\ Fair(ledger, C)
  BY <1>1, <1>2, CreatedOK, CreatedFair
<1> HIDE DEF C
<1>4. LedgerOK(R, clock) /\ Books(R) /\ Fair(C, R)
  BY <1>1, <1>2, <1>3, ReleasedOK, ReleasedFair
<1> HIDE DEF R
<1>5. \A x : Equity(ledger, x) \in Nat /\ Equity(C, x) \in Nat /\ Equity(R, x) \in Nat
  BY <1>1, <1>3, <1>4, HoldingsNat DEF LedgerOK
<1>6. Fair(ledger, R)
  BY <1>3, <1>4, <1>5 DEF Fair
<1> QED
  BY <1>2, <1>4, <1>6, FairStep

\* A gift can only raise what a record or a vote account holds.
LEMMA GiftStep ==
    ASSUME EconomyInv, NEW u \in Users, NEW a \in GiftTargets, NEW n \in Gifts,
           Gift(u, a, n)
    PROVE  Books(ledger') /\ SumFunction(ledger.lamports)' = SumFunction(ledger.lamports)
<1> DEFINE L == ledger
           M == ledger'
<1>1. Funds(L) /\ VotesOK(L) /\ Covered(L)
  BY InvIsLedgerOK DEF EconomyInv, LedgerOK, Books, Funds
<1>2. n \in Nat /\ n <= Balance(L, Wallet(u)) /\ M = Transferred(L, Wallet(u), a, n)
  BY <1>1, GiftsAssumption, BalanceNat DEF Gift, Funds
<1>3. Wallet(u) # a
  BY AddressesApart DEF GiftTargets
<1>4. Moved(L, M, Wallet(u), a, n) /\ M.hash = L.hash /\ M.vote = L.vote
  BY <1>1, <1>2, <1>3, TransferMoves
<1>5. \A b : Balance(L, b) \in Nat
  BY <1>1, BalanceNat DEF Funds
<1> HIDE DEF L, M
<1>6. ASSUME NEW b, b # Wallet(u) PROVE Balance(M, b) >= Balance(L, b)
  BY <1>2, <1>4, <1>5, <1>6 DEF Moved
<1>7. ASSUME NEW i PROVE Claims(M, i) = Claims(L, i) /\ Claims(L, i) \in Nat
  BY <1>1, <1>4, ClaimsNat DEF Claims, Votes
<1>8. \A i \in DOMAIN M.hash : Balance(M, HashAddress(i)) >= Claims(M, i)
  <2> TAKE i \in DOMAIN M.hash
  <2>1. Balance(M, HashAddress(i)) >= Balance(L, HashAddress(i))
    BY <1>6, AddressesApart
  <2>2. Balance(L, HashAddress(i)) >= Claims(L, i)
    BY <1>1, <1>4 DEF Covered
  <2>3. Balance(M, HashAddress(i)) \in Nat
    BY <1>4, BalanceNat DEF Moved, Funds
  <2> QED
    BY <1>5, <1>7, <2>1, <2>2, <2>3
<1>9. \A k \in DOMAIN M.vote : Balance(M, VoteAddress(k[1], k[2])) > 0
  <2> TAKE k \in DOMAIN M.vote
  <2> DEFINE v == VoteAddress(k[1], k[2])
  <2>1. Balance(M, v) >= Balance(L, v)
    BY <1>6, AddressesApart
  <2>2. Balance(L, v) > 0
    BY <1>1, <1>4 DEF Covered
  <2>3. Balance(M, v) \in Nat
    BY <1>4, BalanceNat DEF Moved, Funds
  <2> HIDE DEF v
  <2>4. Balance(M, v) > 0
    BY <1>5, <2>1, <2>2, <2>3
  <2> QED
    BY <2>4 DEF v
<1> QED
  BY <1>4, <1>8, <1>9 DEF Books, Covered, Moved, Funds, L, M

\* Steps that leave the accounts alone.
LEMMA NoStep == ASSUME EconomyInv, UNCHANGED ledger PROVE Step
<1>1. VotesOK(ledger) /\ BalancesOK(ledger)
  BY InvIsLedgerOK DEF EconomyInv, LedgerOK
<1>2. \A x : Equity(ledger, x) >= Equity(ledger, x)
  BY <1>1, HoldingsNat
<1>3. ledger' = ledger
  OBVIOUS
<1> QED
  BY <1>2, <1>3 DEF Step, EconomyInv

LEMMA EveryStep == EconomyInv /\ [Next]_vars => Step
<1> SUFFICES ASSUME EconomyInv, [Next]_vars PROVE Step
  OBVIOUS
<1>0. Inv /\ LedgerOK(ledger, clock) /\ clock \in Nat /\ rate \in Rates /\ Books(ledger)
  BY InvIsLedgerOK DEF EconomyInv
<1>1. ASSUME NEW u \in Users, NEW h \in RawHashes, Register(u, h) PROVE Step
  BY <1>0, <1>1, CreatableRaw, CreateStep DEF Register
<1>2. ASSUME NEW u \in Users, NEW a \in Accounts, AccountHash(u, a) PROVE Step
  BY <1>0, <1>2, CreatableAccount, CreateStep DEF AccountHash
<1>3. ASSUME NEW u \in Users, NEW i \in DOMAIN ledger.hash, Vote(u, i) PROVE Step
  BY <1>0, <1>3, VoteAddedFair, FairStep DEF Vote
<1>4. ASSUME NEW u \in Users, NEW i \in DOMAIN ledger.hash, Unvote(u, i) PROVE Step
  BY <1>0, <1>4, ReleasedFair, FairStep DEF Unvote
<1>5. ASSUME NEW u \in Users, NEW i \in DOMAIN ledger.hash, NEW p \in Payloads,
             Branch(u, i, p)
      PROVE  Step
  BY <1>0, <1>5, CreatableChild, CreateStep DEF Branch
<1>6. ASSUME NEW u \in Users, NEW i \in DOMAIN ledger.hash, NEW p \in Payloads,
             BranchTakingVote(u, i, p)
      PROVE  Step
  BY <1>6, MigrationStep
<1>7. ASSUME NEW u \in Users, NEW ids \in MemberLists, Batch(u, ids) PROVE Step
  BY <1>0, <1>7, CreatableBatch, CreateStep DEF Batch
<1>8. ASSUME NEW u \in Users, NEW ids \in MemberLists, Pack(u, ids) PROVE Step
  BY <1>0, <1>8, CreatablePack, CreateStep DEF Pack
<1>9. CASE Tick
  BY <1>9, NoStep DEF Tick
<1>10. ASSUME NEW r \in Rates, RentChange(r) PROVE Step
  BY <1>10, NoStep DEF RentChange
<1>11. ASSUME NEW a \in Accounts, NEW v \in 0..MaxVersion, AccountChange(a, v) PROVE Step
  BY <1>11, NoStep DEF AccountChange
<1>12. ASSUME NEW u \in Users, NEW a \in GiftTargets, NEW n \in Gifts, Gift(u, a, n)
       PROVE  Step
  BY <1>12, GiftStep DEF Step, SomeGift
<1>13. CASE UNCHANGED vars
  BY <1>13, NoStep DEF vars
<1> QED
  BY <1>1, <1>2, <1>3, <1>4, <1>5, <1>6, <1>7, <1>8, <1>9, <1>10, <1>11, <1>12, <1>13
     DEF Next, SomeGift

LEMMA NextKeepsEconomy == EconomyInv /\ [Next]_vars => EconomyInv'
BY NextKeepsInv, EveryStep DEF EconomyInv, Step

\* Each user has a wallet, and there is nothing else.
LEMMA FirstBalances ==
    ASSUME Init
    PROVE  Books(ledger) /\ SumFunction(ledger.lamports) = Cardinality(Users) * Endowment
<1> DEFINE w == [u \in Users |-> Wallet(u)]
<1>1. ledger.hash = <<>> /\ ledger.vote = <<>>
      /\ ledger.lamports = [a \in Wallets |-> Endowment]
  BY DEF Init
<1>2. w \in Bijection(Users, Wallets)
  <2>1. w \in [Users -> Wallets]
    BY DEF Wallets
  <2>2. \A a, b \in Users : w[a] = w[b] => a = b
    BY AddressesApart
  <2>3. \A x \in Wallets : \E a \in Users : w[a] = x
    BY DEF Wallets
  <2> HIDE DEF w
  <2> QED
    BY <2>1, <2>2, <2>3 DEF Bijection, Injection, Surjection, IsInjective
<1>3. IsFiniteSet(Wallets) /\ Cardinality(Wallets) = Cardinality(Users)
  BY <1>2, UsersAssumption, FS_Bijection DEF ExistsBijection
<1>4. SumFunction(ledger.lamports) = Cardinality(Users) * Endowment
  BY <1>1, <1>3, BoundsAssumption, SumOfEqual DEF SumFunction
<1> QED
  BY <1>1, <1>3, <1>4 DEF Books, Covered

LEMMA InitEconomy == Init => EconomyInv
BY InitInv, FirstBalances DEF EconomyInv

\* Two claims of a record are both within what it holds.
LEMMA ExitIsOpen == ASSUME EconomyInv PROVE ExitOpen
<1>1. LedgerOK(ledger, clock) /\ rate \in Rates /\ Covered(ledger)
  BY InvIsLedgerOK DEF EconomyInv, Books
<1>2. VotesOK(ledger) /\ BalancesOK(ledger)
  BY <1>1 DEF LedgerOK
<1> SUFFICES ASSUME NEW k \in DOMAIN ledger.vote,
                    \/ Votes(ledger, k[1]) = {k}
                    \/ \E o \in Votes(ledger, k[1]) \ {k} :
                          ledger.vote[o] >= Reserve(Space(ledger.hash[k[1]].source), rate)
             PROVE  CanRelease(ledger, k[2], k[1], rate)
  BY DEF ExitOpen
<1> DEFINE i == k[1]
           R == Reserve(Space(ledger.hash[i].source), rate)
<1>3. k = <<i, k[2]>> /\ k \in Votes(ledger, i) /\ i \in DOMAIN ledger.hash
  BY <1>1, <1>2 DEF VotesOK, Votes, LedgerOK, CountersOK
<1>4. Live(ledger, i) /\ Space(ledger.hash[i].source) \in Nat
  BY <1>1, <1>3, BoundsAssumption DEF LedgerOK, RecordsOK, Live
<1>5. CASE Votes(ledger, i) = {k}
  <2>1. ledger.hash[i].voters = 1
    BY <1>1, <1>3, <1>5, FS_Singleton DEF LedgerOK, CountersOK
  <2> QED
    BY <1>3, <1>4, <2>1 DEF CanRelease
<1>6. ASSUME NEW o \in Votes(ledger, i) \ {k}, ledger.vote[o] >= R
      PROVE  CanRelease(ledger, k[2], i, rate)
  <2>1. /\ ledger.vote[k] \in Nat /\ ledger.vote[o] \in Nat
        /\ Claims(ledger, i) >= ledger.vote[k] + ledger.vote[o]
    BY <1>2, <1>3, ClaimsNat, SumHasBoth DEF Claims
  <2>2. /\ Balance(ledger, HashAddress(i)) >= Claims(ledger, i)
        /\ Balance(ledger, HashAddress(i)) \in Nat
        /\ Claims(ledger, i) \in Nat
        /\ R \in Nat
    BY <1>1, <1>2, <1>3, <1>4, BalanceNat, ClaimsNat, ReserveNat DEF Covered
  <2> HIDE DEF R
  <2>3. Balance(ledger, HashAddress(i)) >= ledger.vote[k] + R
    BY <1>6, <2>1, <2>2
  <2>4. RefundKeepsReserve(ledger, i, ledger.vote[k], rate)
    BY <2>3 DEF RefundKeepsReserve, R
  <2> HIDE DEF i
  <2> QED
    BY <1>3, <1>4, <2>4 DEF CanRelease
<1> QED
  BY <1>5, <1>6

(***************************************************************************)
(* The theorems.                                                           *)
(***************************************************************************)

\* However many accounts there are, no instruction creates a lamport or loses
\* one: the balances add up to what the wallets had at first.
THEOREM TotalIsConserved == Spec => []Conservation
<1>1. Init => EconomyInv /\ Conservation
  BY InitEconomy, FirstBalances DEF Conservation
<1>2. EconomyInv /\ Conservation /\ [Next]_vars => EconomyInv' /\ Conservation'
  <2> SUFFICES ASSUME EconomyInv, Conservation, [Next]_vars
               PROVE  EconomyInv' /\ Conservation'
    OBVIOUS
  <2>1. Step
    BY EveryStep
  <2>2. SumFunction(ledger.lamports)' = Cardinality(Users) * Endowment
    BY <2>1 DEF Step, Conservation
  <2> QED
    BY <2>2, NextKeepsEconomy DEF Conservation
<1> QED
  BY <1>1, <1>2, PTL DEF Spec

\* A record holds the sum of the claims on it at every rent price and
\* whatever was sent to its address, and a vote account always has something
\* to give back.
THEOREM RecordsCoverClaims == Spec => []ClaimsCovered
<1>1. EconomyInv => ClaimsCovered
  BY DEF EconomyInv, Books, Covered, ClaimsCovered
<1> QED
  BY <1>1, InitEconomy, NextKeepsEconomy, PTL DEF Spec

\* The last voter may always leave, and so may anybody next to a claim that is
\* worth the reserve of today.
THEOREM ExitStaysOpen == Spec => []ExitOpen
<1>1. EconomyInv => ExitOpen
  BY ExitIsOpen
<1> QED
  BY <1>1, InitEconomy, NextKeepsEconomy, PTL DEF Spec

\* No instruction leaves anybody with less than they had, the caller and all
\* others included.
THEOREM InstructionsCostNothing == Spec => NobodyLoses
<1>1. EconomyInv /\ [Next]_vars
         => [SomeGift \/ \A u \in Users : Equity(ledger', u) >= Equity(ledger, u)]_vars
  BY EveryStep DEF Step
<1> QED
  BY <1>1, InitEconomy, NextKeepsEconomy, PTL DEF Spec, NobodyLoses
=============================================================================
