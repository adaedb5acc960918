--------------------------- MODULE Records_proofs ---------------------------
(***************************************************************************)
(* Theorems about Records for every value of its constants: its types and  *)
(* counters, the history it keeps, and that it implements Witnesses.       *)
(***************************************************************************)
EXTENDS RecordsImplementWitnesses, FiniteSetTheorems, TLAPS

(***************************************************************************)
(* Amounts and balances.                                                   *)
(***************************************************************************)

\* A reserve is an amount.
LEMMA ReserveNat ==
    ASSUME NEW space \in Nat, NEW r \in Rates
    PROVE  Reserve(space, r) \in Nat
<1>1. r \in Nat
  BY RatesAssumption
<1>2. \A m, n \in Nat : (128 + m) * n \in Nat
  OBVIOUS
<1> QED
  BY <1>1, <1>2 DEF Reserve

\* The balance of any address is an amount.
LEMMA BalanceNat ==
    ASSUME NEW L, BalancesOK(L), NEW a
    PROVE  Balance(L, a) \in Nat
BY DEF Balance, BalancesOK

\* What SetBalance writes, and what it leaves.
LEMMA SetBalanceFacts ==
    ASSUME NEW f, NEW a, NEW n
    PROVE  /\ \A b : b \in DOMAIN SetBalance(f, a, n)
                       <=> (b \in DOMAIN f /\ b # a) \/ (b = a /\ n # 0)
           /\ \A b \in DOMAIN SetBalance(f, a, n) :
                 SetBalance(f, a, n)[b] = IF b = a THEN n ELSE f[b]
<1>1. CASE n = 0
  BY <1>1 DEF SetBalance, Drop, Restrict
<1>2. CASE n # 0
  BY <1>2 DEF SetBalance, Put
<1> QED
  BY <1>1, <1>2

\* A transfer of no more than there is leaves balances, and touches neither
\* records nor votes.
LEMMA TransferredOK ==
    ASSUME NEW L, BalancesOK(L), NEW from, NEW to, from # to,
           NEW n \in Nat, n <= Balance(L, from)
    PROVE  /\ BalancesOK(Transferred(L, from, to, n))
           /\ Transferred(L, from, to, n).hash = L.hash
           /\ Transferred(L, from, to, n).vote = L.vote
           /\ Balance(Transferred(L, from, to, n), from) = Balance(L, from) - n
<1> DEFINE m == SetBalance(L.lamports, from, Balance(L, from) - n)
           mm == SetBalance(m, to, Balance(L, to) + n)
<1>1. Balance(L, from) \in Nat /\ Balance(L, to) \in Nat
  BY BalanceNat
<1>2. CASE n = 0
  BY <1>1, <1>2 DEF Transferred, BalancesOK, Balance
<1>3. CASE n # 0
  <2>1. Transferred(L, from, to, n) = [hash |-> L.hash, vote |-> L.vote, lamports |-> mm]
    BY <1>3 DEF Transferred
  <2>2. /\ \A b : b \in DOMAIN m <=> (b \in DOMAIN L.lamports /\ b # from)
                                      \/ (b = from /\ Balance(L, from) - n # 0)
        /\ \A b \in DOMAIN m :
              m[b] = IF b = from THEN Balance(L, from) - n ELSE L.lamports[b]
    BY SetBalanceFacts
  <2>3. /\ \A b : b \in DOMAIN mm <=> (b \in DOMAIN m /\ b # to)
                                       \/ (b = to /\ Balance(L, to) + n # 0)
        /\ \A b \in DOMAIN mm : mm[b] = IF b = to THEN Balance(L, to) + n ELSE m[b]
    BY SetBalanceFacts
  <2>4. \A b \in DOMAIN mm : mm[b] \in Nat
    BY <1>1, <2>2, <2>3 DEF BalancesOK
  <2>5. (IF from \in DOMAIN mm THEN mm[from] ELSE 0) = Balance(L, from) - n
    <3>1. CASE Balance(L, from) - n = 0
      BY <3>1, <2>2, <2>3
    <3>2. CASE Balance(L, from) - n # 0
      BY <3>2, <2>2, <2>3
    <3> QED
      BY <3>1, <3>2
  <2> HIDE DEF m, mm
  <2> QED
    BY <2>1, <2>4, <2>5 DEF BalancesOK, Balance
<1> QED
  BY <1>2, <1>3

\* A transfer leaves the balance of every other address.
LEMMA ThirdPartyBalance ==
    ASSUME NEW L, NEW from, NEW to, NEW n, NEW a, a # from, a # to
    PROVE  Balance(Transferred(L, from, to, n), a) = Balance(L, a)
<1>1. CASE n = 0
  BY <1>1 DEF Transferred, Balance
<1>2. CASE n # 0
  <2> DEFINE m == SetBalance(L.lamports, from, Balance(L, from) - n)
             mm == SetBalance(m, to, Balance(L, to) + n)
  <2>1. Transferred(L, from, to, n).lamports = mm
    BY <1>2 DEF Transferred
  <2>2. /\ a \in DOMAIN m <=> a \in DOMAIN L.lamports
        /\ a \in DOMAIN m => m[a] = L.lamports[a]
    BY SetBalanceFacts
  <2> HIDE DEF m
  <2>3. /\ a \in DOMAIN mm <=> a \in DOMAIN m
        /\ a \in DOMAIN mm => mm[a] = m[a]
    BY SetBalanceFacts
  <2> HIDE DEF mm
  <2> QED
    BY <2>1, <2>2, <2>3 DEF Balance
<1> QED
  BY <1>1, <1>2

\* A wallet is neither a record nor a vote.
LEMMA AddressesDiffer ==
    ASSUME NEW u, NEW i, NEW v
    PROVE  Wallet(u) # HashAddress(i) /\ Wallet(u) # VoteAddress(i, v)
BY DEF Wallet, HashAddress, VoteAddress

\* Claiming an address costs the payer its top-up, and only that.
LEMMA ClaimedOK ==
    ASSUME NEW L, BalancesOK(L), NEW u, NEW a, Wallet(u) # a,
           NEW space \in Nat, NEW r \in Rates,
           TopUp(L, a, space, r) <= Balance(L, Wallet(u))
    PROVE  /\ TopUp(L, a, space, r) \in Nat
           /\ BalancesOK(Claimed(L, u, a, space, r))
           /\ Claimed(L, u, a, space, r).hash = L.hash
           /\ Claimed(L, u, a, space, r).vote = L.vote
           /\ Balance(Claimed(L, u, a, space, r), Wallet(u))
                 = Balance(L, Wallet(u)) - TopUp(L, a, space, r)
<1>1. TopUp(L, a, space, r) \in Nat
  BY ReserveNat, BalanceNat DEF TopUp
<1> QED
  BY <1>1, TransferredOK DEF Claimed

(***************************************************************************)
(* The runtime functions keep the accounts well formed.                    *)
(***************************************************************************)

\* vote_record::create adds one vote and leaves the records.
LEMMA VoteCreatedOK ==
    ASSUME NEW L, BalancesOK(L), VotesOK(L), NEW u \in Users, NEW id,
           NEW amount \in Nat, NEW deposit \in Nat, NEW r \in Rates,
           CanCreateVote(L, u, id, deposit, r)
    PROVE  LET V == VoteCreated(L, u, id, amount, deposit, r) IN
           /\ BalancesOK(V) /\ VotesOK(V)
           /\ V.hash = L.hash
           /\ DOMAIN V.vote = DOMAIN L.vote \cup {<<id, u>>}
<1> DEFINE claimed == Claimed(L, u, VoteAddress(id, u), VoteInfoSpace, r)
           topUp   == TopUp(L, VoteAddress(id, u), VoteInfoSpace, r)
           funded  == Transferred(claimed, Wallet(u), HashAddress(id), deposit)
           V       == VoteCreated(L, u, id, amount, deposit, r)
<1>1. VoteInfoSpace \in Nat
  BY DEF VoteInfoSpace
<1>2. topUp \in Nat
  BY <1>1, ReserveNat, BalanceNat DEF TopUp
<1>3. topUp <= Balance(L, Wallet(u)) /\ deposit <= Balance(L, Wallet(u)) - topUp
  BY <1>2, BalanceNat DEF CanCreateVote
<1>4. /\ BalancesOK(claimed) /\ claimed.hash = L.hash /\ claimed.vote = L.vote
      /\ Balance(claimed, Wallet(u)) = Balance(L, Wallet(u)) - topUp
  BY <1>1, <1>3, ClaimedOK, AddressesDiffer
<1>5. BalancesOK(funded) /\ funded.hash = L.hash /\ funded.vote = L.vote
  <2> HIDE DEF claimed, topUp
  <2> QED
    BY <1>3, <1>4, TransferredOK, AddressesDiffer
<1>6. V = [hash |-> L.hash, vote |-> Put(L.vote, <<id, u>>, amount),
           lamports |-> funded.lamports]
  BY <1>5 DEF VoteCreated
<1> HIDE DEF claimed, topUp, funded, V
<1>7. BalancesOK(V)
  BY <1>5, <1>6 DEF BalancesOK
<1>8. V.hash = L.hash /\ DOMAIN V.vote = DOMAIN L.vote \cup {<<id, u>>}
  BY <1>6 DEF Put
<1>9. VotesOK(V)
  <2>1. IsFiniteSet(DOMAIN V.vote)
    <3>1. IsFiniteSet(DOMAIN L.vote)
      BY DEF VotesOK
    <3>2. IsFiniteSet(DOMAIN L.vote \cup {<<id, u>>})
      BY <3>1, FS_AddElement, Zenon
    <3> QED
      BY <1>8, <3>2
  <2>2. ASSUME NEW k \in DOMAIN V.vote
        PROVE  k = <<k[1], k[2]>> /\ k[2] \in Users /\ V.vote[k] \in Nat
    BY <1>6 DEF VotesOK, Put
  <2> QED
    BY <2>1, <2>2 DEF VotesOK
<1> QED
  BY <1>7, <1>8, <1>9 DEF V

\* A snapshot from which a record may be created at time now.
Creatable(s, now) ==
    /\ s = [hash |-> s.hash, source |-> s.source, created_at |-> s.created_at]
    /\ s.created_at \in 0..now
    /\ Generation(s.source) \in 0..MaxGeneration
    /\ Space(s.source) \in Nat

\* hash_record::create adds one record of one voter and leaves the votes.
LEMMA HashCreatedOK ==
    ASSUME NEW L, BalancesOK(L), NEW now \in Nat, NEW s, Creatable(s, now),
           NEW u \in Users, NEW r \in Rates, CanCreateHash(L, u, s, r)
    PROVE  LET H == HashCreated(L, u, s, r) IN
           /\ BalancesOK(H)
           /\ H.vote = L.vote
           /\ H.hash = Put(L.hash, IdOf(s), [hash |-> s.hash, source |-> s.source,
                                            voters |-> 1, created_at |-> s.created_at])
<1> DEFINE claimed == Claimed(L, u, HashAddress(IdOf(s)), Space(s.source), r)
<1>1. BalancesOK(claimed) /\ claimed.hash = L.hash /\ claimed.vote = L.vote
  <2>1. TopUp(L, HashAddress(IdOf(s)), Space(s.source), r) <= Balance(L, Wallet(u))
    BY ReserveNat, BalanceNat DEF CanCreateHash, Creatable, TopUp
  <2> QED
    BY <2>1, ClaimedOK, AddressesDiffer DEF Creatable
<1> QED
  BY <1>1 DEF HashCreated, BalancesOK

LedgerOK(L, now) == RecordsOK(L, now) /\ VotesOK(L) /\ BalancesOK(L) /\ CountersOK(L)

\* RecordWriter::create_with_initial_vote keeps the ledger well formed.
LEMMA CreatedOK ==
    ASSUME NEW L, NEW now \in Nat, LedgerOK(L, now), NEW s, Creatable(s, now),
           NEW u \in Users, NEW r \in Rates, CanCreate(L, u, s, r)
    PROVE  LET C == Created(L, u, s, r) IN
           /\ LedgerOK(C, now)
           /\ IdOf(s) \notin DOMAIN L.hash
           /\ DOMAIN C.vote = DOMAIN L.vote \cup {<<IdOf(s), u>>}
           /\ C.hash = Put(L.hash, IdOf(s), [hash |-> s.hash, source |-> s.source,
                                            voters |-> 1, created_at |-> s.created_at])
<1> DEFINE id == IdOf(s)
           rec == [hash |-> s.hash, source |-> s.source,
                   voters |-> 1, created_at |-> s.created_at]
           H == HashCreated(L, u, s, r)
           C == Created(L, u, s, r)
<1>1. BalancesOK(H) /\ H.vote = L.vote /\ H.hash = Put(L.hash, id, rec)
  BY HashCreatedOK DEF CanCreate, LedgerOK
<1>2. VotesOK(H)
  BY <1>1 DEF LedgerOK, VotesOK
<1>3. /\ BalancesOK(C) /\ VotesOK(C) /\ C.hash = H.hash
      /\ DOMAIN C.vote = DOMAIN L.vote \cup {<<id, u>>}
  <2>1. Reserve(Space(s.source), r) \in Nat
    BY ReserveNat DEF Creatable
  <2>2. CanCreateVote(H, u, id, 0, r)
    BY DEF CanCreate
  <2> QED
    BY <1>1, <1>2, <2>1, <2>2, VoteCreatedOK DEF Created
<1>4. id \notin DOMAIN L.hash
  BY DEF CanCreate, CanCreateHash
<1>5. s.created_at \in 1..now
  BY DEF CanCreate, Creatable
<1> HIDE DEF H, C
<1>6. RecordsOK(C, now)
  <2> SUFFICES ASSUME NEW i \in DOMAIN C.hash
               PROVE  /\ IdOf(C.hash[i]) = i
                      /\ C.hash[i].voters \in 1..MaxVoters
                      /\ C.hash[i].created_at \in 1..now
                      /\ Generation(C.hash[i].source) \in 0..MaxGeneration
                      /\ Space(C.hash[i].source) \in Nat
    BY DEF RecordsOK
  <2>1. CASE i = id
    <3>1. C.hash[i] = rec
      BY <1>1, <1>3, <2>1 DEF Put
    <3>2. IdOf(rec) = id
      BY DEF IdOf
    <3>3. 1 \in 1..MaxVoters
      BY MaxVotersAssumption, BoundsAssumption
    <3> QED
      BY <1>5, <2>1, <3>1, <3>2, <3>3 DEF Creatable
  <2>2. CASE i # id
    <3>1. i \in DOMAIN L.hash /\ C.hash[i] = L.hash[i]
      BY <1>1, <1>3, <2>2 DEF Put
    <3> QED
      BY <3>1 DEF LedgerOK, RecordsOK
  <2> QED
    BY <2>1, <2>2
<1>7. CountersOK(C)
  <2>1. DOMAIN C.hash = DOMAIN L.hash \cup {id}
    BY <1>1, <1>3 DEF Put
  <2>2. Votes(L, id) = {}
    BY <1>4 DEF LedgerOK, CountersOK, Votes
  <2>3. \A k \in DOMAIN C.vote : k[1] \in DOMAIN C.hash
    BY <1>3, <2>1 DEF LedgerOK, CountersOK
  <2>4. ASSUME NEW i \in DOMAIN C.hash
        PROVE  C.hash[i].voters = Cardinality(Votes(C, i))
    <3>1. CASE i = id
      <4>1. C.hash[i].voters = 1
        BY <1>1, <1>3, <3>1 DEF Put
      <4>2. Votes(C, i) = {<<id, u>>}
        BY <1>3, <2>2, <3>1 DEF Votes
      <4> QED
        BY <4>1, <4>2, FS_Singleton
    <3>2. CASE i # id
      <4>1. i \in DOMAIN L.hash /\ C.hash[i] = L.hash[i]
        BY <1>1, <1>3, <3>2 DEF Put
      <4>2. Votes(C, i) = Votes(L, i)
        BY <1>3, <3>2 DEF Votes
      <4> QED
        BY <4>1, <4>2 DEF LedgerOK, CountersOK
    <3> QED
      BY <3>1, <3>2
  <2> QED
    BY <2>3, <2>4 DEF CountersOK
<1> QED
  BY <1>1, <1>3, <1>4, <1>6, <1>7 DEF LedgerOK, C

\* RecordWriter::add_vote keeps the ledger well formed and the records.
LEMMA VoteAddedOK ==
    ASSUME NEW L, NEW now \in Nat, LedgerOK(L, now),
           NEW u \in Users, NEW id, NEW r \in Rates,
           CanAddVote(L, u, id, r, MaxVoters)
    PROVE  LET A == VoteAdded(L, u, id, r) IN
           /\ LedgerOK(A, now)
           /\ DOMAIN A.vote = DOMAIN L.vote \cup {<<id, u>>}
           /\ DOMAIN A.hash = DOMAIN L.hash
           /\ \A i \in DOMAIN L.hash : SnapshotOf(A.hash[i]) = SnapshotOf(L.hash[i])
<1> DEFINE deposit == Reserve(Space(L.hash[id].source), r)
           V == VoteCreated(L, u, id, deposit, deposit, r)
           A == VoteAdded(L, u, id, r)
           rec == [hash |-> L.hash[id].hash, source |-> L.hash[id].source,
                   voters |-> L.hash[id].voters + 1,
                   created_at |-> L.hash[id].created_at]
<1>1. id \in DOMAIN L.hash /\ <<id, u>> \notin DOMAIN L.vote
  BY DEF CanAddVote, CanCreateVote, Live
<1>2. /\ IdOf(L.hash[id]) = id
      /\ L.hash[id].voters \in 1..MaxVoters
      /\ L.hash[id].created_at \in 1..now
      /\ Generation(L.hash[id].source) \in 0..MaxGeneration
      /\ Space(L.hash[id].source) \in Nat
  BY <1>1 DEF LedgerOK, RecordsOK
<1>3. deposit \in Nat
  BY <1>2, ReserveNat
<1>4. /\ BalancesOK(V) /\ VotesOK(V) /\ V.hash = L.hash
      /\ DOMAIN V.vote = DOMAIN L.vote \cup {<<id, u>>}
  BY <1>3, VoteCreatedOK DEF LedgerOK, CanAddVote
<1>5. A = [hash |-> Put(L.hash, id, rec), vote |-> V.vote, lamports |-> V.lamports]
  BY <1>4 DEF VoteAdded, WithVoters
<1> HIDE DEF V, A, deposit
<1>6. /\ BalancesOK(A) /\ VotesOK(A)
      /\ DOMAIN A.vote = DOMAIN L.vote \cup {<<id, u>>}
  BY <1>4, <1>5 DEF BalancesOK, VotesOK
<1>7. /\ DOMAIN A.hash = DOMAIN L.hash
      /\ A.hash[id] = rec
      /\ \A i \in DOMAIN L.hash : i # id => A.hash[i] = L.hash[i]
  BY <1>1, <1>5 DEF Put
<1>8. \A i \in DOMAIN L.hash : SnapshotOf(A.hash[i]) = SnapshotOf(L.hash[i])
  BY <1>7 DEF SnapshotOf
<1>9. RecordsOK(A, now)
  <2>1. IdOf(rec) = id
    BY <1>2 DEF IdOf
  <2>2. L.hash[id].voters + 1 \in 1..MaxVoters
    BY <1>2, BoundsAssumption DEF CanAddVote
  <2>3. ASSUME NEW i \in DOMAIN A.hash
        PROVE  /\ IdOf(A.hash[i]) = i
               /\ A.hash[i].voters \in 1..MaxVoters
               /\ A.hash[i].created_at \in 1..now
               /\ Generation(A.hash[i].source) \in 0..MaxGeneration
               /\ Space(A.hash[i].source) \in Nat
    <3>1. CASE i = id
      BY <1>2, <1>7, <2>1, <2>2, <3>1
    <3>2. CASE i # id
      BY <1>7, <3>2 DEF LedgerOK, RecordsOK
    <3> QED
      BY <3>1, <3>2
  <2> QED
    BY <2>3 DEF RecordsOK
<1>10. CountersOK(A)
  <2>1. \A k \in DOMAIN A.vote : k[1] \in DOMAIN A.hash
    BY <1>1, <1>6, <1>7 DEF LedgerOK, CountersOK
  <2>2. ASSUME NEW i \in DOMAIN A.hash
        PROVE  A.hash[i].voters = Cardinality(Votes(A, i))
    <3>1. CASE i = id
      <4>1. IsFiniteSet(Votes(L, id))
        BY FS_Subset DEF LedgerOK, VotesOK, Votes
      <4>2. <<id, u>> \notin Votes(L, id)
        BY <1>1 DEF Votes
      <4>3. Votes(A, id) = Votes(L, id) \cup {<<id, u>>}
        BY <1>6 DEF Votes
      <4>4. Cardinality(Votes(A, id)) = Cardinality(Votes(L, id)) + 1
        BY <4>1, <4>2, <4>3, FS_AddElement
      <4> QED
        BY <1>1, <1>7, <3>1, <4>4 DEF LedgerOK, CountersOK
    <3>2. CASE i # id
      <4>1. Votes(A, i) = Votes(L, i)
        BY <1>6, <3>2 DEF Votes
      <4> QED
        BY <1>7, <3>2, <4>1 DEF LedgerOK, CountersOK
    <3> QED
      BY <3>1, <3>2
  <2> QED
    BY <2>1, <2>2 DEF CountersOK
<1> QED
  BY <1>6, <1>7, <1>8, <1>9, <1>10 DEF LedgerOK, A

\* Closing a vote account removes that vote and leaves the records.
LEMMA VoteClosedOK ==
    ASSUME NEW L, BalancesOK(L), VotesOK(L), NEW u, NEW id
    PROVE  LET V == VoteClosed(L, u, id) IN
           /\ BalancesOK(V) /\ VotesOK(V)
           /\ V.hash = L.hash
           /\ DOMAIN V.vote = DOMAIN L.vote \ {<<id, u>>}
<1> DEFINE all  == Balance(L, VoteAddress(id, u))
           paid == Transferred(L, VoteAddress(id, u), Wallet(u), all)
           V    == VoteClosed(L, u, id)
<1>1. BalancesOK(paid) /\ paid.hash = L.hash /\ paid.vote = L.vote
  BY BalanceNat, TransferredOK, AddressesDiffer
<1>2. V = [hash |-> L.hash, vote |-> Drop(L.vote, <<id, u>>), lamports |-> paid.lamports]
  BY <1>1 DEF VoteClosed
<1> HIDE DEF paid, V
<1>3. BalancesOK(V) /\ V.hash = L.hash
  BY <1>1, <1>2 DEF BalancesOK
<1>4. /\ DOMAIN V.vote = DOMAIN L.vote \ {<<id, u>>}
      /\ \A k \in DOMAIN V.vote : V.vote[k] = L.vote[k]
  BY <1>2 DEF Drop, Restrict
<1>5. IsFiniteSet(DOMAIN V.vote)
  BY <1>4, FS_Subset DEF VotesOK
<1>6. VotesOK(V)
  BY <1>4, <1>5 DEF VotesOK
<1> QED
  BY <1>3, <1>4, <1>6 DEF V

\* R is L without the vote of u for id, and without the record if that was its
\* last vote.
WithoutVote(L, R, u, id) ==
    /\ DOMAIN R.vote = DOMAIN L.vote \ {<<id, u>>}
    /\ DOMAIN R.hash = IF Votes(L, id) = {<<id, u>>}
                       THEN DOMAIN L.hash \ {id} ELSE DOMAIN L.hash
    /\ \A i \in DOMAIN R.hash : SnapshotOf(R.hash[i]) = SnapshotOf(L.hash[i])

\* ValidatedVote::release keeps the ledger well formed: it removes the vote,
\* and the record exactly if the vote was its last.
LEMMA ReleasedOK ==
    ASSUME NEW L, NEW now \in Nat, LedgerOK(L, now),
           NEW u \in Users, NEW id, NEW r \in Rates, CanRelease(L, u, id, r)
    PROVE  LedgerOK(Released(L, u, id), now) /\ WithoutVote(L, Released(L, u, id), u, id)
<1> DEFINE k0 == <<id, u>>
           V == VoteClosed(L, u, id)
           R == Released(L, u, id)
           rec == [hash |-> L.hash[id].hash, source |-> L.hash[id].source,
                   voters |-> L.hash[id].voters - 1,
                   created_at |-> L.hash[id].created_at]
<1>1. id \in DOMAIN L.hash /\ k0 \in DOMAIN L.vote
  BY DEF CanRelease, Live
<1>2. /\ IdOf(L.hash[id]) = id
      /\ L.hash[id].voters \in 1..MaxVoters
      /\ L.hash[id].created_at \in 1..now
      /\ Generation(L.hash[id].source) \in 0..MaxGeneration
      /\ Space(L.hash[id].source) \in Nat
  BY <1>1 DEF LedgerOK, RecordsOK
<1>3. /\ BalancesOK(V) /\ VotesOK(V) /\ V.hash = L.hash
      /\ DOMAIN V.vote = DOMAIN L.vote \ {k0}
  BY VoteClosedOK DEF LedgerOK
<1>4. /\ IsFiniteSet(Votes(L, id)) /\ k0 \in Votes(L, id)
      /\ L.hash[id].voters = Cardinality(Votes(L, id))
  <2>1. Votes(L, id) \subseteq DOMAIN L.vote
    BY DEF Votes
  <2>2. k0 \in Votes(L, id)
    BY <1>1 DEF Votes
  <2> QED
    BY <1>1, <2>1, <2>2, FS_Subset DEF LedgerOK, VotesOK, CountersOK
<1>5. /\ IsFiniteSet(Votes(L, id) \ {k0})
      /\ Cardinality(Votes(L, id) \ {k0}) = Cardinality(Votes(L, id)) - 1
  BY <1>4, FS_RemoveElement
<1>6. L.hash[id].voters = 1 <=> Votes(L, id) = {k0}
  <2>1. ASSUME L.hash[id].voters = 1 PROVE Votes(L, id) = {k0}
    <3>1. Cardinality(Votes(L, id) \ {k0}) = 0
      BY <1>4, <1>5, <2>1
    <3>2. Votes(L, id) \ {k0} = {}
      BY <1>5, <3>1, FS_EmptySet
    <3> QED
      BY <1>4, <3>2
  <2>2. ASSUME Votes(L, id) = {k0} PROVE L.hash[id].voters = 1
    BY <1>4, <2>2, FS_Singleton
  <2> QED
    BY <2>1, <2>2
<1>7. CASE L.hash[id].voters = 1
  <2> DEFINE paid == Transferred(V, HashAddress(id), Wallet(u), Balance(V, HashAddress(id)))
  <2>1. BalancesOK(paid) /\ paid.hash = L.hash /\ paid.vote = V.vote
    <3> HIDE DEF V
    <3> QED
      BY <1>3, BalanceNat, TransferredOK, AddressesDiffer
  <2>2. R = [hash |-> Drop(L.hash, id), vote |-> V.vote, lamports |-> paid.lamports]
    BY <1>7, <2>1 DEF Released, HashClosed
  <2> HIDE DEF V, R, paid
  <2>3. BalancesOK(R) /\ VotesOK(R) /\ DOMAIN R.vote = DOMAIN L.vote \ {k0}
    BY <1>3, <2>1, <2>2 DEF BalancesOK, VotesOK
  <2>4. /\ DOMAIN R.hash = DOMAIN L.hash \ {id}
        /\ \A i \in DOMAIN R.hash : R.hash[i] = L.hash[i]
    BY <2>2 DEF Drop, Restrict
  <2>5. RecordsOK(R, now)
    BY <2>4 DEF LedgerOK, RecordsOK
  <2>6. CountersOK(R)
    <3>1. \A k \in DOMAIN R.vote : k[1] # id
      BY <1>6, <1>7, <2>3 DEF Votes
    <3>2. \A k \in DOMAIN R.vote : k[1] \in DOMAIN R.hash
      BY <2>3, <2>4, <3>1 DEF LedgerOK, CountersOK
    <3>3. \A i \in DOMAIN R.hash : Votes(R, i) = Votes(L, i)
      BY <2>3, <2>4 DEF Votes
    <3> QED
      BY <2>4, <3>2, <3>3 DEF LedgerOK, CountersOK
  <2> QED
    BY <1>6, <1>7, <2>3, <2>4, <2>5, <2>6 DEF LedgerOK, WithoutVote, R
<1>8. CASE L.hash[id].voters # 1
  <2> DEFINE Kept == WithVoters(V, id, L.hash[id].voters - 1)
             n == L.vote[k0]
  <2>1. Kept = [hash |-> Put(L.hash, id, rec), vote |-> V.vote, lamports |-> V.lamports]
    BY <1>3 DEF WithVoters
  <2>2. BalancesOK(Kept)
    BY <1>3, <2>1 DEF BalancesOK
  <2>3. n \in Nat
    BY <1>1 DEF LedgerOK, VotesOK
  <2>4. n <= Balance(Kept, HashAddress(id))
    <3>1. CASE n = 0
      BY <2>2, <3>1, BalanceNat
    <3>2. CASE n # 0
      <4>1. Balance(L, HashAddress(id)) >= n + Reserve(Space(L.hash[id].source), r)
        BY <1>2, <1>8, <2>3, <3>2 DEF CanRelease, RefundKeepsReserve
      <4>2. Balance(L, HashAddress(id)) >= n
        BY <1>2, <2>3, <4>1, ReserveNat, BalanceNat DEF LedgerOK
      <4>3. Balance(V, HashAddress(id)) = Balance(L, HashAddress(id))
        <5>1. VoteAddress(id, u) # HashAddress(id) /\ Wallet(u) # HashAddress(id)
          BY DEF VoteAddress, HashAddress, Wallet
        <5> QED
          BY <5>1, ThirdPartyBalance DEF VoteClosed, Balance
      <4> QED
        BY <2>1, <4>2, <4>3 DEF Balance
    <3> QED
      BY <3>1, <3>2
  <2>5. R = Transferred(Kept, HashAddress(id), Wallet(u), n)
    BY <1>8 DEF Released
  <2>6. BalancesOK(R) /\ R.hash = Kept.hash /\ R.vote = V.vote
    <3> HIDE DEF Kept, n
    <3>1. Kept.vote = V.vote
      BY <2>1
    <3> QED
      BY <2>2, <2>3, <2>4, <2>5, <3>1, TransferredOK, AddressesDiffer
  <2> HIDE DEF V, R, Kept, n
  <2>7. VotesOK(R) /\ DOMAIN R.vote = DOMAIN L.vote \ {k0}
    BY <1>3, <2>6 DEF VotesOK
  <2>8. /\ DOMAIN R.hash = DOMAIN L.hash
        /\ R.hash[id] = rec
        /\ \A i \in DOMAIN L.hash : i # id => R.hash[i] = L.hash[i]
    BY <1>1, <2>1, <2>6 DEF Put
  <2>9. RecordsOK(R, now)
    <3>1. IdOf(rec) = id
      BY <1>2 DEF IdOf
    <3>2. L.hash[id].voters - 1 \in 1..MaxVoters
      BY <1>2, <1>8, BoundsAssumption
    <3>3. ASSUME NEW i \in DOMAIN R.hash
          PROVE  /\ IdOf(R.hash[i]) = i
                 /\ R.hash[i].voters \in 1..MaxVoters
                 /\ R.hash[i].created_at \in 1..now
                 /\ Generation(R.hash[i].source) \in 0..MaxGeneration
                 /\ Space(R.hash[i].source) \in Nat
      <4>1. CASE i = id
        BY <1>2, <2>8, <3>1, <3>2, <4>1
      <4>2. CASE i # id
        BY <2>8, <4>2 DEF LedgerOK, RecordsOK
      <4> QED
        BY <4>1, <4>2
    <3> QED
      BY <3>3 DEF RecordsOK
  <2>10. CountersOK(R)
    <3>1. \A k \in DOMAIN R.vote : k[1] \in DOMAIN R.hash
      BY <2>7, <2>8 DEF LedgerOK, CountersOK
    <3>2. ASSUME NEW i \in DOMAIN R.hash
          PROVE  R.hash[i].voters = Cardinality(Votes(R, i))
      <4>1. CASE i = id
        <5>1. Votes(R, id) = Votes(L, id) \ {k0}
          BY <2>7 DEF Votes
        <5> QED
          BY <1>4, <1>5, <2>8, <4>1, <5>1
      <4>2. CASE i # id
        <5>1. Votes(R, i) = Votes(L, i)
          BY <2>7, <4>2 DEF Votes
        <5> QED
          BY <2>8, <4>2, <5>1 DEF LedgerOK, CountersOK
      <4> QED
        BY <4>1, <4>2
    <3> QED
      BY <3>1, <3>2 DEF CountersOK
  <2>11. \A i \in DOMAIN R.hash : SnapshotOf(R.hash[i]) = SnapshotOf(L.hash[i])
    BY <2>8 DEF SnapshotOf
  <2> QED
    BY <1>6, <1>8, <2>6, <2>7, <2>8, <2>9, <2>10, <2>11 DEF LedgerOK, WithoutVote, R
<1> QED
  BY <1>7, <1>8

(***************************************************************************)
(* The instructions keep the invariant.                                    *)
(***************************************************************************)
Inv == TypeOK /\ VotersMatchVotes

LEMMA InvIsLedgerOK == Inv => LedgerOK(ledger, clock) /\ clock \in Nat /\ rate \in Rates
BY BoundsAssumption DEF Inv, TypeOK, VotersMatchVotes, LedgerOK

\* What each instruction creates is well formed.
LEMMA CreatableRaw ==
    ASSUME Inv, NEW h PROVE Creatable(Now(HashOrigin, h), clock)
BY BoundsAssumption DEF Inv, TypeOK, Creatable, Now, HashOrigin, Generation, Space,
   HashBaseSize, AllocatedSourceSpace, FixedSourceSpace

LEMMA CreatableAccount ==
    ASSUME Inv, NEW h, NEW a PROVE Creatable(Now(AccountOrigin(a), h), clock)
BY BoundsAssumption DEF Inv, TypeOK, Creatable, Now, AccountOrigin, Generation, Space,
   HashBaseSize, AllocatedSourceSpace, FixedSourceSpace

LEMMA CreatablePack ==
    ASSUME Inv, NEW h PROVE Creatable(Now(PackOrigin, h), clock)
BY BoundsAssumption DEF Inv, TypeOK, Creatable, Now, PackOrigin, Generation, Space,
   HashBaseSize, AllocatedSourceSpace, FixedSourceSpace

LEMMA CreatableBatch ==
    ASSUME Inv, NEW h, NEW ids \in MemberLists
    PROVE  Creatable(Now(BatchSource(MemberSnapshots(ids)), h), clock)
<1>1. PICK n \in 1..MaxMembers : ids \in [1..n -> DOMAIN ledger.hash]
  BY DEF MemberLists
<1>2. n \in Nat
  BY <1>1, BoundsAssumption
<1> DEFINE list == [i \in DOMAIN MemberSnapshots(ids) |-> IdOf(MemberSnapshots(ids)[i])]
<1>3. DOMAIN list = 1..n
  BY <1>1 DEF MemberSnapshots
<1>4. Len(list) \in Nat
  BY <1>2, <1>3
<1>5. BatchSource(MemberSnapshots(ids)) = [kind |-> "Batch", members |-> list]
  BY DEF BatchSource, BatchOrigin
<1> HIDE DEF list
<1>6. /\ Generation(BatchSource(MemberSnapshots(ids))) = 0
      /\ Space(BatchSource(MemberSnapshots(ids))) = 57 + (7 + 32 * Len(list))
  BY <1>5 DEF Generation, Space, HashBaseSize, AllocatedSourceSpace, FixedSourceSpace
<1> QED
  BY <1>4, <1>6, BoundsAssumption DEF Inv, TypeOK, Creatable, Now

LEMMA CreatableChild ==
    ASSUME Inv, NEW parent \in DOMAIN ledger.hash, NEW p,
           Generation(ledger.hash[parent].source) < MaxGeneration
    PROVE  Creatable(Child(parent, p), clock)
<1> DEFINE s == SnapshotOf(ledger.hash[parent])
<1>1. s.source = ledger.hash[parent].source
  BY DEF SnapshotOf
<1>2. Generation(s.source) \in 0..MaxGeneration
  BY <1>1 DEF Inv, TypeOK, RecordsOK
<1>3. /\ BranchSource(s, p).kind = "Branch"
      /\ BranchSource(s, p).generation = Generation(s.source) + 1
  BY DEF BranchSource, BranchOrigin
<1> HIDE DEF s
<1>4. Generation(BranchSource(s, p)) = Generation(s.source) + 1
  BY <1>3 DEF Generation
<1>5. Space(BranchSource(s, p)) = 136
  BY <1>3 DEF Space, HashBaseSize, AllocatedSourceSpace, FixedSourceSpace
<1>6. Creatable(Now(BranchSource(s, p), BranchHash(s, p)), clock)
  BY <1>1, <1>2, <1>4, <1>5, BoundsAssumption DEF Inv, TypeOK, Creatable, Now
<1> QED
  BY <1>6 DEF Child, s

\* Create and Commit, for any record well formed in this sense.
LEMMA CreateKeepsInv ==
    ASSUME Inv, NEW u \in Users, NEW s, Creatable(s, clock), Create(u, s)
    PROVE  Inv'
<1>1. LedgerOK(Created(ledger, u, s, rate), clock)
  BY InvIsLedgerOK, CreatedOK DEF Create
<1> QED
  BY <1>1 DEF Create, Commit, environment, Inv, TypeOK, VotersMatchVotes, LedgerOK

\* Every step of the program and of its environment keeps the invariant.
LEMMA NextKeepsInv == Inv /\ [Next]_vars => Inv'
<1> SUFFICES ASSUME Inv, [Next]_vars PROVE Inv'
  OBVIOUS
<1> USE DEF Inv
<1>1. ASSUME NEW u \in Users, NEW h \in RawHashes, Register(u, h) PROVE Inv'
  BY <1>1, CreatableRaw, CreateKeepsInv DEF Register
<1>2. ASSUME NEW u \in Users, NEW a \in Accounts, AccountHash(u, a) PROVE Inv'
  BY <1>2, CreatableAccount, CreateKeepsInv DEF AccountHash
<1>3. ASSUME NEW u \in Users, NEW i \in DOMAIN ledger.hash, Vote(u, i) PROVE Inv'
  <2>1. LedgerOK(VoteAdded(ledger, u, i, rate), clock)
    BY <1>3, InvIsLedgerOK, VoteAddedOK DEF Vote
  <2> QED
    BY <1>3, <2>1 DEF Vote, Commit, environment, TypeOK, VotersMatchVotes, LedgerOK
<1>4. ASSUME NEW u \in Users, NEW i \in DOMAIN ledger.hash, Unvote(u, i) PROVE Inv'
  <2>1. LedgerOK(Released(ledger, u, i), clock)
    BY <1>4, InvIsLedgerOK, ReleasedOK DEF Unvote
  <2> QED
    BY <1>4, <2>1 DEF Unvote, Commit, environment, TypeOK, VotersMatchVotes, LedgerOK
<1>5. ASSUME NEW u \in Users, NEW i \in DOMAIN ledger.hash, NEW p \in Payloads,
             Branch(u, i, p)
      PROVE  Inv'
  BY <1>5, CreatableChild, CreateKeepsInv DEF Branch
<1>6. ASSUME NEW u \in Users, NEW i \in DOMAIN ledger.hash, NEW p \in Payloads,
             BranchTakingVote(u, i, p)
      PROVE  Inv'
  <2> DEFINE C == Created(ledger, u, Child(i, p), rate)
  <2>1. LedgerOK(C, clock)
    BY <1>6, CreatableChild, InvIsLedgerOK, CreatedOK DEF BranchTakingVote
  <2>2. CanRelease(C, u, i, rate) /\ Commit(Released(C, u, i))
    BY <1>6 DEF BranchTakingVote
  <2> HIDE DEF C
  <2>3. LedgerOK(Released(C, u, i), clock)
    BY <2>1, <2>2, InvIsLedgerOK, ReleasedOK
  <2> QED
    BY <2>2, <2>3 DEF Commit, environment, TypeOK, VotersMatchVotes, LedgerOK
<1>7. ASSUME NEW u \in Users, NEW ids \in MemberLists, Batch(u, ids) PROVE Inv'
  BY <1>7, CreatableBatch, CreateKeepsInv DEF Batch
<1>8. ASSUME NEW u \in Users, NEW ids \in MemberLists, Pack(u, ids) PROVE Inv'
  BY <1>8, CreatablePack, CreateKeepsInv DEF Pack
<1>9. CASE Tick
  BY <1>9, BoundsAssumption DEF Tick, TypeOK, VotersMatchVotes, RecordsOK
<1>10. ASSUME NEW r \in Rates, RentChange(r) PROVE Inv'
  BY <1>10 DEF RentChange, TypeOK, VotersMatchVotes
<1>11. ASSUME NEW a \in Accounts, NEW v \in 0..MaxVersion, AccountChange(a, v) PROVE Inv'
  BY <1>11 DEF AccountChange, TypeOK, VotersMatchVotes
<1>12. ASSUME NEW u \in Users, NEW a \in GiftTargets, NEW n \in Gifts, Gift(u, a, n)
       PROVE  Inv'
  <2>1. n \in Nat /\ n <= Balance(ledger, Wallet(u))
    BY <1>12, GiftsAssumption, BalanceNat DEF Gift, TypeOK
  <2>2. Wallet(u) # a
    BY AddressesDiffer DEF GiftTargets
  <2>3. /\ BalancesOK(ledger')
        /\ ledger'.hash = ledger.hash /\ ledger'.vote = ledger.vote
    BY <1>12, <2>1, <2>2, TransferredOK DEF Gift, TypeOK
  <2>4. gifts' \in 0..MaxGifts
    BY <1>12, BoundsAssumption DEF Gift, TypeOK
  <2> QED
    BY <1>12, <2>3, <2>4 DEF Gift, TypeOK, VotersMatchVotes, RecordsOK, VotesOK,
       CountersOK, Votes
<1>13. CASE UNCHANGED vars
  BY <1>13 DEF vars, TypeOK, VotersMatchVotes, RecordsOK, VotesOK, BalancesOK,
     CountersOK, Votes
<1> QED
  BY <1>1, <1>2, <1>3, <1>4, <1>5, <1>6, <1>7, <1>8, <1>9, <1>10, <1>11, <1>12, <1>13
     DEF Next, SomeGift

LEMMA InitInv == Init => Inv
<1> SUFFICES ASSUME Init PROVE Inv
  OBVIOUS
<1>1. DOMAIN ledger.hash = {} /\ DOMAIN ledger.vote = {}
  BY DEF Init
<1>2. IsFiniteSet(DOMAIN ledger.vote)
  BY <1>1, FS_EmptySet
<1> QED
  BY <1>1, <1>2, BoundsAssumption
  DEF Init, Inv, TypeOK, VotersMatchVotes, RecordsOK, VotesOK, BalancesOK, CountersOK

(***************************************************************************)
(* The theorems.                                                           *)
(***************************************************************************)

\* The accounts the program owns are always well formed: every record under
\* the id its content derives, with a creation time that has passed and at
\* least one voter.
THEOREM TypeCorrect == Spec => []TypeOK
<1>1. Inv => TypeOK
  BY DEF Inv
<1> QED
  BY <1>1, InitInv, NextKeepsInv, PTL DEF Spec

\* The voter counter of every record is the number of its votes, and no vote
\* is left when its record closes: with any number of users, records, rent
\* prices and prefunded addresses.
THEOREM CountersAreExact == Spec => []VotersMatchVotes
<1>1. Inv => VotersMatchVotes
  BY DEF Inv
<1> QED
  BY <1>1, InitInv, NextKeepsInv, PTL DEF Spec

(***************************************************************************)
(* The history: the origins a record derives from, and what its id         *)
(* determines.                                                             *)
(***************************************************************************)

\* A source has the fields of its kind, and what identifies an account or
\* counts the members is also in the hash.
SourceFits(s) ==
    /\ s.source.kind \in Kinds
    /\ s.source.kind = "Hash" => s.source = HashOrigin
    /\ s.source.kind = "Pack" => s.source = PackOrigin
    /\ s.source.kind = "Account" =>
          /\ s.source = AccountOrigin(s.source.account)
          /\ s.source.account = s.hash[2]
    /\ s.source.kind = "Batch" =>
          s.source = BatchOrigin([n \in DOMAIN s.hash[2] |-> s.source.members[n]])

\* What is true of every snapshot in the history.
Genuine(s, records, now) ==
    s.created_at \in 1..now /\ SourceFits(s) /\ OriginsAmong(s, records)

\* Every record there is, is in the history, and all of it is genuine.
HistoryOK ==
    /\ \A i \in DOMAIN ledger.hash : SnapshotOf(ledger.hash[i]) \in born
    /\ \A s \in born : Genuine(s, born, clock)

(***************************************************************************)
(* What each instruction creates is genuine.                               *)
(***************************************************************************)

\* A root has no origins.
LEMMA RawGenuine ==
    ASSUME NEW h, NEW now \in Nat, clock # 0, clock \in 0..now
    PROVE  Genuine(Now(HashOrigin, h), born, now)
BY DEF Genuine, Now, SourceFits, OriginsAmong, HashOrigin, Kinds

LEMMA AccountGenuine ==
    ASSUME NEW a, NEW v, NEW now \in Nat, clock # 0, clock \in 0..now
    PROVE  Genuine(Now(AccountOrigin(a), MetadataDigest(a, v)), born, now)
BY DEF Genuine, Now, SourceFits, OriginsAmong, AccountOrigin, MetadataDigest, Kinds

\* A child derives from the snapshot of its live parent.
LEMMA ChildGenuine ==
    ASSUME HistoryOK, clock \in Nat, clock # 0, NEW parent \in DOMAIN ledger.hash, NEW p
    PROVE  Genuine(Child(parent, p), born, clock)
<1> DEFINE q == SnapshotOf(ledger.hash[parent])
           s == Child(parent, p)
<1>1. q \in born /\ q.created_at \in 1..clock
  BY DEF HistoryOK, Genuine
<1>2. /\ s.source = BranchSource(q, p) /\ s.hash = BranchHash(q, p)
      /\ s.created_at = clock
  BY DEF Child, Now
<1>3. s.source.kind = "Branch" /\ s.source.payload = p
  BY <1>2 DEF BranchSource, BranchOrigin
<1> HIDE DEF q, s
<1>4. SourceFits(s)
  BY <1>3 DEF SourceFits, Kinds
<1>5. OriginsAmong(s, born)
  BY <1>1, <1>2, <1>3 DEF OriginsAmong
<1> QED
  BY <1>2, <1>4, <1>5 DEF Genuine, s

\* The fingerprints of the members of an aggregate, as its digest has them.
LEMMA MembersFingerprints ==
    ASSUME HistoryOK, clock \in Nat, NEW ids \in MemberLists
    PROVE  LET prints == [n \in DOMAIN MemberSnapshots(ids) |->
                             Fingerprint(MemberSnapshots(ids)[n])] IN
           /\ MembersHash(MemberSnapshots(ids)) = MembersDigest(prints)
           /\ MembersDigest(prints)[2] = prints
           /\ DOMAIN prints = DOMAIN MemberSnapshots(ids)
           /\ Len(prints) > 0
           /\ \A n \in DOMAIN prints :
                 /\ MemberSnapshots(ids)[n] \in born
                 /\ prints[n] = Fingerprint(MemberSnapshots(ids)[n])
                 /\ MemberSnapshots(ids)[n].created_at <= clock
<1> DEFINE m == MemberSnapshots(ids)
           prints == [n \in DOMAIN m |-> Fingerprint(m[n])]
<1>1. PICK k \in 1..MaxMembers : ids \in [1..k -> DOMAIN ledger.hash]
  BY DEF MemberLists
<1>2. k \in Nat /\ k > 0
  BY <1>1, BoundsAssumption
<1>3. DOMAIN m = 1..k /\ \A n \in 1..k : m[n] = SnapshotOf(ledger.hash[ids[n]])
  BY <1>1 DEF MemberSnapshots
<1>4. \A n \in 1..k : m[n] \in born /\ m[n].created_at <= clock
  BY <1>1, <1>3 DEF HistoryOK, Genuine
<1> HIDE DEF m
<1>5. Len(prints) = k
  BY <1>2, <1>3
<1>6. MembersHash(m) = MembersDigest(prints) /\ MembersDigest(prints)[2] = prints
  BY DEF MembersHash, MembersDigest
<1> QED
  BY <1>2, <1>3, <1>4, <1>5, <1>6 DEF m

LEMMA BatchGenuine ==
    ASSUME HistoryOK, clock \in Nat, clock # 0, NEW ids \in MemberLists
    PROVE  Genuine(Now(BatchSource(MemberSnapshots(ids)),
                       MembersHash(MemberSnapshots(ids))), born, clock)
<1> DEFINE m == MemberSnapshots(ids)
           prints == [n \in DOMAIN m |-> Fingerprint(m[n])]
           list == [n \in DOMAIN m |-> IdOf(m[n])]
           s == Now(BatchSource(m), MembersHash(m))
<1>1. /\ MembersHash(m) = MembersDigest(prints) /\ MembersDigest(prints)[2] = prints
      /\ DOMAIN prints = DOMAIN m /\ Len(prints) > 0
      /\ \A n \in DOMAIN prints : /\ m[n] \in born
                                  /\ prints[n] = Fingerprint(m[n])
                                  /\ m[n].created_at <= clock
  BY MembersFingerprints
<1> HIDE DEF prints, m
<1>2. /\ s.source.kind = "Batch" /\ s.source.members = list
      /\ s.source = BatchOrigin(list)
      /\ s.hash = MembersDigest(prints) /\ s.hash[2] = prints /\ s.created_at = clock
  BY <1>1 DEF Now, BatchSource, BatchOrigin
<1>3. DOMAIN list = DOMAIN prints /\ \A n \in DOMAIN prints : list[n] = IdOf(m[n])
  BY <1>1
<1>4. list = [n \in DOMAIN prints |-> list[n]]
  BY <1>3
<1> HIDE DEF s, list
<1>5. SourceFits(s)
  BY <1>2, <1>4 DEF SourceFits, Kinds
<1>6. OriginsAmong(s, born)
  BY <1>1, <1>2, <1>3 DEF OriginsAmong
<1> QED
  BY <1>2, <1>5, <1>6 DEF Genuine, s, m

LEMMA PackGenuine ==
    ASSUME HistoryOK, clock \in Nat, clock # 0, NEW ids \in MemberLists
    PROVE  Genuine(Now(PackOrigin, MembersHash(MemberSnapshots(ids))), born, clock)
<1> DEFINE m == MemberSnapshots(ids)
           prints == [n \in DOMAIN m |-> Fingerprint(m[n])]
           s == Now(PackOrigin, MembersHash(m))
<1>1. /\ MembersHash(m) = MembersDigest(prints) /\ MembersDigest(prints)[2] = prints
      /\ DOMAIN prints = DOMAIN m /\ Len(prints) > 0
      /\ \A n \in DOMAIN prints : /\ m[n] \in born
                                  /\ prints[n] = Fingerprint(m[n])
                                  /\ m[n].created_at <= clock
  BY MembersFingerprints
<1> HIDE DEF prints, m
<1>2. /\ s.source = PackOrigin /\ s.source.kind = "Pack"
      /\ s.hash = MembersDigest(prints) /\ s.hash[2] = prints /\ s.created_at = clock
  BY <1>1 DEF Now, PackOrigin
<1> HIDE DEF s
<1>3. SourceFits(s)
  BY <1>2 DEF SourceFits, Kinds
<1>4. OriginsAmong(s, born)
  BY <1>1, <1>2 DEF OriginsAmong
<1> QED
  BY <1>2, <1>3, <1>4 DEF Genuine, s, m

(***************************************************************************)
(* Every step keeps the history.                                           *)
(***************************************************************************)

\* A commit of records that are old or genuine.
LEMMA CommitKeepsHistory ==
    ASSUME HistoryOK, NEW L, Commit(L),
           \A i \in DOMAIN L.hash :
              SnapshotOf(L.hash[i]) \in born \/ Genuine(SnapshotOf(L.hash[i]), born, clock)
    PROVE  HistoryOK'
<1>1. /\ ledger' = L /\ clock' = clock
      /\ born' = born \cup {SnapshotOf(L.hash[i]) : i \in DOMAIN L.hash}
  BY DEF Commit, environment
<1>2. \A s \in born' : Genuine(s, born, clock)
  BY <1>1 DEF HistoryOK
<1>3. \A s \in born' : OriginsAmong(s, born')
  BY <1>1, <1>2 DEF Genuine, OriginsAmong
<1> QED
  BY <1>1, <1>2, <1>3 DEF HistoryOK, Genuine

\* A creation adds one snapshot.
LEMMA CreatedSnapshots ==
    ASSUME NEW L, NEW now \in Nat, LedgerOK(L, now), NEW s, Creatable(s, now),
           s = [hash |-> s.hash, source |-> s.source, created_at |-> s.created_at],
           NEW u \in Users, NEW r \in Rates, CanCreate(L, u, s, r),
           NEW i \in DOMAIN Created(L, u, s, r).hash
    PROVE  \/ SnapshotOf(Created(L, u, s, r).hash[i]) = s
           \/ i \in DOMAIN L.hash
                /\ SnapshotOf(Created(L, u, s, r).hash[i]) = SnapshotOf(L.hash[i])
<1>1. Created(L, u, s, r).hash
         = Put(L.hash, IdOf(s), [hash |-> s.hash, source |-> s.source,
                                 voters |-> 1, created_at |-> s.created_at])
  BY CreatedOK
<1> QED
  BY <1>1 DEF Put, SnapshotOf

\* A release adds none.
LEMMA ReleasedSnapshots ==
    ASSUME NEW L, NEW now \in Nat, LedgerOK(L, now),
           NEW u \in Users, NEW id, NEW r \in Rates, CanRelease(L, u, id, r),
           NEW j \in DOMAIN Released(L, u, id).hash
    PROVE  /\ j \in DOMAIN L.hash
           /\ SnapshotOf(Released(L, u, id).hash[j]) = SnapshotOf(L.hash[j])
<1> DEFINE R == Released(L, u, id)
<1>1. /\ DOMAIN R.hash = IF Votes(L, id) = {<<id, u>>}
                         THEN DOMAIN L.hash \ {id} ELSE DOMAIN L.hash
      /\ \A i \in DOMAIN R.hash : SnapshotOf(R.hash[i]) = SnapshotOf(L.hash[i])
  <2>1. WithoutVote(L, Released(L, u, id), u, id)
    BY ReleasedOK
  <2> QED
    BY <2>1 DEF WithoutVote
<1>2. j \in DOMAIN R.hash
  OBVIOUS
<1> HIDE DEF R
<1>3. j \in DOMAIN L.hash /\ SnapshotOf(R.hash[j]) = SnapshotOf(L.hash[j])
  BY <1>1, <1>2
<1> QED
  BY <1>3 DEF R

LEMMA CreateKeepsHistory ==
    ASSUME Inv, HistoryOK, NEW u \in Users, NEW s, Creatable(s, clock),
           s = [hash |-> s.hash, source |-> s.source, created_at |-> s.created_at],
           s.created_at # 0 => Genuine(s, born, clock), Create(u, s)
    PROVE  HistoryOK'
<1>1. CanCreate(ledger, u, s, rate) /\ Commit(Created(ledger, u, s, rate))
  BY DEF Create
<1>2. Genuine(s, born, clock)
  BY <1>1 DEF CanCreate
<1>3. \A i \in DOMAIN Created(ledger, u, s, rate).hash :
         \/ SnapshotOf(Created(ledger, u, s, rate).hash[i]) \in born
         \/ Genuine(SnapshotOf(Created(ledger, u, s, rate).hash[i]), born, clock)
  BY <1>1, <1>2, InvIsLedgerOK, CreatedSnapshots DEF HistoryOK
<1> QED
  BY <1>1, <1>3, CommitKeepsHistory

\* What Now makes is a snapshot.
LEMMA NowIsSnapshot ==
    ASSUME NEW source, NEW hash
    PROVE  LET s == Now(source, hash) IN
           /\ s = [hash |-> s.hash, source |-> s.source, created_at |-> s.created_at]
           /\ s.created_at = clock
BY DEF Now

LEMMA NextKeepsHistory == Inv /\ HistoryOK /\ [Next]_vars => HistoryOK'
<1> SUFFICES ASSUME Inv, HistoryOK, [Next]_vars PROVE HistoryOK'
  OBVIOUS
<1>0. clock \in Nat
  BY InvIsLedgerOK
<1>1. ASSUME NEW u \in Users, NEW h \in RawHashes, Register(u, h) PROVE HistoryOK'
  BY <1>0, <1>1, CreatableRaw, RawGenuine, NowIsSnapshot, CreateKeepsHistory DEF Register
<1>2. ASSUME NEW u \in Users, NEW a \in Accounts, AccountHash(u, a) PROVE HistoryOK'
  BY <1>0, <1>2, CreatableAccount, AccountGenuine, NowIsSnapshot, CreateKeepsHistory
     DEF AccountHash
<1>3. ASSUME NEW u \in Users, NEW i \in DOMAIN ledger.hash, Vote(u, i) PROVE HistoryOK'
  <2>1. \A j \in DOMAIN VoteAdded(ledger, u, i, rate).hash :
           SnapshotOf(VoteAdded(ledger, u, i, rate).hash[j]) \in born
    BY <1>3, InvIsLedgerOK, VoteAddedOK DEF Vote, HistoryOK
  <2> QED
    BY <1>3, <2>1, CommitKeepsHistory DEF Vote
<1>4. ASSUME NEW u \in Users, NEW i \in DOMAIN ledger.hash, Unvote(u, i) PROVE HistoryOK'
  <2>1. \A j \in DOMAIN Released(ledger, u, i).hash :
           j \in DOMAIN ledger.hash
             /\ SnapshotOf(Released(ledger, u, i).hash[j]) = SnapshotOf(ledger.hash[j])
    BY <1>4, InvIsLedgerOK, ReleasedSnapshots DEF Unvote
  <2>2. \A j \in DOMAIN Released(ledger, u, i).hash :
           SnapshotOf(Released(ledger, u, i).hash[j]) \in born
    BY <2>1 DEF HistoryOK
  <2> QED
    BY <1>4, <2>2, CommitKeepsHistory DEF Unvote
<1>5. ASSUME NEW u \in Users, NEW i \in DOMAIN ledger.hash, NEW p \in Payloads,
             Branch(u, i, p)
      PROVE  HistoryOK'
  <2>1. Creatable(Child(i, p), clock) /\ Create(u, Child(i, p))
    BY <1>5, CreatableChild DEF Branch
  <2>2. clock # 0 => Genuine(Child(i, p), born, clock)
    BY <1>0, ChildGenuine
  <2>3. LET s == Child(i, p) IN
        /\ s = [hash |-> s.hash, source |-> s.source, created_at |-> s.created_at]
        /\ s.created_at = clock
    BY NowIsSnapshot DEF Child
  <2> QED
    BY <2>1, <2>2, <2>3, CreateKeepsHistory
<1>6. ASSUME NEW u \in Users, NEW i \in DOMAIN ledger.hash, NEW p \in Payloads,
             BranchTakingVote(u, i, p)
      PROVE  HistoryOK'
  <2> DEFINE s == Child(i, p)
             C == Created(ledger, u, s, rate)
             R == Released(C, u, i)
  <2>1. /\ CanCreate(ledger, u, s, rate) /\ CanRelease(C, u, i, rate) /\ Commit(R)
        /\ Creatable(s, clock)
    BY <1>6, CreatableChild DEF BranchTakingVote
  <2>2. /\ s = [hash |-> s.hash, source |-> s.source, created_at |-> s.created_at]
        /\ s.created_at = clock
    BY NowIsSnapshot DEF Child
  <2>3. Genuine(s, born, clock)
    BY <1>0, <2>1, <2>2, ChildGenuine DEF CanCreate
  <2> HIDE DEF s
  <2>4. \A j \in DOMAIN C.hash :
           SnapshotOf(C.hash[j]) \in born \/ SnapshotOf(C.hash[j]) = s
    BY <2>1, <2>2, InvIsLedgerOK, CreatedSnapshots DEF HistoryOK
  <2>5. LedgerOK(C, clock)
    BY <2>1, InvIsLedgerOK, CreatedOK
  <2> HIDE DEF C
  <2>6. \A j \in DOMAIN R.hash :
           j \in DOMAIN C.hash /\ SnapshotOf(R.hash[j]) = SnapshotOf(C.hash[j])
    BY <2>1, <2>5, InvIsLedgerOK, ReleasedSnapshots
  <2> HIDE DEF R
  <2> QED
    BY <2>1, <2>3, <2>4, <2>6, CommitKeepsHistory
<1>7. ASSUME NEW u \in Users, NEW ids \in MemberLists, Batch(u, ids) PROVE HistoryOK'
  <2> DEFINE s == Now(BatchSource(MemberSnapshots(ids)), MembersHash(MemberSnapshots(ids)))
  <2>1. Creatable(s, clock) /\ Create(u, s)
    BY <1>7, CreatableBatch DEF Batch
  <2>2. clock # 0 => Genuine(s, born, clock)
    BY <1>0, BatchGenuine
  <2> QED
    BY <2>1, <2>2, NowIsSnapshot, CreateKeepsHistory
<1>8. ASSUME NEW u \in Users, NEW ids \in MemberLists, Pack(u, ids) PROVE HistoryOK'
  <2> DEFINE s == Now(PackOrigin, MembersHash(MemberSnapshots(ids)))
  <2>1. Creatable(s, clock) /\ Create(u, s)
    BY <1>8, CreatablePack DEF Pack
  <2>2. clock # 0 => Genuine(s, born, clock)
    BY <1>0, PackGenuine
  <2> QED
    BY <2>1, <2>2, NowIsSnapshot, CreateKeepsHistory
<1>9. CASE Tick
  BY <1>0, <1>9 DEF Tick, HistoryOK, Genuine
<1>10. ASSUME NEW r \in Rates, RentChange(r) PROVE HistoryOK'
  BY <1>10 DEF RentChange, HistoryOK
<1>11. ASSUME NEW a \in Accounts, NEW v \in 0..MaxVersion, AccountChange(a, v)
       PROVE  HistoryOK'
  BY <1>11 DEF AccountChange, HistoryOK
<1>12. ASSUME NEW u \in Users, NEW a \in GiftTargets, NEW n \in Gifts, Gift(u, a, n)
       PROVE  HistoryOK'
  BY <1>12 DEF Gift, Transferred, HistoryOK
<1>13. CASE UNCHANGED vars
  BY <1>13 DEF vars, HistoryOK
<1> QED
  BY <1>1, <1>2, <1>3, <1>4, <1>5, <1>6, <1>7, <1>8, <1>9, <1>10, <1>11, <1>12, <1>13
     DEF Next, SomeGift

LEMMA InitHistory == Init => HistoryOK
BY DEF Init, HistoryOK

(***************************************************************************)
(* The history only grows, and whatever is in it could be created again.   *)
(***************************************************************************)
BornOK == \A s \in born : Creatable(s, clock)

\* Nothing is taken from the history, or added but what the ledger now has.
HistoryGrows ==
    /\ \A s \in born' :
          s \in born \/ \E i \in DOMAIN ledger'.hash : s = SnapshotOf(ledger'.hash[i])
    /\ born \subseteq born' /\ clock' \in Nat /\ clock <= clock'

LEMMA CommitAddsWhatIsThere == ASSUME Inv, NEW L, Commit(L) PROVE HistoryGrows
BY InvIsLedgerOK DEF Commit, environment, HistoryGrows

LEMMA NextAddsWhatIsThere ==
    ASSUME Inv, [Next]_vars PROVE HistoryGrows
<1> USE InvIsLedgerOK DEF HistoryGrows
<1>1. CASE \E u \in Users : \E s : Create(u, s)
  BY <1>1, CommitAddsWhatIsThere DEF Create
<1>2. CASE \E u \in Users : \E i \in DOMAIN ledger.hash :
              \/ Vote(u, i) \/ Unvote(u, i) \/ \E p \in Payloads : BranchTakingVote(u, i, p)
  BY <1>2, CommitAddsWhatIsThere DEF Vote, Unvote, BranchTakingVote
<1>3. CASE Tick
  BY <1>3 DEF Tick
<1>4. CASE \E r \in Rates : RentChange(r)
  BY <1>4 DEF RentChange
<1>5. CASE \E a \in Accounts, v \in 0..MaxVersion : AccountChange(a, v)
  BY <1>5 DEF AccountChange
<1>6. CASE SomeGift
  BY <1>6 DEF SomeGift, Gift
<1>7. CASE UNCHANGED vars
  BY <1>7 DEF vars
<1>8. ASSUME NEW u \in Users
      PROVE  /\ \A h \in RawHashes : Register(u, h) => \E s : Create(u, s)
             /\ \A a \in Accounts : AccountHash(u, a) => \E s : Create(u, s)
             /\ \A i, p : Branch(u, i, p) => \E s : Create(u, s)
             /\ \A ids : Batch(u, ids) \/ Pack(u, ids) => \E s : Create(u, s)
  BY DEF Register, AccountHash, Branch, Batch, Pack
<1> QED
  BY <1>1, <1>2, <1>3, <1>4, <1>5, <1>6, <1>7, <1>8 DEF Next

LEMMA GrowthKeepsBorn ==
    ASSUME Inv, Inv', BornOK, HistoryGrows PROVE BornOK'
<1>1. /\ \A s \in born' : s \in born \/ \E i \in DOMAIN ledger'.hash :
                                           s = SnapshotOf(ledger'.hash[i])
      /\ clock' \in Nat /\ clock \in Nat /\ clock <= clock'
  BY InvIsLedgerOK DEF HistoryGrows
<1>2. ASSUME NEW s \in born PROVE Creatable(s, clock')
  BY <1>1, <1>2 DEF BornOK, Creatable
<1>3. ASSUME NEW i \in DOMAIN ledger'.hash
      PROVE  Creatable(SnapshotOf(ledger'.hash[i]), clock')
  <2>1. RecordsOK(ledger', clock')
    BY DEF Inv, TypeOK
  <2> QED
    BY <1>1, <2>1 DEF RecordsOK, Creatable, SnapshotOf
<1> QED
  BY <1>1, <1>2, <1>3 DEF BornOK

LEMMA NextKeepsBorn ==
    ASSUME Inv, Inv', BornOK, [Next]_vars PROVE BornOK'
BY NextAddsWhatIsThere, GrowthKeepsBorn

(***************************************************************************)
(* What an id determines.                                                  *)
(***************************************************************************)

\* An id fixes the hash and the kind, and these fix the source.
LEMMA SameIdSameSource ==
    ASSUME NEW B, NEW now \in Nat, NEW s, NEW t, Genuine(s, B, now), Genuine(t, B, now),
           IdOf(s) = IdOf(t)
    PROVE  s.source = t.source
<1>1. s.hash = t.hash /\ s.source.kind = t.source.kind
  BY DEF IdOf, CanonicalId
<1>2. SourceFits(s) /\ SourceFits(t) /\ OriginsAmong(s, B) /\ OriginsAmong(t, B)
  BY DEF Genuine
<1>3. CASE s.source.kind \in {"Hash", "Pack", "Account"}
  BY <1>1, <1>2, <1>3 DEF SourceFits
<1>4. CASE s.source.kind = "Branch"
  <2>1. PICK q \in B : s.source = BranchSource(q, s.source.payload)
                        /\ s.hash = BranchHash(q, s.source.payload)
    BY <1>2, <1>4 DEF OriginsAmong
  <2>2. PICK r \in B : t.source = BranchSource(r, t.source.payload)
                        /\ t.hash = BranchHash(r, t.source.payload)
    BY <1>1, <1>2, <1>4 DEF OriginsAmong
  <2>3. \A x, p : /\ BranchHash(x, p)[2] = IdOf(x)
                  /\ BranchHash(x, p)[5] = Generation(x.source)
                  /\ BranchHash(x, p)[6] = p
    BY DEF BranchHash, BranchDigest
  <2>4. BranchHash(q, s.source.payload) = BranchHash(r, t.source.payload)
    BY <1>1, <2>1, <2>2
  <2>5. /\ IdOf(q) = IdOf(r) /\ Generation(q.source) = Generation(r.source)
        /\ s.source.payload = t.source.payload
    BY <2>3, <2>4
  <2>6. BranchSource(q, s.source.payload) = BranchSource(r, t.source.payload)
    BY <2>5 DEF BranchSource
  <2> QED
    BY <2>1, <2>2, <2>6
<1>5. CASE s.source.kind = "Batch"
  <2>1. \A n \in DOMAIN s.hash[2] : \E q \in B :
           s.hash[2][n] = Fingerprint(q) /\ s.source.members[n] = IdOf(q)
    BY <1>2, <1>5 DEF OriginsAmong
  <2>2. \A n \in DOMAIN t.hash[2] : \E q \in B :
           t.hash[2][n] = Fingerprint(q) /\ t.source.members[n] = IdOf(q)
    BY <1>1, <1>2, <1>5 DEF OriginsAmong
  <2>3. \A q, r : Fingerprint(q) = Fingerprint(r) => IdOf(q) = IdOf(r)
    BY DEF Fingerprint, IdOf, CanonicalId
  <2>4. \A n \in DOMAIN s.hash[2] : s.source.members[n] = t.source.members[n]
    BY <1>1, <2>1, <2>2, <2>3
  <2>5. [n \in DOMAIN s.hash[2] |-> s.source.members[n]]
           = [n \in DOMAIN t.hash[2] |-> t.source.members[n]]
    BY <1>1, <2>4
  <2> QED
    BY <1>1, <1>2, <1>5, <2>5 DEF SourceFits
<1> QED
  BY <1>2, <1>3, <1>4, <1>5 DEF SourceFits, Kinds

(***************************************************************************)
(* The theorems.                                                           *)
(***************************************************************************)

\* Whatever a record says of the records it derives from was true of records
\* that existed, whoever closed or recreated them since.
THEOREM OriginsWereRecords == Spec => []OriginsExisted
<1>1. HistoryOK => OriginsExisted
  BY DEF HistoryOK, Genuine, OriginsExisted
<1> QED
  BY <1>1, InitInv, NextKeepsInv, InitHistory, NextKeepsHistory, PTL DEF Spec

\* No two records ever had one id and different sources, although the id
\* digests nothing of the source but its kind.
THEOREM IdsDetermineSources == Spec => []IdDeterminesSource
<1>1. Inv /\ HistoryOK => IdDeterminesSource
  BY InvIsLedgerOK, SameIdSameSource DEF HistoryOK, IdDeterminesSource
<1> QED
  BY <1>1, InitInv, NextKeepsInv, InitHistory, NextKeepsHistory, PTL DEF Spec

(***************************************************************************)
(* Witnesses: what the runtime's operations on a ledger are on it.         *)
(***************************************************************************)

\* C is L with a new id, witnessed by u alone since time t.
FoundedIn(L, C, id, u, t) ==
    /\ id \notin DOMAIN SupportersOf(L)
    /\ DOMAIN SupportersOf(C) = DOMAIN SupportersOf(L) \cup {id}
    /\ SupportersOf(C) = W!Founded(SupportersOf(L), id, u)
    /\ StampsOf(C) = [j \in DOMAIN SupportersOf(C) |->
                         IF j = id THEN t ELSE StampsOf(L)[j]]

\* R is L without the support of u for id, and without id if that was all.
LeftIn(L, R, id, u) ==
    /\ id \in DOMAIN SupportersOf(L) /\ u \in SupportersOf(L)[id]
    /\ SupportersOf(R) = W!Left(SupportersOf(L), id, u)
    /\ StampsOf(R) = [j \in DOMAIN SupportersOf(R) |-> StampsOf(L)[j]]

\* A created record has one supporter and the stamp it was created with.
LEMMA CreatedFounds ==
    ASSUME NEW L, NEW now \in Nat, LedgerOK(L, now), NEW s, Creatable(s, now),
           NEW u \in Users, NEW r \in Rates, CanCreate(L, u, s, r)
    PROVE  FoundedIn(L, Created(L, u, s, r), IdOf(s), u, s.created_at)
<1> DEFINE C == Created(L, u, s, r)
           id == IdOf(s)
<1>1. /\ id \notin DOMAIN L.hash
      /\ DOMAIN C.vote = DOMAIN L.vote \cup {<<id, u>>}
      /\ C.hash = Put(L.hash, id, [hash |-> s.hash, source |-> s.source,
                                   voters |-> 1, created_at |-> s.created_at])
  BY CreatedOK
<1>2. \A k \in DOMAIN L.vote : k[1] \in DOMAIN L.hash
  BY DEF LedgerOK, CountersOK
<1> HIDE DEF C, id
<1>3. /\ DOMAIN C.hash = DOMAIN L.hash \cup {id}
      /\ C.hash[id].created_at = s.created_at
      /\ \A j \in DOMAIN L.hash : C.hash[j] = L.hash[j]
  BY <1>1 DEF Put
<1>4. \A v : <<id, v>> \notin DOMAIN L.vote
  <2>1. \A v : <<id, v>>[1] = id
    OBVIOUS
  <2> QED
    BY <1>1, <1>2, <2>1
<1>5. {v \in Users : <<id, v>> \in DOMAIN C.vote} = {u}
  BY <1>1, <1>4
<1>6. \A j \in DOMAIN L.hash : \A v : <<j, v>> \in DOMAIN C.vote <=> <<j, v>> \in DOMAIN L.vote
  BY <1>1
<1>7. SupportersOf(C) = W!Founded(SupportersOf(L), id, u)
  BY <1>1, <1>3, <1>5, <1>6 DEF SupportersOf, W!Founded
<1>8. StampsOf(C) = [j \in DOMAIN SupportersOf(C) |->
                        IF j = id THEN s.created_at ELSE StampsOf(L)[j]]
  BY <1>1, <1>3 DEF SupportersOf, StampsOf
<1>9. /\ id \notin DOMAIN SupportersOf(L)
      /\ DOMAIN SupportersOf(C) = DOMAIN SupportersOf(L) \cup {id}
  BY <1>1, <1>3 DEF SupportersOf
<1>10. FoundedIn(L, C, id, u, s.created_at)
  BY <1>7, <1>8, <1>9 DEF FoundedIn
<1> QED
  BY <1>10 DEF C, id

\* A new vote is a supporter more.
LEMMA VoteAddedSupports ==
    ASSUME NEW L, NEW now \in Nat, LedgerOK(L, now),
           NEW u \in Users, NEW id, NEW r \in Rates, CanAddVote(L, u, id, r, MaxVoters)
    PROVE  LET A == VoteAdded(L, u, id, r) IN
           /\ id \in DOMAIN SupportersOf(L) /\ u \notin SupportersOf(L)[id]
           /\ SupportersOf(A) = [SupportersOf(L) EXCEPT ![id] = @ \cup {u}]
           /\ StampsOf(A) = StampsOf(L)
<1> DEFINE A == VoteAdded(L, u, id, r)
<1>1. /\ DOMAIN A.vote = DOMAIN L.vote \cup {<<id, u>>}
      /\ DOMAIN A.hash = DOMAIN L.hash
      /\ \A i \in DOMAIN L.hash : SnapshotOf(A.hash[i]) = SnapshotOf(L.hash[i])
  BY VoteAddedOK
<1>2. id \in DOMAIN L.hash /\ <<id, u>> \notin DOMAIN L.vote
  BY DEF CanAddVote, CanCreateVote, Live
<1> HIDE DEF A
<1>3. \A i \in DOMAIN L.hash : A.hash[i].created_at = L.hash[i].created_at
  BY <1>1 DEF SnapshotOf
<1>4. id \in DOMAIN SupportersOf(L) /\ u \notin SupportersOf(L)[id]
  BY <1>2 DEF SupportersOf
<1>5. \A j \in DOMAIN L.hash :
         {v \in Users : <<j, v>> \in DOMAIN A.vote}
            = IF j = id THEN {v \in Users : <<j, v>> \in DOMAIN L.vote} \cup {u}
              ELSE {v \in Users : <<j, v>> \in DOMAIN L.vote}
  BY <1>1
<1>6. SupportersOf(A) = [SupportersOf(L) EXCEPT ![id] = @ \cup {u}]
  BY <1>1, <1>2, <1>5 DEF SupportersOf
<1>7. StampsOf(A) = StampsOf(L)
  BY <1>1, <1>3 DEF StampsOf
<1> QED
  BY <1>4, <1>6, <1>7 DEF A

\* A released vote is a supporter less, and the end of an id with no other.
LEMMA ReleasedLeaves ==
    ASSUME NEW L, NEW now \in Nat, LedgerOK(L, now),
           NEW u \in Users, NEW id, NEW r \in Rates, CanRelease(L, u, id, r)
    PROVE  LeftIn(L, Released(L, u, id), id, u)
<1> DEFINE R == Released(L, u, id)
<1>1. /\ DOMAIN R.vote = DOMAIN L.vote \ {<<id, u>>}
      /\ DOMAIN R.hash = IF Votes(L, id) = {<<id, u>>}
                         THEN DOMAIN L.hash \ {id} ELSE DOMAIN L.hash
      /\ \A i \in DOMAIN R.hash : SnapshotOf(R.hash[i]) = SnapshotOf(L.hash[i])
  <2>1. WithoutVote(L, Released(L, u, id), u, id)
    BY ReleasedOK
  <2> QED
    BY <2>1 DEF WithoutVote
<1>2. id \in DOMAIN L.hash /\ <<id, u>> \in DOMAIN L.vote
  BY DEF CanRelease, Live
<1>3. \A k \in DOMAIN L.vote : k = <<k[1], k[2]>> /\ k[2] \in Users
  BY DEF LedgerOK, VotesOK
<1> HIDE DEF R
<1> DEFINE S == SupportersOf(L)
<1>4. id \in DOMAIN S /\ S[id] = {v \in Users : <<id, v>> \in DOMAIN L.vote}
  BY <1>2 DEF SupportersOf
<1>5. u \in S[id]
  BY <1>2, <1>4
<1>6. Votes(L, id) = {<<id, u>>} <=> S[id] = {u}
  <2>1. ASSUME Votes(L, id) = {<<id, u>>} PROVE S[id] = {u}
    <3>1. \A v \in S[id] : <<id, v>> \in Votes(L, id)
      BY <1>4 DEF Votes
    <3>2. \A v \in S[id] : v = u
      BY <2>1, <3>1
    <3> QED
      BY <1>5, <3>2
  <2>2. ASSUME S[id] = {u} PROVE Votes(L, id) = {<<id, u>>}
    <3>1. \A k \in Votes(L, id) : k = <<id, k[2]>> /\ k[2] \in S[id]
      BY <1>3, <1>4 DEF Votes
    <3>2. <<id, u>> \in Votes(L, id)
      BY <1>2 DEF Votes
    <3>3. \A k \in Votes(L, id) : k[2] = u
      BY <2>2, <3>1
    <3>4. \A k \in Votes(L, id) : k = <<id, u>>
      BY <3>1, <3>3
    <3> QED
      BY <3>2, <3>4
  <2> QED
    BY <2>1, <2>2
<1>7. \A j \in DOMAIN R.hash : j \in DOMAIN L.hash /\ R.hash[j].created_at = L.hash[j].created_at
  BY <1>1 DEF SnapshotOf
<1>8. SupportersOf(R) = W!Left(S, id, u)
  <2>1. CASE S[id] = {u}
    <3>1. DOMAIN R.hash = DOMAIN L.hash \ {id}
      BY <1>1, <1>6, <2>1
    <3>2. \A j \in DOMAIN R.hash : \A v :
             <<j, v>> \in DOMAIN R.vote <=> <<j, v>> \in DOMAIN L.vote
      BY <1>1, <3>1
    <3> QED
      BY <2>1, <3>1, <3>2 DEF SupportersOf, W!Left, W!Without
  <2>2. CASE S[id] # {u}
    <3>1. DOMAIN R.hash = DOMAIN L.hash
      BY <1>1, <1>6, <2>2
    <3>2. \A j \in DOMAIN L.hash :
             {v \in Users : <<j, v>> \in DOMAIN R.vote}
                = IF j = id THEN {v \in Users : <<j, v>> \in DOMAIN L.vote} \ {u}
                  ELSE {v \in Users : <<j, v>> \in DOMAIN L.vote}
      BY <1>1
    <3>3. SupportersOf(R) = [S EXCEPT ![id] = @ \ {u}]
      BY <1>2, <3>1, <3>2 DEF SupportersOf
    <3> QED
      BY <2>2, <3>3 DEF W!Left
  <2> QED
    BY <2>1, <2>2
<1>9. StampsOf(R) = [j \in DOMAIN SupportersOf(R) |-> StampsOf(L)[j]]
  BY <1>7 DEF StampsOf, SupportersOf
<1>10. LeftIn(L, R, id, u)
  BY <1>4, <1>5, <1>8, <1>9 DEF LeftIn
<1> QED
  BY <1>10 DEF R

(***************************************************************************)
(* Every step is a step of Witnesses or none.                              *)
(***************************************************************************)

\* Every instruction that only creates founds the id of what it creates.
LEMMA CreateFounds ==
    ASSUME Inv, NEW u \in Users, NEW s, Creatable(s, clock), s.created_at = clock,
           Create(u, s)
    PROVE  W!WNext
<1> DEFINE C == Created(ledger, u, s, rate)
<1>1. CanCreate(ledger, u, s, rate) /\ ledger' = C /\ clock' = clock
  BY DEF Create, Commit, environment
<1>2. clock # 0
  BY <1>1 DEF CanCreate
<1>3. FoundedIn(ledger, C, IdOf(s), u, clock)
  BY <1>1, InvIsLedgerOK, CreatedFounds
<1> HIDE DEF C
<1>4. SupportersOf(ledger)' = SupportersOf(C) /\ StampsOf(ledger)' = StampsOf(C)
  BY <1>1 DEF SupportersOf, StampsOf
<1>5. W!Found(u, IdOf(s))
  BY <1>1, <1>2, <1>3, <1>4 DEF FoundedIn, W!Found
<1>6. IdOf(s) \in DOMAIN SupportersOf(ledger)'
  BY <1>3, <1>4 DEF FoundedIn
<1> QED
  BY <1>5, <1>6 DEF W!WNext

LEMMA NextImplements == Inv /\ [Next]_vars => [W!WNext]_(W!wvars)
<1> SUFFICES ASSUME Inv, [Next]_vars PROVE W!WNext \/ UNCHANGED W!wvars
  OBVIOUS
<1>1. ASSUME NEW u \in Users, NEW h \in RawHashes, Register(u, h) PROVE W!WNext
  BY <1>1, CreatableRaw, CreateFounds DEF Register, Now
<1>2. ASSUME NEW u \in Users, NEW a \in Accounts, AccountHash(u, a) PROVE W!WNext
  BY <1>2, CreatableAccount, CreateFounds DEF AccountHash, Now
<1>3. ASSUME NEW u \in Users, NEW i \in DOMAIN ledger.hash, Vote(u, i) PROVE W!WNext
  <2> DEFINE A == VoteAdded(ledger, u, i, rate)
  <2>1. /\ CanAddVote(ledger, u, i, rate, MaxVoters)
        /\ ledger' = A /\ clock' = clock
    BY <1>3 DEF Vote, Commit, environment
  <2>2. /\ i \in DOMAIN SupportersOf(ledger) /\ u \notin SupportersOf(ledger)[i]
        /\ SupportersOf(A) = [SupportersOf(ledger) EXCEPT ![i] = @ \cup {u}]
        /\ StampsOf(A) = StampsOf(ledger)
    BY <2>1, InvIsLedgerOK, VoteAddedSupports
  <2> HIDE DEF A
  <2>3. SupportersOf(ledger)' = SupportersOf(A) /\ StampsOf(ledger)' = StampsOf(A)
    BY <2>1 DEF SupportersOf, StampsOf
  <2>4. W!Support(u, i)
    BY <2>1, <2>2, <2>3 DEF W!Support
  <2> QED
    BY <2>2, <2>4 DEF W!WNext
<1>4. ASSUME NEW u \in Users, NEW i \in DOMAIN ledger.hash, Unvote(u, i) PROVE W!WNext
  <2> DEFINE R == Released(ledger, u, i)
  <2>1. CanRelease(ledger, u, i, rate) /\ ledger' = R /\ clock' = clock
    BY <1>4 DEF Unvote, Commit, environment
  <2>2. LeftIn(ledger, R, i, u)
    BY <2>1, InvIsLedgerOK, ReleasedLeaves
  <2> HIDE DEF R
  <2>3. SupportersOf(ledger)' = SupportersOf(R) /\ StampsOf(ledger)' = StampsOf(R)
    BY <2>1 DEF SupportersOf, StampsOf
  <2>4. W!Withdraw(u, i)
    BY <2>1, <2>2, <2>3 DEF LeftIn, W!Withdraw
  <2> QED
    BY <2>2, <2>4 DEF LeftIn, W!WNext
<1>5. ASSUME NEW u \in Users, NEW i \in DOMAIN ledger.hash, NEW p \in Payloads,
             Branch(u, i, p)
      PROVE  W!WNext
  BY <1>5, CreatableChild, CreateFounds DEF Branch, Child, Now
<1>6. ASSUME NEW u \in Users, NEW i \in DOMAIN ledger.hash, NEW p \in Payloads,
             BranchTakingVote(u, i, p)
      PROVE  W!WNext
  <2> DEFINE s == Child(i, p)
             C == Created(ledger, u, s, rate)
             R == Released(C, u, i)
  <2>1. /\ CanCreate(ledger, u, s, rate) /\ CanRelease(C, u, i, rate)
        /\ ledger' = R /\ clock' = clock
        /\ <<i, u>> \in DOMAIN ledger.vote
        /\ Creatable(s, clock)
    BY <1>6, CreatableChild DEF BranchTakingVote, HasVoteToMigrate, Commit, environment
  <2>2. s.created_at = clock /\ clock # 0
    BY <2>1 DEF Child, Now, CanCreate
  <2> HIDE DEF s
  <2>3. FoundedIn(ledger, C, IdOf(s), u, clock)
    BY <2>1, <2>2, InvIsLedgerOK, CreatedFounds
  <2>4. LedgerOK(C, clock)
    BY <2>1, InvIsLedgerOK, CreatedOK
  <2> HIDE DEF C
  <2>5. LeftIn(C, R, i, u)
    BY <2>1, <2>4, InvIsLedgerOK, ReleasedLeaves
  <2> HIDE DEF R
  <2>6. SupportersOf(ledger)' = SupportersOf(R) /\ StampsOf(ledger)' = StampsOf(R)
    BY <2>1 DEF SupportersOf, StampsOf
  <2>7. /\ i \in DOMAIN SupportersOf(ledger) /\ u \in SupportersOf(ledger)[i]
        /\ i # IdOf(s)
    BY <2>1, <2>3 DEF FoundedIn, SupportersOf
  <2>8. IdOf(s) \in DOMAIN SupportersOf(R) /\ DOMAIN SupportersOf(R) \subseteq DOMAIN SupportersOf(C)
    BY <2>3, <2>5, <2>7 DEF FoundedIn, LeftIn, W!Left, W!Without, W!Founded
  <2>9. StampsOf(R) = [j \in DOMAIN SupportersOf(R) |->
                          IF j = IdOf(s) THEN clock ELSE StampsOf(ledger)[j]]
    BY <2>3, <2>5, <2>8 DEF FoundedIn, LeftIn
  <2>10. W!Move(u, i, IdOf(s))
    BY <2>1, <2>2, <2>3, <2>5, <2>6, <2>7, <2>9 DEF FoundedIn, LeftIn, W!Move
  <2> QED
    BY <2>6, <2>7, <2>8, <2>10 DEF W!WNext
<1>7. ASSUME NEW u \in Users, NEW ids \in MemberLists, Batch(u, ids) PROVE W!WNext
  BY <1>7, CreatableBatch, CreateFounds DEF Batch, Now
<1>8. ASSUME NEW u \in Users, NEW ids \in MemberLists, Pack(u, ids) PROVE W!WNext
  BY <1>8, CreatablePack, CreateFounds DEF Pack, Now
<1>9. ASSUME Tick PROVE W!WNext
  BY <1>9 DEF Tick, W!WNext, W!Pass, SupportersOf, StampsOf
<1>10. ASSUME NEW r \in Rates, RentChange(r) PROVE UNCHANGED W!wvars
  BY <1>10 DEF RentChange, W!wvars, SupportersOf, StampsOf
<1>11. ASSUME NEW a \in Accounts, NEW v \in 0..MaxVersion, AccountChange(a, v)
       PROVE  UNCHANGED W!wvars
  BY <1>11 DEF AccountChange, W!wvars, SupportersOf, StampsOf
<1>12. ASSUME NEW u \in Users, NEW a \in GiftTargets, NEW n \in Gifts, Gift(u, a, n)
       PROVE  UNCHANGED W!wvars
  BY <1>12 DEF Gift, Transferred, W!wvars, SupportersOf, StampsOf
<1>13. ASSUME UNCHANGED vars PROVE UNCHANGED W!wvars
  BY <1>13 DEF vars, W!wvars, SupportersOf, StampsOf
<1> QED
  BY <1>1, <1>2, <1>3, <1>4, <1>5, <1>6, <1>7, <1>8, <1>9, <1>10, <1>11, <1>12, <1>13
     DEF Next, SomeGift

LEMMA InitImplements == Init => W!WInit
BY DEF Init, W!WInit, SupportersOf, StampsOf

\* The program implements Witnesses: among any users, a live timestamp is
\* never rewritten, a vote ends only by its voter's own instruction, and an
\* id is forgotten exactly when its last voter leaves.
THEOREM RecordsRefineWitnesses == Spec => ImplementsWitnesses
<1> QED
  BY InitInv, NextKeepsInv, InitImplements, NextImplements, PTL
     DEF Spec, ImplementsWitnesses, W!WSpec
=============================================================================
