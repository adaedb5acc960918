------------------------------- MODULE Ledger -------------------------------
(***************************************************************************)
(* The accounts the program keeps, as a value, and what the runtime layer  *)
(* of the program does to them.  A ledger L has three parts:               *)
(*   L.hash      id -> record: the live HashAccounts.  An id outside the   *)
(*               domain is an address the program does not own;            *)
(*   L.vote      <<id, voter>> -> the refundable amount of the VoteInfo;   *)
(*   L.lamports  address -> balance, for the addresses with one.           *)
(* An operator named Can... is the conjunction of the checks of one        *)
(* runtime function, and the participle next to it the ledger it leaves.   *)
(* A transaction is atomic: one failed check leaves the ledger as it was.  *)
(*                                                                         *)
(* rate is the price of the rent sysvar when the function reads it.        *)
(***************************************************************************)
EXTENDS Identity, Functions

Put(f, k, v) == [x \in DOMAIN f \cup {k} |-> IF x = k THEN v ELSE f[x]]
Drop(f, k) == Restrict(f, DOMAIN f \ {k})

\* Rent::minimum_balance: the runtime charges 128 bytes of account overhead.
Reserve(space, rate) == (128 + space) * rate

Balance(L, a) == IF a \in DOMAIN L.lamports THEN L.lamports[a] ELSE 0

\* An account left with no lamports ceases to exist.
SetBalance(lamports, a, n) == IF n = 0 THEN Drop(lamports, a) ELSE Put(lamports, a, n)

\* Mutant: the destination's balance is overwritten, not added to.
TransferredOverwriting(L, from, to, n) ==
    [hash |-> L.hash, vote |-> L.vote,
     lamports |->
        IF n = 0 THEN L.lamports
        ELSE SetBalance(SetBalance(L.lamports, from, Balance(L, from) - n), to, n)]

\* Moves n lamports between two different accounts.
Transferred(L, from, to, n) ==
    [hash |-> L.hash, vote |-> L.vote,
     lamports |->
        IF n = 0 THEN L.lamports
        ELSE SetBalance(SetBalance(L.lamports, from, Balance(L, from) - n),
                        to, Balance(L, to) + n)]

\* Mutant: an address that holds anything is taken for funded.
TopUpOnlyEmpty(L, a, space, rate) ==
    IF Balance(L, a) > 0 THEN 0 ELSE Reserve(space, rate)

(***************************************************************************)
(* create_or_claim_pda and top_up_to_rent: a vacant address may have been  *)
(* prefunded by anyone; the payer adds only what the reserve lacks.  The   *)
(* create branch (balance 0) is the top-up of the whole reserve.           *)
(***************************************************************************)
TopUp(L, a, space, rate) ==
    IF Balance(L, a) >= Reserve(space, rate) THEN 0
    ELSE Reserve(space, rate) - Balance(L, a)

Claimed(L, payer, a, space, rate) ==
    Transferred(L, Wallet(payer), a, TopUp(L, a, space, rate))

(***************************************************************************)
(* vote_record::create.  amount is the claim the vote records, deposit     *)
(* what the payer sends to the record for it: the two differ only for the  *)
(* initial vote, whose claim is the record's own reserve.                  *)
(***************************************************************************)
CanCreateVote(L, payer, id, deposit, rate) ==
    /\ <<id, payer>> \notin DOMAIN L.vote
    /\ id \in DOMAIN L.hash
    /\ Balance(L, Wallet(payer)) >=
          TopUp(L, VoteAddress(id, payer), VoteInfoSpace, rate) + deposit

VoteCreated(L, payer, id, amount, deposit, rate) ==
    LET claimed == Claimed(L, payer, VoteAddress(id, payer), VoteInfoSpace, rate)
        funded  == Transferred(claimed, Wallet(payer), HashAddress(id), deposit)
    IN  [hash     |-> funded.hash,
         vote     |-> Put(funded.vote, <<id, payer>>, amount),
         lamports |-> funded.lamports]

\* Mutant: a live record at the address is no obstacle.
CanCreateHashOver(L, payer, s, rate) ==
    Balance(L, Wallet(payer)) >= TopUp(L, HashAddress(IdOf(s)), Space(s.source), rate)

\* hash_record::create for the record of snapshot s, with one voter.
CanCreateHash(L, payer, s, rate) ==
    /\ IdOf(s) \notin DOMAIN L.hash
    /\ Balance(L, Wallet(payer)) >=
          TopUp(L, HashAddress(IdOf(s)), Space(s.source), rate)

HashCreated(L, payer, s, rate) ==
    LET claimed == Claimed(L, payer, HashAddress(IdOf(s)), Space(s.source), rate)
    IN  [hash     |-> Put(claimed.hash, IdOf(s),
                          [hash |-> s.hash, source |-> s.source, voters |-> 1,
                           created_at |-> s.created_at]),
         vote     |-> claimed.vote,
         lamports |-> claimed.lamports]

\* Mutant: the clock's zero is a timestamp like any other.
CanCreateAtZero(L, payer, s, rate) ==
    /\ CanCreateHash(L, payer, s, rate)
    /\ CanCreateVote(HashCreated(L, payer, s, rate), payer, IdOf(s), 0, rate)

\* Mutant: the initial vote's claim is deposited on top of the reserve.
CreatedDepositing(L, payer, s, rate) ==
    LET reserve == Reserve(Space(s.source), rate)
    IN  VoteCreated(HashCreated(L, payer, s, rate), payer, IdOf(s), reserve, reserve, rate)

(***************************************************************************)
(* NewHashRecord (created_at may not be zero) and RecordWriter::           *)
(* create_with_initial_vote: the record, then its first vote.              *)
(***************************************************************************)
CanCreate(L, payer, s, rate) ==
    /\ s.created_at # 0
    /\ CanCreateHash(L, payer, s, rate)
    /\ CanCreateVote(HashCreated(L, payer, s, rate), payer, IdOf(s), 0, rate)

Created(L, payer, s, rate) ==
    VoteCreated(HashCreated(L, payer, s, rate), payer, IdOf(s),
                Reserve(Space(s.source), rate), 0, rate)

\* validate_live: the check every handler makes of a record it reads.
Live(L, id) ==
    /\ id \in DOMAIN L.hash
    /\ L.hash[id].created_at # 0
    /\ L.hash[id].voters > 0

(***************************************************************************)
(* RecordWriter::add_vote: the deposit is the reserve at today's rate, and *)
(* the counter is a checked_add (maxVoters stands for u64::MAX).           *)
(***************************************************************************)
WithVoters(L, id, n) ==
    [hash     |-> Put(L.hash, id, [hash       |-> L.hash[id].hash,
                                   source     |-> L.hash[id].source,
                                   voters     |-> n,
                                   created_at |-> L.hash[id].created_at]),
     vote     |-> L.vote,
     lamports |-> L.lamports]

CanAddVote(L, payer, id, rate, maxVoters) ==
    /\ Live(L, id)
    /\ CanCreateVote(L, payer, id, Reserve(Space(L.hash[id].source), rate), rate)
    /\ L.hash[id].voters < maxVoters

VoteAdded(L, payer, id, rate) ==
    LET deposit == Reserve(Space(L.hash[id].source), rate)
    IN  WithVoters(VoteCreated(L, payer, id, deposit, deposit, rate),
                   id, L.hash[id].voters + 1)

(***************************************************************************)
(* ValidatedVote::release.  A refund that is not the last must leave the   *)
(* record its reserve at today's rate; the last one takes all the record   *)
(* holds and closes it.  Closing an account hands its balance over and     *)
(* gives the address back to the System Program.                           *)
(***************************************************************************)
RefundKeepsMoreThanReserve(L, id, amount, rate) ==  \* Mutant: > for >=.
    Balance(L, HashAddress(id)) > amount + Reserve(Space(L.hash[id].source), rate)

RefundKeepsReserve(L, id, amount, rate) ==
    Balance(L, HashAddress(id)) >= amount + Reserve(Space(L.hash[id].source), rate)

CanRelease(L, voter, id, rate) ==
    /\ Live(L, id)
    /\ <<id, voter>> \in DOMAIN L.vote
    /\ L.hash[id].voters > 1 /\ L.vote[<<id, voter>>] > 0
          => RefundKeepsReserve(L, id, L.vote[<<id, voter>>], rate)

VoteClosed(L, voter, id) ==
    LET paid == Transferred(L, VoteAddress(id, voter), Wallet(voter),
                            Balance(L, VoteAddress(id, voter)))
    IN  [hash |-> paid.hash, vote |-> Drop(paid.vote, <<id, voter>>),
         lamports |-> paid.lamports]

HashClosed(L, voter, id) ==
    LET paid == Transferred(L, HashAddress(id), Wallet(voter),
                            Balance(L, HashAddress(id)))
    IN  [hash |-> Drop(paid.hash, id), vote |-> paid.vote, lamports |-> paid.lamports]

\* Mutant: last is decided on the counter after the decrement to one.
ReleasedClosingEarly(L, voter, id) ==
    IF L.hash[id].voters <= 2
    THEN HashClosed(VoteClosed(L, voter, id), voter, id)
    ELSE Transferred(WithVoters(VoteClosed(L, voter, id), id, L.hash[id].voters - 1),
                     HashAddress(id), Wallet(voter), L.vote[<<id, voter>>])

Released(L, voter, id) ==
    IF L.hash[id].voters = 1
    THEN HashClosed(VoteClosed(L, voter, id), voter, id)
    ELSE Transferred(WithVoters(VoteClosed(L, voter, id), id, L.hash[id].voters - 1),
                     HashAddress(id), Wallet(voter), L.vote[<<id, voter>>])
=============================================================================
