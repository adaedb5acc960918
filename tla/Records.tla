------------------------------ MODULE Records -------------------------------
(***************************************************************************)
(* The on-chain program: hash records, the votes that witness them and the *)
(* lamports behind both.  Every action but the last four is one            *)
(* instruction of the program, run to its end: a transaction is atomic, so *)
(* an instruction that fails is not a step.  The last four are what        *)
(* happens around the program: time, a change of the rent price, a change  *)
(* of an account whose metadata users timestamp, and lamports anyone may   *)
(* send to any address.                                                    *)
(***************************************************************************)
EXTENDS Ledger, FiniteSets

CONSTANTS
    Users,          \* the signers
    RawHashes,      \* the 32-byte values users register
    Payloads,       \* the payloads users branch with
    Accounts,       \* the accounts whose metadata users timestamp
    Rates,          \* the prices the rent sysvar may take
    Gifts,          \* the amounts sent to an address from outside the program
    Endowment,      \* what each wallet starts with
    MaxGeneration,  \* u64::MAX of the generation counter
    MaxVoters,      \* u64::MAX of the voter counter
    MaxTime,        \* bound: the last second of the clock
    MaxVersion,     \* bound: the metadata of an account is one of 0..MaxVersion
    MaxRecords,     \* bound: different snapshots ever created
    MaxMembers,     \* bound: members of an aggregate
    MaxGifts        \* bound: gifts in a behaviour

ASSUME UsersAssumption == IsFiniteSet(Users)
ASSUME RatesAssumption == Rates \subseteq Nat \ {0} /\ Rates # {}
ASSUME GiftsAssumption == Gifts \subseteq Nat \ {0}
ASSUME BoundsAssumption ==
    {Endowment, MaxGeneration, MaxVoters, MaxTime, MaxVersion, MaxRecords,
     MaxMembers, MaxGifts} \subseteq Nat
ASSUME MaxVotersAssumption == MaxVoters > 0

VARIABLES
    ledger,   \* the accounts, see module Ledger
    born,     \* history: the snapshot of every record ever created
    clock,    \* the unix_timestamp of the Clock sysvar
    rate,     \* the price of the Rent sysvar
    version,  \* version[a]: what the metadata of account a now says
    gifts     \* how many gifts were made, for the bound

vars == <<ledger, born, clock, rate, version, gifts>>
environment == <<clock, rate, version, gifts>>

(***************************************************************************)
(* Initially the program owns no account.                                  *)
(***************************************************************************)
Wallets == {Wallet(u) : u \in Users}

Init ==
    /\ ledger = [hash |-> <<>>, vote |-> <<>>,
                 lamports |-> [w \in Wallets |-> Endowment]]
    /\ born = {}
    /\ clock = 0
    /\ rate \in Rates
    /\ version = [a \in Accounts |-> 0]
    /\ gifts = 0

(***************************************************************************)
(* The instructions.                                                       *)
(***************************************************************************)

\* The end of a transaction: its ledger is the ledger, and the history
\* remembers the records it has.
Commit(L) ==
    /\ ledger' = L
    /\ born' = born \cup {SnapshotOf(L.hash[i]) : i \in DOMAIN L.hash}
    /\ UNCHANGED environment

RoomFor(s) == Cardinality(born \cup {s}) <= MaxRecords

\* A record for (source, hash) at the time of the clock, with its first vote.
Now(source, hash) == [hash |-> hash, source |-> source, created_at |-> clock]

Create(u, s) ==
    /\ RoomFor(s)
    /\ CanCreate(ledger, u, s, rate)
    /\ Commit(Created(ledger, u, s, rate))

Register(u, h) == Create(u, Now(HashOrigin, h))

AccountHash(u, a) == Create(u, Now(AccountOrigin(a), MetadataDigest(a, version[a])))

\* Mutant: the child commits to the time of the branch, not of the parent.
ChildOfNow(parent, p) ==
    LET s == [SnapshotOf(ledger.hash[parent]) EXCEPT !.created_at = clock]
    IN  Now(BranchSource(s, p), BranchHash(s, p))

\* The child of parent under payload p.
Child(parent, p) ==
    LET s == SnapshotOf(ledger.hash[parent])
    IN  Now(BranchSource(s, p), BranchHash(s, p))

\* Without take_vote the caller's vote on the parent is checked, not used.
Branch(u, parent, p) ==
    /\ Live(ledger, parent)
    /\ Generation(ledger.hash[parent].source) < MaxGeneration
    /\ Create(u, Child(parent, p))

\* validate_vote_migration with take_vote: there is a vote to take.
HasVoteToMigrate(u, parent) == <<parent, u>> \in DOMAIN ledger.vote

\* With take_vote the child is created first, then the parent's vote released.
BranchTakingVote(u, parent, p) ==
    LET withChild == Created(ledger, u, Child(parent, p), rate)
    IN  /\ Live(ledger, parent)
        /\ Generation(ledger.hash[parent].source) < MaxGeneration
        /\ HasVoteToMigrate(u, parent)
        /\ RoomFor(Child(parent, p))
        /\ CanCreate(ledger, u, Child(parent, p), rate)
        /\ CanRelease(withChild, u, parent, rate)
        /\ Commit(Released(withChild, u, parent))

\* VerifiedMembers::load: a nonempty list of different live records.
MemberLists == UNION {[1..n -> DOMAIN ledger.hash] : n \in 1..MaxMembers}

VerifiedMembers(ids) ==
    /\ Len(ids) > 0
    /\ \A i \in DOMAIN ids : Live(ledger, ids[i])
    /\ IsInjective(ids)

MemberSnapshots(ids) == [i \in DOMAIN ids |-> SnapshotOf(ledger.hash[ids[i]])]

Batch(u, ids) ==
    /\ VerifiedMembers(ids)
    /\ Create(u, Now(BatchSource(MemberSnapshots(ids)), MembersHash(MemberSnapshots(ids))))

Pack(u, ids) ==
    /\ VerifiedMembers(ids)
    /\ Create(u, Now(PackOrigin, MembersHash(MemberSnapshots(ids))))

Vote(u, id) ==
    /\ CanAddVote(ledger, u, id, rate, MaxVoters)
    /\ Commit(VoteAdded(ledger, u, id, rate))

Unvote(u, id) ==
    /\ CanRelease(ledger, u, id, rate)
    /\ Commit(Released(ledger, u, id))

(***************************************************************************)
(* Around the program.                                                     *)
(***************************************************************************)
Tick ==
    /\ clock < MaxTime
    /\ clock' = clock + 1
    /\ UNCHANGED <<ledger, born, rate, version, gifts>>

RentChange(r) ==
    /\ r # rate
    /\ rate' = r
    /\ UNCHANGED <<ledger, born, clock, version, gifts>>

AccountChange(a, v) ==
    /\ v # version[a]
    /\ version' = [version EXCEPT ![a] = v]
    /\ UNCHANGED <<ledger, born, clock, rate, gifts>>

\* The addresses users send lamports to: the records and votes there are,
\* and those a registration would create.
ForeseeableIds == DOMAIN ledger.hash \cup {CanonicalId(h, HashOrigin) : h \in RawHashes}

GiftTargets ==
    {HashAddress(i) : i \in ForeseeableIds}
        \cup {VoteAddress(i, u) : i \in ForeseeableIds, u \in Users}

Gift(u, a, n) ==
    /\ gifts < MaxGifts
    /\ Balance(ledger, Wallet(u)) >= n
    /\ ledger' = Transferred(ledger, Wallet(u), a, n)
    /\ gifts' = gifts + 1
    /\ UNCHANGED <<born, clock, rate, version>>

SomeGift == \E u \in Users, a \in GiftTargets, n \in Gifts : Gift(u, a, n)

Next ==
    \/ \E u \in Users :
          \/ \E h \in RawHashes : Register(u, h)
          \/ \E a \in Accounts : AccountHash(u, a)
          \/ \E i \in DOMAIN ledger.hash :
                \/ Vote(u, i)
                \/ Unvote(u, i)
                \/ \E p \in Payloads : Branch(u, i, p) \/ BranchTakingVote(u, i, p)
          \/ \E ids \in MemberLists : Batch(u, ids) \/ Pack(u, ids)
    \/ Tick
    \/ \E r \in Rates : RentChange(r)
    \/ \E a \in Accounts, v \in 0..MaxVersion : AccountChange(a, v)
    \/ SomeGift

Spec == Init /\ [][Next]_vars

(***************************************************************************)
(* Properties.                                                             *)
(***************************************************************************)
Votes(L, id) == {k \in DOMAIN L.vote : k[1] = id}

RecordsOK(L, now) ==
    \A i \in DOMAIN L.hash :
        /\ IdOf(L.hash[i]) = i
        /\ L.hash[i].voters \in 1..MaxVoters
        /\ L.hash[i].created_at \in 1..now
        /\ Generation(L.hash[i].source) \in 0..MaxGeneration
        /\ Space(L.hash[i].source) \in Nat

VotesOK(L) ==
    /\ IsFiniteSet(DOMAIN L.vote)
    /\ \A k \in DOMAIN L.vote :
          k = <<k[1], k[2]>> /\ k[2] \in Users /\ L.vote[k] \in Nat

BalancesOK(L) == \A a \in DOMAIN L.lamports : L.lamports[a] \in Nat

CountersOK(L) ==
    /\ \A k \in DOMAIN L.vote : k[1] \in DOMAIN L.hash
    /\ \A i \in DOMAIN L.hash : L.hash[i].voters = Cardinality(Votes(L, i))

\* Every account the program owns is well formed: a live record is stored
\* under the id its content derives, was created at or before now, and has
\* a voter; a claim and a balance are amounts.
TypeOK ==
    /\ RecordsOK(ledger, clock) /\ VotesOK(ledger) /\ BalancesOK(ledger)
    /\ clock \in 0..MaxTime
    /\ rate \in Rates
    /\ version \in [Accounts -> 0..MaxVersion]
    /\ gifts \in 0..MaxGifts

\* The voter counter of a live record is the number of votes there are for
\* it, and no vote outlives its record: otherwise a close would strand the
\* claims of the others, or a record opened anew under the same id would
\* find a voter who cannot vote (AlreadyVoted) and a claim nobody paid for.
VotersMatchVotes == CountersOK(ledger)

\* The parent of s, or the members of s, are among some records, with what
\* the source and the digest of s say of them, and no younger than s.
OriginsAmong(s, records) ==
    /\ s.source.kind = "Branch" =>
          \E q \in records :
             /\ s.source = BranchSource(q, s.source.payload)
             /\ s.hash = BranchHash(q, s.source.payload)
             /\ q.created_at <= s.created_at
    /\ s.source.kind \in {"Batch", "Pack"} =>
          /\ s.hash = MembersDigest(s.hash[2]) /\ Len(s.hash[2]) > 0
          /\ \A n \in DOMAIN s.hash[2] :
                \E q \in records :
                   /\ s.hash[2][n] = Fingerprint(q)
                   /\ q.created_at <= s.created_at
                   /\ s.source.kind = "Batch" => s.source.members[n] = IdOf(q)

\* What a derived record says of its origins was true: the parent of a
\* branch and every member of a batch or a pack existed, with the hash, the
\* kind, the generation and the created_at the digest commits to, and no
\* later than the record made from them.  The origins may be closed since.
OriginsExisted == \A s \in born : OriginsAmong(s, born)

\* The id of a record digests its hash and its kind only; still no two
\* records ever had one id and different sources, so an address determines
\* the parent, payload and generation, or the members, of what it holds.
IdDeterminesSource ==
    \A s, q \in born : IdOf(s) = IdOf(q) => s.source = q.source
=============================================================================
