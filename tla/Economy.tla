------------------------------ MODULE Economy -------------------------------
(***************************************************************************)
(* What the program owes: properties of Records that relate balances to    *)
(* claims.  They sum over accounts.                                        *)
(***************************************************************************)
EXTENDS Records

\* The claims on a record: what its votes say is refundable.
Claims(L, id) == SumFunctionOnSet(L.vote, Votes(L, id))

\* What a user owns: the wallet, and for each of their votes the claim and
\* the vote account's own balance.
VotesOf(L, u) == {k \in DOMAIN L.vote : k[2] = u}

Equity(L, u) ==
    Balance(L, Wallet(u))
        + SumFunctionOnSet([k \in DOMAIN L.vote |->
                               L.vote[k] + Balance(L, VoteAddress(k[1], k[2]))],
                           VotesOf(L, u))

\* No lamport is created or lost by any instruction.
Conservation ==
    SumFunction(ledger.lamports) = Cardinality(Users) * Endowment

\* A live record holds at least the sum of its votes' claims, whatever the
\* rent price was when each of them was made and whoever prefunded it; and a
\* vote account holds something to give back.
ClaimsCovered ==
    /\ \A i \in DOMAIN ledger.hash : Balance(ledger, HashAddress(i)) >= Claims(ledger, i)
    /\ \A k \in DOMAIN ledger.vote : Balance(ledger, VoteAddress(k[1], k[2])) > 0

\* A voter is free to leave at the current rent price as soon as they are the
\* last one, or somebody else's claim alone is worth the reserve.  So nobody
\* is locked in while the price does not rise, and after a rise one voter at
\* the new price frees everyone who was there before.
ExitOpen ==
    \A k \in DOMAIN ledger.vote :
        LET i == k[1] IN
        (\/ Votes(ledger, i) = {k}
         \/ \E o \in Votes(ledger, i) \ {k} :
               ledger.vote[o] >= Reserve(Space(ledger.hash[i].source), rate))
        => CanRelease(ledger, k[2], i, rate)

\* No instruction costs anybody anything: deposits and reserves come back in
\* full, a migrated vote loses nothing, and nobody pays for another's
\* instruction.  Only a gift lowers what its giver owns.
NobodyLoses ==
    [][SomeGift \/ \A u \in Users : Equity(ledger', u) >= Equity(ledger, u)]_vars
=============================================================================
