---------------------------- MODULE MCRestorePlan -----------------------------
(***************************************************************************)
(* RestorePlan from ledgers some users have left: two roots and the pack   *)
(* of them, a root and an account and their pack, a root with a child and  *)
(* a grandchild.  All were made at time 1; any but the last may have been  *)
(* closed.  The archives are complete, lack a record or a witness, or have *)
(* a record too many.                                                      *)
(***************************************************************************)
EXTENDS RestorePlan

CONSTANTS h1, h2, a1, p1, Scenarios

At(source, hash, t) == [hash |-> hash, source |-> source, created_at |-> t]

Root(h) == At(HashOrigin, h, 1)
Meta == At(AccountOrigin(a1), MetadataDigest(a1, 0), 1)
ChildOf(s) == At(BranchSource(s, p1), BranchHash(s, p1), 1)
PackOf(members) == At(PackOrigin, MembersHash(members), 1)

Roots == <<Root(h1), Root(h2), PackOf(<<Root(h1), Root(h2)>>)>>
Mixed == <<Root(h1), Meta, PackOf(<<Root(h1), Meta>>)>>
Chain == <<Root(h1), ChildOf(Root(h1)), ChildOf(ChildOf(Root(h1)))>>

History(scenario) ==
    IF scenario = "roots" THEN Roots ELSE IF scenario = "mixed" THEN Mixed ELSE Chain

\* The ledger with these records, each made and voted for by the planner.
LedgerOf(records) ==
    FoldFunction(LAMBDA s, L : Created(L, Planner, s, 1),
                 [hash |-> <<>>, vote |-> <<>>, lamports |-> [w \in Wallets |-> Endowment]],
                 [s \in records |-> s])

MCInit ==
    /\ born \in {Range(History(scenario)) : scenario \in Scenarios}
    /\ \E closed \in SUBSET {s \in born : s.source.kind # "Pack"} :
          ledger = LedgerOf(born \ closed)
    /\ clock = 2 /\ rate = 1 /\ gifts = 0
    /\ version = [a \in Accounts |-> 0]
    /\ restoring = Idle
    /\ job = NoJob

MCSpec == MCInit /\ [][PlanNext]_planVars

\* The archive of some records, with all witnesses or with none.
Witness(s, full) ==
    IF ~full THEN Unknown
    ELSE IF s.source.kind = "Account" THEN <<0>>
    ELSE IF s.source.kind = "Pack"
    THEN <<[k \in DOMAIN s.hash[2] |-> PrintId(s.hash[2][k])]>>
    ELSE Unknown

ArchiveOf(records, full) ==
    [i \in {IdOf(s) : s \in records} |->
        LET s == CHOOSE s \in records : IdOf(s) = i IN
        [hash |-> s.hash, source |-> s.source, created_at |-> s.created_at,
         witness |-> Witness(s, full)]]

\* What others submit on their own: all the history of the pack of two roots.
MCProofs ==
    {Built(ArchiveOf(Range(Roots), TRUE), IdOf(Roots[3]), {IdOf(Roots[1]), IdOf(Roots[2])},
           {IdOf(Roots[3])})}

\* A record of nobody's, brought along with the history.
Stray == [Root(h2) EXCEPT !.created_at = 2]

Archives(scenario) ==
    LET h == History(scenario) IN
    IF scenario = "roots" THEN {ArchiveOf(Range(h), TRUE)}
    ELSE IF scenario = "mixed" THEN {ArchiveOf(Range(h), TRUE), ArchiveOf(Range(h), FALSE)}
    ELSE {ArchiveOf(Range(h) \cup {Stray}, TRUE), ArchiveOf({h[2], h[3]}, TRUE),
          ArchiveOf({h[1], h[2], [h[3] EXCEPT !.created_at = 2]}, TRUE)}

\* Targets one or two, and transactions that may be too small for both.
MCRequests ==
    UNION {LET h == History(scenario) IN
           [archive : Archives(scenario),
            targets : {<<IdOf(h[1])>>, <<IdOf(h[1]), IdOf(h[2])>>},
            create : BOOLEAN,
            anchors : {{IdOf(s) : s \in Range(h) \cup {Stray}}},
            limit : {4, 6}] :
           scenario \in Scenarios}
=============================================================================
