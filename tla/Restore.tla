------------------------------- MODULE Restore -------------------------------
(***************************************************************************)
(* The restore instruction on top of Records.  It authenticates a live tip *)
(* and the history behind it, then creates the records the caller asks for *)
(* that are missing, one after the other, with the timestamps of the       *)
(* proof.  The instruction is several steps here, because its creations    *)
(* can fail half-way: they are made on a copy of the ledger, which a       *)
(* transaction commits at its end or forgets.  No other instruction runs   *)
(* in between.                                                             *)
(***************************************************************************)
EXTENDS Records, RestoreProof

CONSTANT Proofs   \* the proofs callers submit: records with a tip and links

ASSUME ProofsAssumption ==
    \A p \in Proofs : \A i \in DOMAIN p.links : SourceShaped(p.links[i].source)

VARIABLE restoring   \* Idle, or the instruction at work

restoreVars == <<vars, restoring>>

Idle == [payer |-> "nobody"]

RestoreInit == Init /\ restoring = Idle

(***************************************************************************)
(* BoundAccountPairs::bind: a caller who wants records created supplies    *)
(* the accounts of every link with parameters but the tip's; the others    *)
(* supply none.                                                            *)
(***************************************************************************)
Materializable(p) == {i \in DOMAIN p.links \ {p.tip} : p.links[i].params # NoParams}

\* validate_existing_state, of a record the program owns.
MatchesLink(L, i, l) == Live(L, i) /\ SnapshotOf(L.hash[i]) = SnapshotOf(l)

\* Mutant: a live record in the place of a link is taken for the link's.
PairsVacantOrLive(L, u, p, pairs, writable) ==
    \A i \in pairs :
        IF i \in DOMAIN L.hash THEN Live(L, i)
        ELSE <<i, u>> \notin DOMAIN L.vote /\ i \in writable

\* BoundAccountPairs::validate: what is live matches, what is missing is
\* vacant, the payer's vote included, and may be written.
PairsValid(L, u, p, pairs, writable) ==
    \A i \in pairs :
        IF i \in DOMAIN L.hash THEN MatchesLink(L, i, p.links[i])
        ELSE <<i, u>> \notin DOMAIN L.vote /\ i \in writable

(***************************************************************************)
(* Everything restore checks before its first creation: binding,           *)
(* validate_anchor, existing records, graph, commitments.                  *)
(***************************************************************************)
RestoreAccepted(L, u, p, pairs, writable) ==
    /\ pairs \in {{}, Materializable(p)}
    /\ p.tip \in DOMAIN p.links /\ MatchesLink(L, p.tip, p.links[p.tip])
    /\ PairsValid(L, u, p, pairs, writable)
    /\ GraphAccepted(p.links, p.tip)
    /\ ProofValid(p.links, {p.tip} \cup (pairs \cap DOMAIN L.hash), MaxGeneration)

RestoreBegin(u, p, pairs, writable) ==
    /\ restoring = Idle
    /\ RestoreAccepted(ledger, u, p, pairs, writable)
    /\ restoring' = [payer |-> u, links |-> p.links, pairs |-> pairs,
                     todo |-> pairs \ DOMAIN ledger.hash, work |-> ledger]
    /\ UNCHANGED vars

\* The links whose turn it is: what they derive from is not to be created
\* any more.
Ready == {i \in restoring.todo :
             LinkDependencies(restoring.links[i]) \cap restoring.todo = {}}

CanRestore(i) ==
    CanCreate(restoring.work, restoring.payer, SnapshotOf(restoring.links[i]), rate)

\* RestoreExecution::execute, one turn of its loop: NewHashRecord::historical
\* and its creation with the payer's initial vote.
RestoreCreate ==
    /\ restoring # Idle
    /\ \E i \in Ready :
          /\ CanRestore(i)
          /\ restoring' =
                [payer |-> restoring.payer, links |-> restoring.links,
                 pairs |-> restoring.pairs, todo |-> restoring.todo \ {i},
                 work |-> Created(restoring.work, restoring.payer,
                                  SnapshotOf(restoring.links[i]), rate)]
    /\ UNCHANGED vars

\* Mutant: what was created before the failure stays.
RestoreFailKeeping ==
    /\ restoring # Idle
    /\ \E i \in Ready : ~CanRestore(i)
    /\ restoring' = Idle
    /\ Commit(restoring.work)

RestoreFail ==
    /\ restoring # Idle
    /\ \E i \in Ready : ~CanRestore(i)
    /\ restoring' = Idle
    /\ UNCHANGED vars

RestoreEnd ==
    /\ restoring # Idle
    /\ restoring.todo = {}
    /\ restoring' = Idle
    /\ Commit(restoring.work)

\* SDK callers make every account writable, or only those they expect to be
\* missing; the others are refused if they are.
SomeRestore ==
    \E u \in Users, p \in Proofs :
        \E pairs \in {{}, Materializable(p)} : \E writable \in {{}, pairs} :
            RestoreBegin(u, p, pairs, writable)

RestoreNext ==
    \/ restoring = Idle /\ Next /\ UNCHANGED restoring
    \/ SomeRestore
    \/ RestoreCreate
    \/ RestoreFail
    \/ RestoreEnd

RestoreSpec == RestoreInit /\ [][RestoreNext]_restoreVars

(***************************************************************************)
(* Properties.                                                             *)
(***************************************************************************)

\* A restore recreates history, it invents none: whatever proof is submitted,
\* each record it leaves was a record before, with that timestamp.
NothingInvented == [][restoring # Idle => born' = born]_restoreVars

\* A restore that changes the ledger leaves every record it was asked for
\* live, as the proof has it; one that fails on the way leaves no trace.
RestoredWhole ==
    [][restoring # Idle /\ ledger' # ledger =>
          \A i \in restoring.pairs : MatchesLink(ledger', i, restoring.links[i])]_restoreVars
=============================================================================
