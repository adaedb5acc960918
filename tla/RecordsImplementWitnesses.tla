---------------------- MODULE RecordsImplementWitnesses ----------------------
(***************************************************************************)
(* The refinement mapping from the program's accounts to Witnesses: an id  *)
(* is witnessed while its record is live, by the voters with a vote        *)
(* account, since the record's created_at.                                 *)
(***************************************************************************)
EXTENDS Records

SupportersOf(L) == [i \in DOMAIN L.hash |-> {u \in Users : <<i, u>> \in DOMAIN L.vote}]
StampsOf(L) == [i \in DOMAIN L.hash |-> L.hash[i].created_at]

W == INSTANCE Witnesses WITH
        People     <- Users,
        supporters <- SupportersOf(ledger),
        stamp      <- StampsOf(ledger),
        now        <- clock

\* Every instruction is one step of Witnesses or leaves the witnesses alone.
\* In particular a live timestamp is never rewritten, a vote ends only by
\* its own voter's instruction, and a record is closed by its last voter.
ImplementsWitnesses == W!WSpec
=============================================================================
