------------------------------- MODULE Capture -------------------------------
(***************************************************************************)
(* The calls of the SDK client that create a record (sdk/client.ts) and    *)
(* the capture of its archive (sdk/client/archive.ts), over the program of *)
(* Records.  A call reads what the new record derives from, derives its    *)
(* address, submits, waits for a confirmation and reads the record back    *)
(* for its timestamp; between any two steps anything else may happen.  An  *)
(* RPC node may answer from an old bank, a submission or a confirmation    *)
(* may fail whether the transaction landed or not.  A transaction whose    *)
(* caller has given up may still land: it is then one that this module     *)
(* does not tell from one sent without the SDK.                            *)
(***************************************************************************)
EXTENDS Records, Archive

CONSTANTS
    Callers,    \* the users who create records through the SDK
    AskKinds    \* what they ask for: some of Register, Account, Branch, Batch, Pack

ASSUME CallersAssumption == Callers \subseteq Users
ASSUME LimitAssumption == GenerationLimit >= MaxGeneration /\ NodeLimit > 0

VARIABLES
    call,      \* the call each caller is in
    captured   \* the nodes of the archives each caller was given

captureVars == <<vars, call, captured>>

NoCall == [phase |-> "none"]

CaptureInit ==
    /\ Init
    /\ call = [u \in Callers |-> NoCall]
    /\ captured = [u \in Callers |-> {}]

(***************************************************************************)
(* What may be asked.  of lists what the record derives from; a list with  *)
(* a repetition is refused before anything is read.                        *)
(***************************************************************************)
KnownIds == {IdOf(s) : s \in born}
KnownLists == {l \in UNION {[1..n -> KnownIds] : n \in 1..MaxMembers} : IsInjective(l)}

Asks ==
    [kind : {"Register"} \cap AskKinds, of : {<<>>}, with : RawHashes]
        \cup [kind : {"Account"} \cap AskKinds, of : {<<a>> : a \in Accounts}, with : {"nothing"}]
        \cup [kind : {"Branch"} \cap AskKinds, of : {<<i>> : i \in KnownIds},
              with : Payloads \X BOOLEAN]
        \cup [kind : {"Batch", "Pack"} \cap AskKinds, of : KnownLists, with : {"nothing"}]

Ask(u, ask) ==
    /\ call[u] = NoCall
    /\ call' = [call EXCEPT ![u] = [phase |-> "reading", ask |-> ask, read |-> <<>>]]
    /\ UNCHANGED <<vars, captured>>

(***************************************************************************)
(* fetchHashAccount, loadAggregateMembers, getAccountInfo: one read for    *)
(* each of them.  A record may be read as it was in any bank; a read that  *)
(* finds nothing ends the call.                                            *)
(***************************************************************************)
Readable(ask, k) ==
    IF ask.kind = "Account" THEN {version[ask.of[k]]}
    ELSE {q \in born : IdOf(q) = ask.of[k]}

Unread(u) == DOMAIN call[u].ask.of \ DOMAIN call[u].read

Read(u) ==
    /\ call[u].phase = "reading"
    /\ \E k \in Unread(u) : \E seen \in Readable(call[u].ask, k) :
          call' = [call EXCEPT ![u].read =
                      [m \in DOMAIN @ \cup {k} |-> IF m = k THEN seen ELSE @[m]]]
    /\ UNCHANGED <<vars, captured>>

ReadFails(u) ==
    /\ call[u].phase = "reading" /\ Unread(u) # {}
    /\ call' = [call EXCEPT ![u] = NoCall]
    /\ UNCHANGED <<vars, captured>>

(***************************************************************************)
(* The node each method expects, from its arguments and what it read, with *)
(* a stand-in for the timestamp.  The ids are those the caller gave.       *)
(***************************************************************************)
Pending(hash, source, witness) ==
    [hash |-> hash, source |-> source, created_at |-> 1, witness |-> witness]

RegisterNode(hash) == Pending(hash, HashOrigin, Unknown)

AccountNode(account, info) ==
    Pending(DeriveAccountMetadataHash(account, info), AccountOrigin(account), <<info>>)

ParentMetadata(record) ==
    [created_at |-> record.created_at, generation |-> GenerationFromSource(record.source),
     kind |-> record.source.kind]

BranchNode(previous, record, payload) ==
    LET parent == ParentMetadata(record) IN
    Pending(DeriveBranchHash(previous, parent.created_at, parent.generation, parent.kind, payload),
            BranchOrigin(previous, payload, parent.generation + 1), Unknown)

BatchNode(ids, records) == Pending(AggregateHashOf(records), BatchOrigin(ids), Unknown)

PackNode(ids, records) == Pending(AggregateHashOf(records), PackOrigin, <<ids>>)

Expected(ask, read) ==
    IF ask.kind = "Register" THEN RegisterNode(ask.with)
    ELSE IF ask.kind = "Account" THEN AccountNode(ask.of[1], read[1])
    ELSE IF ask.kind = "Branch" THEN BranchNode(ask.of[1], read[1], ask.with[1])
    ELSE IF ask.kind = "Batch" THEN BatchNode(ask.of, [k \in DOMAIN ask.of |-> read[k]])
    ELSE PackNode(ask.of, [k \in DOMAIN ask.of |-> read[k]])

\* What an RPC node says of a record in the bank of ledger L: nothing, or it.
BankOf(L, id) == IF Live(L, id) THEN <<SnapshotOf(L.hash[id])>> ELSE <<>>

\* submitCreation: the expected node must parse before anything is sent.
\* banks is what has been seen of the record since, fresh since it landed.
Submit(u) ==
    /\ call[u].phase = "reading" /\ Unread(u) = {}
    /\ LET node == Expected(call[u].ask, call[u].read) IN
       call' = [call EXCEPT ![u] =
                   IF Valid(Single(node))
                   THEN [phase |-> "sent", ask |-> call[u].ask, read |-> call[u].read,
                         node |-> node, landed |-> {}, kept |-> TRUE,
                         banks |-> {BankOf(ledger, NodeId(node))}, fresh |-> {}]
                   ELSE NoCall]
    /\ UNCHANGED <<vars, captured>>

(***************************************************************************)
(* The transaction: the program derives the record from what is live, and  *)
(* creates it at the address the client derived or not at all.             *)
(***************************************************************************)
Executed(u, ask) ==
    \/ ask.kind = "Register" /\ Register(u, ask.with)
    \/ ask.kind = "Account" /\ AccountHash(u, ask.of[1])
    \/ ask.kind = "Branch" /\ ~ask.with[2] /\ Branch(u, ask.of[1], ask.with[1])
    \/ ask.kind = "Branch" /\ ask.with[2] /\ BranchTakingVote(u, ask.of[1], ask.with[1])
    \/ ask.kind = "Batch" /\ Batch(u, ask.of)
    \/ ask.kind = "Pack" /\ Pack(u, ask.of)

\* Mutant: the destination is not compared with the address derived.
CreatedAnywhere(id) == TRUE

CreatedAt(id) == id \in DOMAIN ledger'.hash \ DOMAIN ledger.hash

Creations == {SnapshotOf(ledger'.hash[i]) : i \in DOMAIN ledger'.hash \ DOMAIN ledger.hash}

\* A call sees the ledger move: what an RPC node may say of its record, and
\* whether its caller keeps the initial vote.
Watched(u, L) ==
    IF call[u].phase \in {"sent", "confirmed"}
    THEN LET id == NodeId(call[u].node)
             landed == call[u].landed # {}
         IN  [call[u] EXCEPT
                 !.banks = @ \cup {BankOf(L, id)},
                 !.fresh = IF landed THEN @ \cup {BankOf(L, id)} ELSE {},
                 !.kept = @ /\ (landed => <<id, u>> \in DOMAIN L.vote)]
    ELSE call[u]

Land(u) ==
    /\ call[u].phase = "sent" /\ call[u].landed = {}
    /\ Executed(u, call[u].ask)
    /\ CreatedAt(NodeId(call[u].node))
    /\ LET now == BankOf(ledger', NodeId(call[u].node)) IN
       call' = [v \in Callers |->
                   IF v = u THEN [call[u] EXCEPT !.landed = Creations,
                                                 !.banks = @ \cup {now}, !.fresh = {now}]
                   ELSE Watched(v, ledger')]
    /\ UNCHANGED captured

\* submitInstruction throws, or confirmTransaction does or reports an error.
GivesUp(u) ==
    /\ call[u].phase = "sent"
    /\ call' = [call EXCEPT ![u] = NoCall]
    /\ UNCHANGED <<vars, captured>>

\* Mutant: the record may be read back from a bank older than the
\* confirmation's.
ConfirmAnyBank(u) ==
    /\ call[u].phase = "sent" /\ call[u].landed # {}
    /\ call' = [call EXCEPT ![u].phase = "confirmed"]
    /\ UNCHANGED <<vars, captured>>

\* Confirmed; minContextSlot excludes the banks before it landed.
Confirm(u) ==
    /\ call[u].phase = "sent" /\ call[u].landed # {}
    /\ call' = [call EXCEPT ![u].phase = "confirmed", ![u].banks = call[u].fresh]
    /\ UNCHANGED <<vars, captured>>

\* Mutant: the timestamp is the client's clock.
CapturedNow(u, record) == [call[u].node EXCEPT !.created_at = clock]

CapturedNode(u, record) == [call[u].node EXCEPT !.created_at = record.created_at]

\* captureCreatedArchive, once the confirmation is there.
ReadBack(u) ==
    /\ call[u].phase = "confirmed"
    /\ \E bank \in call[u].banks \ {<<>>} :
          /\ bank[1].hash = call[u].node.hash /\ bank[1].source = call[u].node.source
          /\ Valid(Single(CapturedNode(u, bank[1])))
          /\ captured' = [captured EXCEPT ![u] = @ \cup {CapturedNode(u, bank[1])}]
    /\ call' = [call EXCEPT ![u] = NoCall]
    /\ UNCHANGED vars

\* The record is gone, or the RPC node does not answer: ArchiveCaptureError.
ReadBackFails(u) ==
    /\ call[u].phase = "confirmed"
    /\ call' = [call EXCEPT ![u] = NoCall]
    /\ UNCHANGED <<vars, captured>>

Watching ==
    /\ call' = [u \in Callers |-> Watched(u, ledger')]
    /\ UNCHANGED captured

\* vote and unvote of the client: they submit, and nothing else.
VoteFor(u, id) == Vote(u, id) /\ Watching
Withdraw(u, id) == Unvote(u, id) /\ Watching

Elsewhere == Next /\ Watching

\* What restores bring back, one record at a time, whether or not there is a
\* live record to prove it by: a record that was (NothingInvented of Restore).
RestoreElsewhere(s) == (\E u \in Users : Create(u, s)) /\ Watching

CaptureNext ==
    \/ Elsewhere
    \/ \E s \in born : RestoreElsewhere(s)
    \/ \E u \in Callers :
          \/ \E ask \in Asks : Ask(u, ask)
          \/ Read(u) \/ ReadFails(u) \/ Submit(u) \/ Land(u) \/ GivesUp(u)
          \/ Confirm(u) \/ ReadBack(u) \/ ReadBackFails(u)
          \/ \E i \in KnownIds : VoteFor(u, i) \/ Withdraw(u, i)

CaptureSpec == CaptureInit /\ [][CaptureNext]_captureVars

(***************************************************************************)
(* Properties.                                                             *)
(***************************************************************************)

\* The witness of a node is what its record was made from: records that
\* were, or the metadata of the account.
WitnessTrue(n) ==
    n.witness # Unknown =>
        IF n.source.kind = "Account" THEN n.hash = MetadataDigest(n.source.account, n.witness[1])
        ELSE \E qs \in [DOMAIN n.witness[1] -> born] :
                /\ \A k \in DOMAIN qs : IdOf(qs[k]) = n.witness[1][k]
                /\ n.hash = MembersHash(qs)

\* An archive the SDK hands out is history: its record was created with that
\* very timestamp, from what its witness lists, however stale the reads and
\* whoever closed and made records again meanwhile.
CapturesGenuine ==
    \A u \in Callers : \A n \in captured[u] : SnapshotOf(n) \in born /\ WitnessTrue(n)

\* The docs ask callers to keep their initial vote until the capture: one
\* who does is given the record of their own transaction, not of another
\* incarnation.
KeptVoteCapturesOwn ==
    [][\A u \in Callers :
          \A n \in captured'[u] \ captured[u] :
              call[u].kept => SnapshotOf(n) \in call[u].landed]_captureVars

\* A derived record is made from what its caller read or not at all: when
\* the transaction lands, each record read is live as it was read, although
\* it may have been closed and made again in between.
LandsAsRead ==
    [][\A u \in Callers :
          call[u].phase = "sent" /\ call'[u].phase = "sent"
          /\ call[u].landed = {} /\ call'[u].landed # {} =>
              IF call[u].ask.kind = "Account" THEN version[call[u].ask.of[1]] = call[u].read[1]
              ELSE \A k \in DOMAIN call[u].read :
                      BankOf(ledger, call[u].ask.of[k]) = <<call[u].read[k]>>]_captureVars
=============================================================================
