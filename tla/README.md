# hash-timestamp: a verification project

TLA+ models of the hash-timestamp program and of its TypeScript SDK, with TLC
configurations that check them on small instances and TLAPS proofs of theorems
that hold for every value of the constants. The models are translated from the
source: the Rust program in `programs/hash-timestamp/src` and the SDK in
`app/sdk`. `PROJECT.json` maps every definition to the lines it stands for, and
lists the hazards the properties are for.

## The system

A *hash record* (`HashAccount`) is an on-chain statement that some 32-byte value
was seen at a time. Its address derives from its content, so there is at most
one record for a content at a time. A record lives as long as somebody
*witnesses* it with a *vote* (`VoteInfo`): every vote deposits lamports, and
gives them back when it is withdrawn. The last voter to leave closes the
record, and its address becomes free for another record with the same content
and a later timestamp: another *incarnation*. Records derive from each other
(branch, batch, pack) by digests that commit to one incarnation of each origin,
so that a closed origin can be *restored* later, with its historical timestamp,
from a proof anchored in a live derived record.

The SDK is the other half. It keeps *archives* off-chain: nodes that say what
a record was and what it was made from, merged and exchanged between users. From
an archive it compiles restore proofs, and every method that creates a record
returns the archive of it.

| component | state | operations | what makes it correct |
|---|---|---|---|
| identity: `state/`, `protocol/hash/`, `protocol/address.rs` | none (pure) | sources, digests, canonical ids, addresses | an address fixes what may be stored there; a digest fixes the incarnations it derives from |
| record lifecycle and witness economy: `instructions/` but restore, `runtime/` but restore | records, votes, lamports | register, account_hash, branch (with and without the parent's vote), batch, pack, vote, unvote, verify | counters match votes; claims are covered; leaving is free; a live timestamp never changes |
| restore proof graph: `protocol/restore/graph.rs` | the stack of a depth-first walk | one turn of the loop | ends; accepts exactly complete, acyclic, connected histories; dependencies first |
| restore instruction: rest of `protocol/restore/`, `runtime/restore/`, `instructions/restore.rs` | adds records and votes | bind, validate, plan, execute | recreates nothing that was not; all that was asked or nothing |
| SDK instruction client: `client.ts`, `client/{accounts,transactions,aggregate}.ts` | none; reads live accounts | one method per instruction | a stale read fails, never changes what is created |
| SDK archive capture: `client/archive.ts` | none; awaits a transaction | submit, confirm, read back | captures what was submitted, or says so |
| SDK restore planner: `client/archive-restore.ts`, `client/archive-candidate.ts` | the plan and its reads | plan, execute step by step | funds nothing the plan did not show; a partial result is exact |
| SDK archive values: `archive/*.ts` | none (pure) | parse, merge, select, order, proofs | merge does not depend on order; program and SDK accept each other's proofs |
| SDK protocol mirror: `protocol/{hashes,source}.ts` | none (pure) | the digests and ids again | the two implementations agree |
| SDK encoding, rent; telemetry, errors, decoding; scripts, tests, docs | none | conversions | not modelled, see the end |

Components interact in three ways. *Calls*: an instruction handler calls the
runtime layer, which moves lamports and writes accounts, all in one atomic
transaction. *Shared state*: all users' transactions meet in the records and
votes on the ledger; anybody may also send lamports to any address. *Messages*:
the SDK reads accounts, submits transactions, waits for confirmation and reads
again, with other users' transactions in between, from RPC nodes that may lag.

The behaviours that are hard: prefunded addresses, a rent price that moves
between a deposit and its refund, the last-voter decision on a counter, closed
and recreated addresses, a branch that closes its own parent, diamonds and
cycles in a proof, a restore that runs out of money half-way, two
implementations of one protocol, and, on the client, every read used after an
await and every transaction whose confirmation never comes.

## The modules

| module | models | builds on |
|---|---|---|
| `Identity` | sources, digests, ids, addresses, sizes of the program | |
| `Ledger` | the accounts as a value; the runtime layer as `CanX(L, ...)` (the checks) and `Xed(L, ...)` (the ledger left) | `Identity` |
| `Records` | the state machine: one action per instruction, and the environment; type invariant and the properties that relate records, votes and history | `Ledger` |
| `Economy` | the properties that sum lamports over accounts | `Records` |
| `Witnesses` | abstract specification: ids with supporters and a stamp, no money | |
| `RecordsImplementWitnesses` | the refinement mapping from `Records` to `Witnesses` | `Records`, `Witnesses` |
| `ProofGraph` | the program's proof walk, one action per turn of its loop | |
| `RestoreProof` | a restore proof as a value; its commitments, per kind of link | `Identity` |
| `Restore` | the restore instruction, one creation per step, on top of `Records` | `Records`, `RestoreProof` |
| `ClientProtocol` | the digests, ids and fingerprints as the SDK computes them | |
| `Archive` | archives as values and every operation on them | `RestoreProof`, `ClientProtocol` |
| `ArchiveLibrary` | users who keep archives and work on them in any order | `Archive` |
| `DependencyOrder` | the SDK's traversal, one action per turn of its loop | |
| `ArchiveOrder` | what is behind the roots of a call, and the property that the traversal finds exactly that | `DependencyOrder`, `Archive` |
| `Capture` | the creating methods of the client and the capture, over the program | `Records`, `Archive` |
| `RestorePlan` | planner and executor, over the program with restore | `Restore`, `Archive` |
| `MCRecords`, `MCProofGraph`, `MCRestore`, `MCArchive`, `MCDependencyOrder`, `MCRestorePlan` | inputs, scenarios and reference definitions for TLC | the module each is named for |
| `Records_proofs` | theorems about `Records`, its history and its refinement | `RecordsImplementWitnesses`, TLAPS |
| `Economy_proofs`, `Capture_proofs` | theorems | the module each is named for, `Records_proofs` |
| `ProofGraph_proofs` | theorems | `ProofGraph`, TLAPS |
| `Archive_proofs` | lemmas about archives as values | `Archive`, TLAPS |
| `ArchiveLibrary_proofs` | theorems about the archives users keep | `ArchiveLibrary`, `Archive_proofs` |
| `Restore_proofs` | theorems about the restore instruction, the planner and the executor | `RestorePlan`, `Records_proofs`, `Archive_proofs` |
| `DependencyOrder_proofs` | theorems about the traversal and what it finds | `ArchiveOrder`, TLAPS |

`Archive` extends `RestoreProof` not because archives use it but because the
two meet in the properties: what the SDK builds, the program must accept.
`ClientProtocol` is translated from the SDK alone, so that where `Archive` or
`Capture` compare it with `Identity` the agreement is checked and not assumed.

### How the state corresponds to the code

`ledger` is the chain as the program sees it. `ledger.hash[id]` is the
`HashAccount` at the address of `id`, with the fields of the struct except
`bump`; an id outside the domain is an address the program does not own.
`ledger.vote[<<id, voter>>]` is the `amount` of the `VoteInfo` of that voter.
`ledger.lamports` holds the balances of wallets, records and votes, including
those of addresses that have lamports and no account of the program. `clock`
and `rate` are the Clock and Rent sysvars, `version[a]` stands for the metadata
of a timestamped account. `born` is history, read by no action of the program
but the bound on the number of records: every snapshot (hash, source,
`created_at`) a record ever had.

An action of `Records` is a whole instruction. The transaction it runs in is
atomic, so the action is enabled when every check of the handler and of all it
calls passes, and its effect is the composition of the calls' effects in the
order of the code: `BranchTakingVote` is `Released(Created(ledger, ...), ...)`
and checks the release against the ledger the creation left. The environment
is `Tick`, `RentChange`, `AccountChange` and `Gift`.

`Restore` is the one instruction that is several steps, because it is the one
that can fail half-way. `restoring` is the instruction at work: its proof, the
records it was asked for (`pairs`), those still to create (`todo`) and `work`,
the ledger as the transaction sees it. `RestoreBegin` is everything up to the
first creation (bind, anchor, existing records, graph, commitments);
`RestoreEnd` commits `work`, `RestoreFail` forgets it. No other instruction runs
while `restoring` is not `Idle`, as none runs inside a transaction. Which of the
links whose origins are there comes first is left open: `ProofGraph` shows that
the code's order is one of those.

In `ProofGraph` a link is an id with the list of ids it derives from. `stack`,
`visiting`, `visited` and `ordered` are the variables of `build_proof_graph`;
`outcome` is where its control is, or the error. Duplicate ids and mismatched
parameters are rejected before the walk. `History` says of a list of links what the
walk should accept, in terms of sets, and `RestoreProof!GraphAccepted` says the same
of the links of a restore. `DependencyOrder` is the same for
`dependencyOrder` of the SDK, which works differently (a stack of entries and
exits, partial graphs, several roots, an optional completeness): `active` and
`done` are its two sets of these names, `turn` is the root its outer loop is
at. `Archive!Behind` states the result.

An archive is a function from canonical ids to nodes, since a node's address is
the address of its id. An operation that may throw returns a sequence: of the
result, or empty. `NodeShaped` and `LinkShaped` are the types a node and a link of
an imported proof are decoded into. `ArchiveLibrary` has one variable, `shelf`: the archives
users keep. The operations of the code are pure; the state machine is their
callers.

In `Capture`, `call[u]` is where a caller is in the method they called: what was
asked, what was read, the node expected, the phase of `submitCreation`
("reading", "sent", "confirmed"). `banks` and `fresh` are what RPC nodes may
answer: the record as it was in any bank since it was submitted, and in any bank
since the transaction landed; the confirmation narrows the first to the second,
which is what `minContextSlot` does. `captured` is what was returned. `kept`
and `landed` are history, for the properties. Others use the program between any
two steps (`Elsewhere`), restore included: `RestoreElsewhere` brings a record of
`born` back, which is all a restore can do (`NothingInvented`), and more than it
does, since it asks for no proof.

In `RestorePlan`, `job` is a plan and then its execution: `steps`, the index
`at` of the loop, the merged `result`; `pending` says that the transaction of
step `at` may still land, which it may do after the SDK has given up on it;
`landed`, `consent` and `undisturbed` are history. `Execute` may start again once
an execution is over, as the code keeps a plan for good: from the first step and
from `present`, the archive of what was already there. A transaction of the
execution before that is still on its way then counts as somebody else's. One plan
in two executions at once is not modelled. Between any two steps others use
the program (`Elsewhere`) and restore (`RestoreElsewhere`), with the proofs of
`Proofs` or those the plan displays. `PlanRestore` takes all reads
at once, but not from one ledger: each read is a snapshot from any bank there
ever was, nothing, or an error. What the planner computes turn by turn is
stated as what it ends with: `Selected` are the largest parts, of those halving
makes (`Halvings`), that compile, and `Plans` the sequences of which each step is
among the best for what the steps before it left (`Remaining`).

### What is abstracted

- A digest is the tuple of what was digested, so digests and addresses are
  injective. Byte layouts, discriminators and bumps are not modelled; sizes
  of accounts are, because the reserve depends on them.
- Transaction fees and the runtime's own rent-state checks are not modelled:
  they are outside the program.
- Account substitution (a caller passing another account than the derived one)
  is an error in every handler before any effect; an action takes the derived
  accounts only. `Capture!CreatedAt` is that check, where the derivation is the
  client's.
- `u64` lamports do not overflow at the modelled amounts: the supply of
  lamports is far below 2^64. The two counters the code guards with
  `checked_add` keep their limits as `MaxVoters` and `MaxGeneration`.
- A proof's links are a function from ids, so no two have one id; a payload is
  the hash it is accepted for, be it the hash itself or a preimage.
- The bytes of a restore transaction are the links of its proof and the records
  it names; among candidates that gain the same and add the same, the
  preference for fewer bytes is a free choice.
- One program is assumed: an archive of another is refused by every operation.
  Every user pays for themselves.

## The runs

| run | instance | properties |
|---|---|---|
| `economy` (`RecordsEconomy.cfg`) | three users, one root and its branch, two rent prices, one gift below or above a reserve | `Conservation`, `ClaimsCovered`, `ExitOpen`, `NobodyLoses` |
| `history` (`RecordsHistory.cfg`) | two users, every instruction, three snapshots, two seconds, two versions of a metadata | `TypeOK`, `VotersMatchVotes`, `ImplementsWitnesses` |
| `origins` (`RecordsOrigins.cfg`) | one user, two payloads, four snapshots, two generations, aggregates of one or two members | `OriginsExisted`, `IdDeterminesSource` |
| `proof_graph` (`ProofGraph.cfg`) | every proof of at most three links over three ids, two dependencies each | `TypeOK`, `DependenciesFirst`, `AcceptsExactlyHistories`, `EveryTurnAdvances`, `Termination` |
| `restore_pack` (`RestorePack.cfg`) | two users with money for less than three records, a root, an account, the pack of both | `NothingInvented`, `RestoredWhole` |
| `restore_chain` (`RestoreChain.cfg`) | root, child and grandchild over three seconds and six snapshots | `NothingInvented`, `RestoredWhole` |
| `archive_merge` (`ArchiveMerge.cfg`) | two shelves, nodes of four records, true and contradictory, at most three nodes an archive | `TypeOK`, `MergeOrderFree`, `OneHistory`, `NeverRewritten` |
| `archive_proofs` (`ArchiveProofs.cfg`) | one shelf, nodes of six records, true, contradictory and circular | `SelectionStands`, `BuiltProofsAccepted`, `BuiltProofsImport`, `AcceptedProofsAgree` |
| `dependency_order` (`DependencyOrder.cfg`) | every graph of three nodes, there or not, known or not, one or two roots, both modes | `TypeOK`, `DependenciesFirst`, `OrdersWhatIsBehind`, `EveryTurnAdvances`, `Termination` |
| `capture_register` (`CaptureRegister.cfg`) | one caller of two users, a hash and an account, restores by both, three snapshots | `CapturesGenuine`, `KeptVoteCapturesOwn` |
| `capture_derived` (`CaptureDerived.cfg`) | one user, branches, batches and packs, restores, three snapshots | `CapturesGenuine`, `LandsAsRead` |
| `restore_plan` (`RestorePlan.cfg`) | plans of one or two transactions over packs and a chain, some of it closed, executed once or more, with restores by others | `ResultAuthenticated`, `UndisturbedPlanAccepted`, `ResultTellsWhatLanded`, `OnlyPlannedFunded`, `LandedStepRestores` |

`economy`: lamports are conserved; a live record holds at least the sum of its
votes' claims, whatever the rent was and whoever prefunded it; the only thing
that can keep a voter in is a rise of the rent price above everybody else's
claim, and one voter at the new price frees the others; no instruction lowers
what anybody owns (wallet, claims and vote reserves). With three users there is
a voter who is neither first nor last; with rates 1 and 3 a claim is worth less
or more than the reserve; gifts of 40 and 900 fall short of and exceed the
reserves they land on.

`history`: the voter counter is exact, through closings and reopenings and
migrations that close the parent while its child is created; and the program
implements `Witnesses`: a live timestamp is never rewritten, nobody ends
another's support, and a record is forgotten exactly when the last supporter
leaves. Two seconds give a recreated record a timestamp different from its
first.

`origins`: what a branch, batch or pack says of its origins was true when it
was made, even if they are closed and recreated since; and although an id
digests hash and kind only, it determines the whole source. Four snapshots
allow a branch of a branch, an aggregate of two records and an aggregate of an
aggregate. No user needs another here, so one is enough. The bound on snapshots
ends these behaviours, so the run does not check deadlock.

`proof_graph`: over 75,000 initial proofs, the walk accepts exactly the
complete, acyclic proofs all of which the tip derives from, and the order it
returns lists origins before what derives from them. `MCProofGraph` assumes that
`History`, which is said of sets of links, agrees with a reference definition by
reachability; TLC evaluates that for every one of these proofs. Three links are enough for a
diamond's shared node (the tip naming it directly and through another link),
cycles of length one to three with and without the tip, and disconnected
links; two dependencies for repeated and interleaved ones. A link with
mismatched parameters has no dependencies, because the code returns before it
looks at them.

`restore_pack` and `restore_chain`: every proof of the shapes, where the origin
a link states, the origin the proof brings and the origin the record was made
from range over all incarnations independently, with and without payloads,
with the right, a wrong and no metadata of the account. Whatever is submitted,
what is created was a record before; and the ledger changes only by everything
that was asked for. A wallet of 900 pays for two records and not for three, so
that a third creation fails. Three seconds and six snapshots let a root live
three times and have children of different incarnations. Every user
may make the accounts of existing records writable or not.

`archive_merge`: whatever is added, merged, imported and selected, a shelf holds
an archive that parses; three archives merge to the same in any order and
grouping, or fail in all of them; what stays on a shelf keeps its incarnation
and its witness; and two archives that are both closed behind a record they share
agree on everything behind it. `NodeLimit` is three, so merges of valid archives
do exceed it. The contradictory nodes (another incarnation of the root, a wrong
account, a wrong generation, a false member list) are those that no archive can
show to be wrong while what they derive from is missing. The two shelves are
symmetric.

`archive_proofs`: from every archive of the larger world the SDK either refuses
to build a proof or builds one the program accepts, whichever records are called
existing; importing what was built adds nothing; a proof of at most `NodeLimit`
links that the program accepts on nothing but its tip is imported, and teaches
nothing to an archive closed behind that tip. A longer one the program may
accept and the SDK refuses, because no archive has that many nodes. The root of this world is behind its batch twice, and two packs may
list each other.

`dependency_order`: 81,000 calls. The order contains exactly what is behind the
roots, once, dependencies first; each error is thrown only when the archive has
that fault.

`capture_register` and `capture_derived`: an archive the SDK hands out is of a
record that was created with that timestamp, from what its witness lists,
although the reads are of any bank and others close, make and restore the same
records in between; a caller who keeps their initial vote until the capture gets the
record of their own transaction; a derived record is made from what was read or
not at all. Three snapshots are enough for the same hash to be registered, closed
and registered again in another second, and for an aggregate of two records; two
seconds tell the incarnations apart. In the second run the user who closes and
makes the records anew is the caller, by other transactions. It asks for no
account: with one, or with a second user, the run takes too long. So what
`LandsAsRead` says of an account, that the metadata read is the metadata hashed,
rests on its theorem.

`restore_plan`: from every read of ledgers on which any set of the records is
closed, for any of the archives, those that tell of another history included.
Between any two steps records are closed, registered again, and restored with a
proof of the plan or with one that is not, of one pack (`MCProofs`); a plan is
executed again after it was done or failed. One user plays all parts.
Nothing is paid for that the plan did not show, or, without consent,
that is not a target; a plan nobody interfered with is accepted to its last
step, although earlier steps changed the ledger (by the program's checks; whether
the wallet can pay for every step is not part of it); a step that lands restores its
targets; the result holds only what was, and tells exactly what landed, but for
the one step whose confirmation failed. The limits four and six make two targets
fit into one transaction or not, and the archives that lack a record, lack a
witness or bring a stray one exercise what the planner refuses.

Bounds: `MaxTime`, `MaxVersion`, `MaxRecords`, `MaxMembers`, `MaxGifts`,
`Endowment`, `MaxLinks`, `MaxDeps`, `NodeLimit`, `GenerationLimit`, `Shapes`,
`Scenarios`. They appear in guards or sets of inputs under these names;
`NodeLimit` and `GenerationLimit` stand for constants of the code, the others for
nothing in it. Where a bound ends behaviours (no snapshot, no second or no money
left) the run does not check deadlock; `economy`, `history`, `proof_graph` and
`dependency_order` do.

Fairness: `Records`, `Restore`, `ArchiveLibrary`, `Capture` and `RestorePlan` assume
none and claim no liveness: nobody is obliged to send a transaction, and the
network is not obliged to confirm one. `ProofGraph` and `DependencyOrder` assume
weak fairness of the loop as a whole: the one runs inside an instruction, the
other is a synchronous function, and nothing else runs in between.

## The proofs

Proved for every value of the constants, under the named assumptions of the
modules (rates and gifts are positive, bounds are natural numbers, `MaxVoters`
is positive; there are finitely many users, and those who call the SDK are among
them; the SDK's limit of generations is the program's, or at least that; the links of a submitted proof have decoded sources, the graphs of a
call are graphs; the nodes and proofs users hear of, and the archives they ask to
restore from, are decoded ones, with finitely many links):

- `TypeCorrect`: `Spec => []TypeOK`. A record is stored under the id its content
  derives, `created_at` is in `1..clock`, it has a voter, the generation is in
  range, and claims and balances are natural numbers: no instruction takes
  more out of an account than is in it.
- `CountersAreExact`: `Spec => []VotersMatchVotes`. The counter of a live record
  is the number of its votes, and no vote is left without its record.

- `OriginsWereRecords`: `Spec => []OriginsExisted`. What a branch, batch or pack
  commits to was a record, in that incarnation, no younger than itself.
- `IdsDetermineSources`: `Spec => []IdDeterminesSource`. Records that ever had one
  id had one source.
- `RecordsRefineWitnesses`: `Spec => ImplementsWitnesses`.

These are in `Records_proofs`. The first two follow from `Inv == TypeOK /\ VotersMatchVotes`, which is inductive.
`TypeOK` alone is not: that a decremented counter is still positive needs
nothing but the test for one, but that a *closed* record leaves no vote behind
needs the counter to be exact, and that a *created* one starts with exactly one
vote needs that no vote of an earlier incarnation is left (`CountersOK`).
Counting votes needs the set of votes to be finite, which is why `VotesOK` says
so. The lemmas go along the layers of the code: reserves and balances, one
transfer (`TransferredOK`), a claimed address (`ClaimedOK`), a vote created or
closed (`VoteCreatedOK`, `VoteClosedOK`), a record created (`HashCreatedOK`,
`CreatedOK`), a vote added (`VoteAddedOK`) and released (`ReleasedOK`); each says
that the ledger invariants survive. `BranchTakingVote` is then the composition of
two lemmas.

The next two need `HistoryOK` as well: every live record's
snapshot is in `born`, and every snapshot in `born` is `Genuine`: stamped no
later than now, with origins in `born`, and with the fields of its kind
(`SourceFits`). `OriginsExisted` alone is not inductive, because a child is made
from a *live* record, which has to be known to be in the history, and
`IdDeterminesSource` is no induction at all: it follows from what each kind of
hash commits to (`SameIdSameSource`, by cases on the kind). For a branch the
digest holds the parent's id, generation and payload; for a batch each member's
fingerprint determines the member's id.

`RecordsRefineWitnesses` maps a creation to `Found`, a vote to
`Support`, a withdrawal to `Withdraw`, a branch that takes the vote to `Move`, time
to `Pass`, and everything else to a stutter. It needs `Inv`: that a new record
has one supporter because no vote was left under its id, and that the counter
is one exactly when the supporters are one.

`Economy_proofs`, for any number of users, any rent prices and any gifts:

- `TotalIsConserved`: `Spec => []Conservation`.
- `RecordsCoverClaims`: `Spec => []ClaimsCovered`. A record holds at least what its
  voters may take out of it.
- `ExitStaysOpen`: `Spec => []ExitOpen`. The last voter can leave, and so can
  anybody next to a claim at the price of today.
- `InstructionsCostNothing`: `Spec => NobodyLoses`. What anybody owns (wallet,
  claims, vote reserves) is no less after an instruction, theirs or another's.

`EconomyInv` is `Inv /\ Books(ledger)`: the balances are finitely many, and cover
the claims. `ClaimsCovered` is not inductive without `Inv`: that nothing is owed by a
record just created needs that no vote is left at its address, and that the last
voter may be given the whole balance needs that the counter tells who is last.
The properties sum over accounts with a fold, which picks the elements of a set one
by one, in an order nobody knows. What such a sum does when one account
changes is an induction over finite sets, which the induction theorems of the
library cannot be used for; it is shown on a smallest set for which it
would fail (`SmallestSet`), which exists because strict inclusion is well founded on the subsets of
a finite set. On top, `Spent` says what an instruction leaves of the balances (those of its user,
of one record and of one vote change, and by how much), and `BooksKept` that
nobody else's books change with them.

`Capture_proofs`, for any users, any methods called and any number of transactions
in between:

- `ArchivesAreHistory`: `CaptureSpec => []CapturesGenuine`.
- `KeptVotesCapture`: `CaptureSpec => KeptVoteCapturesOwn`.
- `DerivedFromWhatWasRead`: `CaptureSpec => LandsAsRead`.

The parts of `CaptureInv`: the chain's own invariants, with `HistoryOK` (`Past`),
because what any bank answers was on the ledger at some time and has to have
been a record then; that what a call has read, expects, and may be answered are
such snapshots, of the ids it asked for (`CallsTyped`); that what was could be
created again as it was (`BornOK`), because others restore; and, of a call whose
transaction landed and whose caller keeps the vote, that the record of
that transaction is still there, and that all that banks may answer since is of
it or nothing (`CallsKept`). The last holds because a record with a vote is never
replaced (`Unreplaced`), which every instruction, every restore and every environment
step is shown to respect. That the confirmed archive is of a genuine record combines
what was read with what was answered: the two may be of different
incarnations, but the address commits to what was read (`Expected`).

`Restore_proofs` does all this again with restore in the program:

- `RestoreInventsNothing`: `RestoreSpec => NothingInvented`. Whatever proofs are
  submitted, a restore creates only records that were.
- `RestoreIsWhole`: `RestoreSpec => RestoredWhole`.
- `RestoreKeepsPromises`: the types, the counters, the origins and the
  determination of sources hold with restore as without it.

The heart is `ProofIsHistory`, a lemma about values: if the tip of an accepted
proof is a record of a genuine history, and so are the links called existing,
then every link is. The links that are history have the tip among them and are
closed under dependencies, because the commitments of such a link determine the
hash, the kind and the time of what it derives from (`OriginsOfLink`), and the
latter's own commitments the rest (`LinkIsRecord`); so they are all of them
(`AllBehind`). No induction over the length of a proof is needed, because the
graph's properties are stated over sets. `RestoreInv` adds to the invariants of `Records` that the
records in `born` are well formed (`BornOK`) and that the instruction at work has
a good ledger of its own, that all it has yet to create is history, and that what
it was asked for and need not create any more is there (`WorkOK`).

and, with the SDK's planner and executor on top of that program, for any archive,
true or not, any targets and anchors, any size of a transaction, reads of any
bank, and anything others do in between, restores with any decoded proofs included,
however often the plan is executed, one execution after the other:

- `ResultIsHistory`: `PlanSpec => []ResultAuthenticated`. What is returned, or was
  gathered before a failure, has only records that were.
- `PlanIsAccepted`: `PlanSpec => []UndisturbedPlanAccepted`. A plan made of current
  reads is accepted to its end while only its own steps change the ledger.
- `ResultIsTold`: `PlanSpec => []ResultTellsWhatLanded`.
- `PlannedIsFunded`: `PlanSpec => OnlyPlannedFunded`. A step pays for what the plan
  showed, and without consent for targets only.
- `StepRestores`: `PlanSpec => LandedStepRestores`.

They rest on two facts. One is about values: whatever was read, a candidate that
compiles has a proof the program accepts as long as the records it does not expect
to create exist (`Compiled`, `CandidateCompiled`). This is `BuiltIsAccepted` again,
and that an account's link alone cares for what exists (`ValidWithout`). The
other is `PlanInv`, which adds to `RestoreInv`:

- `JobOK`: the steps are candidates and cover the targets (`PlanOK`); the steps before
  the one at work have landed, and the transaction of that one is on its way, at
  work, or neither (`ProgressOK`); what was found present, and what a step that
  landed brought, is history (`ResultOK`). The result joins what the *archive* says, so that it is true has
  to come from the transaction: the proof of a step that was accepted is history
  (`BeginIsHistory`), and has what the archive has.
- `CopyOK`: the copy a restore works on is the ledger and some of what it was asked
  for.
- `RunningOK`: the restore at work is the step's, with what was missing at its start
  among its announced creations, since nothing else was writable; or somebody
  else's, and then the plan counts as disturbed.
- `UndisturbedOK`: every step, landed or not, finds the ledger as it was planned for
  (`Stands`): its anchor is there, each record it asks for is there as the archive has it
  or is one it expects to create. A step that lands keeps this for all the
  others (`StepsStand`), because all of them are proofs of one archive: what it
  creates is what they would have created. `UndisturbedPlanAccepted` is not
  inductive by itself: it says nothing of the transaction half-way.

TLC checked these parts as invariants on the instance of `restore_plan` before they
were proved.

`DependencyOrder_proofs`:

- `ResultIsCreationOrder`: `Spec => []DependenciesFirst`. For every graph, all
  roots and either mode, a node comes once, and after all it derives from.
- `OrderAdvances`: `Spec => EveryTurnAdvances`. After `Exits` and `Result` a node that is
  left was entered and not left before; so each turn enters a node for the first
  time, leaves one for the first time, starts the next root, or only shortens the
  stack.
- `WalkIsTyped`: `Spec => []TypeOK`.
- `OrderIsBehind`: `Spec => []OrdersWhatIsBehind`. The result is exactly what is
  behind the roots, which is what the operations of `Archive` take for granted
  (`Behind`, `CanOrder`); a cycle is reported only when there is one behind the roots, and
  a node or its members are missed only when the archive lacks them.

`OrderInv` has, besides the types, that an active node has exactly one exit on the
stack (`Exits`), that the result lists each node that is done once (`Result`),
and that each dependency of a node with an exit on the stack, if it is there or has to
be, is either done or above that exit, waiting to be entered (`Accounted`): so when the exit
comes to the top, nothing is left but what is done.

`WalkInv` adds what `OrderIsBehind` needs. In one direction, that the walk
goes only where the roots lead (`Reached`). In the other, that the roots whose turn
was are done or on the stack (`RootsTaken`) and that what is done is closed
(`DoneIsClosed`): with an empty stack what is done has the roots and is closed, so
it is all that is behind them. For the errors, that above an exit everything derives
from its node through the exits in between (`Path`): a node found active again is then on
a cycle, whose nodes are a set with no first one. `Ended` keeps what each
outcome said. That a result shows that there is no cycle needs no further part:
of any set of nodes, the first in the order derives from none of the set.

`ProofGraph_proofs`:

- `AcceptsHistories`: `Spec => []AcceptsExactlyHistories`. For proofs of any length
  the walk accepts a proof exactly when it is a history. This is what `Restore`
  builds on when it takes the graph of a proof for granted as `GraphAccepted`.
- `OrderIsCreationOrder`: `Spec => []DependenciesFirst`. Each link once, after all it
  derives from, the tip last.
- `WalkAdvances`: `Spec => EveryTurnAdvances`. Each turn that goes on enters a link for
  the first time, leaves one for the first time (`Path`, and that nothing is
  visiting and visited, in `Result`), or moves past one dependency, of which the
  link has finitely many (`GraphIsTyped`).
- `GraphIsTyped`: `Spec => []TypeOK`.

`GraphInv` says where the walk is: each frame of the stack is at the dependency
the frame above it walks, and `visiting` has the links on the stack (`Path`);
what a frame has passed is visited, but for that one dependency (`Handled`); the
links visited are those in the order, once, origins first (`Result`); and every
closed set that has the tip has all of them (`Behind`). Without `Path` a `Cycle`
would be an error of which nothing is known: with it, the frames above the
repeated link derive from each other, so that no history has them. When the
stack is empty the links visited are closed and have the tip, so they are all
links exactly if all are behind the tip; and the first link in the order, of any
set of them, derives from none of the set.

`ArchiveLibrary_proofs`, on the lemmas of `Archive_proofs`, for archives of any size:

- `ShelvesParse`: `Spec => []TypeOK`.
- `MergeHasNoOrder`: `Spec => []MergeOrderFree`. `Merged` associates always, and
  commutes where the archives can be joined, since two nodes of one snapshot and
  one witness are one node. That an intermediate result parses whenever the final
  one does is the lemma `PartIsValid`: what has some of the nodes of an archive
  and some of their witnesses is an archive.
- `EvidenceIsKept`: `Spec => NeverRewritten`.
- `RecordsHaveOneHistory`: `Spec => []OneHistory`. The records behind a common one on
  which two archives agree are closed under dependencies in both: the commitment
  of a node fixes its origins in hash, kind and time (`SameOrigins`), and what is
  behind an origin fixes its source (`SameSource`).
- `BuiltIsAccepted`: `Spec => []BuiltProofsAccepted`. What the SDK builds satisfies, for
  every kind of link, what the program checks.
- `BuiltImportsBack`: `Spec => []BuiltProofsImport`.
- `SelectionIsWhole`: `Spec => []SelectionStands`.
- `ProgramAndArchiveAgree`: `Spec => []AcceptedProofsAgree`. What the program accepts
  on its tip, from whomever, is an archive to the SDK, if it has at most
  `NodeLimit` links; and to an archive closed behind that tip it is nothing new. The
  first half goes check by check through what parsing asks: of a link's members and
  prints (`AcceptedPrints`, `AcceptedMembers`), of its digest
  (`AcceptedCommits`), and of the generations of branches, which are numbers because a
  proof without a cycle has a first link (`AcceptedGenerations`). For the second half, the
  imported proof is an archive closed behind its tip, with nothing else in it
  (`AcceptedIsBehindTip`), so that the argument of `RecordsHaveOneHistory` applies to the
  two; and what is one snapshot in both has one witness (`SameWitness`).

The invariant, `ShelfInv`, is that every shelf holds an archive that parses
(`TypeOK`) and whose nodes have the fields of their type and no other
(`WellShaped`), finitely many. Without the second part two nodes could agree on
all the code compares and still differ, and the order of a merge would show.

These proofs rest on the modelling assumption that digests and addresses are
injective, and on no bound: with `MaxTime` and the others arbitrary numbers.

Only model-checked: `Termination` of both walks, which is liveness. Its safety part,
that no turn leaves a walk where it was, is proved (`EveryTurnAdvances`); that a
walk which always advances ends takes fairness and `ENABLED`, and an induction over
the measure. Every other property of the runs is a theorem.

## Not modelled

- Input normalisation, wire encoding, rent estimates (`encoding.ts`, `rent.ts`,
  `protocol/normalization.ts`): conversions without state, below the abstraction
  of digests and ids. So are the byte layouts of the digests, which
  `compatibility_tests.rs` and the fixtures of `tests/` keep equal.
- The text side of `archive/codec.ts`: JSON, duplicate keys, the limit of 16 MiB,
  the formatting of `stringifyArchive`. What makes a decoded value an archive is
  modelled (`Archive!Valid`).
- The bytes of a transaction and the choice of a payer in
  `client/transactions.ts`; forks of the chain that unmake a confirmed
  transaction.
- Telemetry, error codes, entry points and account decoding: no decisions of
  their own.
- Build files, scripts, tests, examples, docs.
