----------------------------- MODULE RestorePlan ------------------------------
(***************************************************************************)
(* Restoring records from an archive through the SDK                       *)
(* (sdk/client/archive-restore.ts): the planner reads the live records,    *)
(* compiles complete proofs that fit into a transaction and chooses among  *)
(* them; the executor sends them later, one after the other, and stops at  *)
(* the first that is not confirmed.  The program of Restore executes them, *)
(* and others use it between any two steps, for restores too.  A plan may  *)
(* be executed again once its execution is over, but not twice at once.    *)
(*                                                                         *)
(* The size of a transaction is abstracted to the links of its proof and   *)
(* the records it names, and the preference for fewer bytes among equally  *)
(* good proofs to a free choice.  Targets without a repetition, signers    *)
(* that do not change and one program are assumed: everything else is      *)
(* refused before anything is read or sent.                                *)
(***************************************************************************)
EXTENDS Restore, Archive

CONSTANTS
    Planner,    \* the user who plans and pays
    Requests    \* what may be asked for: archive, targets (a sequence), create,
                \* anchors (those considered) and limit (of a transaction)

ASSUME PlannerAssumption == Planner \in Users
ASSUME PlanLimitAssumption == GenerationLimit = MaxGeneration

\* The archive of a request was decoded; what is in it may be anything.
ASSUME RequestsAssumption ==
    \A rq \in Requests :
        /\ IsFiniteSet(DOMAIN rq.archive)
        /\ rq.archive = [i \in DOMAIN rq.archive |-> rq.archive[i]]
        /\ \A i \in DOMAIN rq.archive : NodeShaped(rq.archive[i])
        /\ IsList(rq.targets) /\ rq.create \in BOOLEAN

VARIABLE job   \* the restore the planner is at

planVars == <<restoreVars, job>>

NoJob == [phase |-> "none"]

\* The SDK sees the ledger before a transaction and after it.
Between == restoring = Idle /\ UNCHANGED restoreVars

PlanInit == RestoreInit /\ job = NoJob

(***************************************************************************)
(* readArchiveRecord of every node: reads.failed are the ids it throws for,*)
(* reads.live what it says of the others, nothing or a snapshot.  They are *)
(* made one after the other while records come and go, by nodes that lag   *)
(* behind: each says what was true in some bank.                           *)
(***************************************************************************)
Banks(i) == {Thrown} \cup {<<s>> : s \in {q \in born : IdOf(q) = i}}

LiveReads(ids) == {f \in [ids -> UNION {Banks(i) : i \in ids}] : \A i \in ids : f[i] \in Banks(i)}

Reads(archive) ==
    UNION {{[failed |-> failed, live |-> live] : live \in LiveReads(DOMAIN archive \ failed)} :
           failed \in SUBSET DOMAIN archive}

Matches(rq, reads, i) ==
    /\ i \in DOMAIN reads.live
    /\ reads.live[i] = <<SnapshotOf(rq.archive[i])>>

Conflicts(rq, reads, i) ==
    i \in DOMAIN reads.live /\ reads.live[i] # Thrown /\ ~Matches(rq, reads, i)

\* Whether the reads say what the ledger says now.
Current(rq, reads) ==
    \A i \in DOMAIN rq.archive :
        /\ i \notin reads.failed
        /\ reads.live[i] = IF Live(ledger, i) THEN <<SnapshotOf(ledger.hash[i])>> ELSE Thrown

(***************************************************************************)
(* compileArchiveCandidate, with buildRestoreProof and prepareRestore.     *)
(***************************************************************************)
\* prepareRestore: the records a proof asks for.
Prepared(proof, create) == IF create THEN Materializable(proof) ELSE {}

\* Mutant: what has no payload in the proof is believed to exist.
ExistingAssumed(rq, reads, anchor) == Behind(rq.archive, {anchor})

Existing(rq, reads, anchor) ==
    IF rq.create THEN {i \in Behind(rq.archive, {anchor}) : Matches(rq, reads, i)}
    ELSE {anchor}

\* Mutant: the proof names no target.
ProofUntargeted(rq, reads, anchor, selected) ==
    Built(rq.archive, anchor, {}, Existing(rq, reads, anchor))

ProofOf(rq, reads, anchor, selected) ==
    Built(rq.archive, anchor, selected, Existing(rq, reads, anchor))

Size(candidate) == Cardinality(DOMAIN candidate.proof.links) + Cardinality(candidate.pairs)

CreationsOf(rq, reads, requested) == {i \in requested : ~Matches(rq, reads, i)}

\* Mutant: a step is said to authenticate all of the archive.
AuthenticatedAll(rq, anchor) == rq.archive

Authenticated(rq, anchor) == Selection(rq.archive, {anchor}, TRUE)

Candidate(rq, reads, anchor, selected) ==
    LET proof     == ProofOf(rq, reads, anchor, selected)
        requested == Prepared(proof, rq.create)
        creations == CreationsOf(rq, reads, requested)
    IN  [anchor |-> anchor, targets |-> selected, proof |-> proof, pairs |-> requested,
         creations |-> creations, additional |-> creations \ Range(rq.targets),
         archive |-> Authenticated(rq, anchor)]

\* Mutant: a record read in another incarnation is asked for all the same.
CompilesOverConflict(rq, reads, anchor, selected) ==
    /\ CanBuild(rq.archive, anchor, selected, Existing(rq, reads, anchor))
    /\ LET c == Candidate(rq, reads, anchor, selected) IN
       c.pairs \cap reads.failed = {} /\ Size(c) <= rq.limit

Compiles(rq, reads, anchor, selected) ==
    /\ LET c == Candidate(rq, reads, anchor, selected) IN
       /\ \A i \in c.pairs : i \notin reads.failed /\ ~Conflicts(rq, reads, i)
       /\ Size(c) <= rq.limit
    /\ CanBuild(rq.archive, anchor, selected, Existing(rq, reads, anchor))

(***************************************************************************)
(* planArchiveRestore.  A selection that does not compile is tried in      *)
(* halves, with the whole of the anchor's history each.                    *)
(***************************************************************************)
AnchorUsable(rq, reads, anchor) ==
    /\ anchor \in DOMAIN rq.archive
    /\ Matches(rq, reads, anchor)
    /\ CanOrder(rq.archive, {anchor})

\* The targets behind an anchor, by their places among the targets.
Covered(rq, anchor) ==
    {k \in DOMAIN rq.targets : rq.targets[k] \in Behind(rq.archive, {anchor})}

FirstHalf(places) ==
    {k \in places : 2 * Cardinality({j \in places : j <= k}) <= Cardinality(places) + 1}

\* What halving again and again makes of some places.
Halvings(places) ==
    {part \in SUBSET places :
        \A parts \in SUBSET SUBSET places :
            /\ places \in parts
            /\ \A whole \in parts :
                  Cardinality(whole) > 1 =>
                      {FirstHalf(whole), whole \ FirstHalf(whole)} \subseteq parts
            => part \in parts}

\* The selections that compile, of those tried: whatever they are a part of
\* did not.
Selected(rq, reads, anchor) ==
    LET fits == {part \in Halvings(Covered(rq, anchor)) :
                    Compiles(rq, reads, anchor, {rq.targets[k] : k \in part})}
    IN  {part \in fits : \A whole \in fits : part \subseteq whole => part = whole}

Usable(rq, reads) ==
    UNION {{Candidate(rq, reads, anchor, {rq.targets[k] : k \in part}) :
               part \in Selected(rq, reads, anchor)} :
           anchor \in {a \in rq.anchors : AnchorUsable(rq, reads, a) /\ Covered(rq, a) # {}}}

AlreadyPresent(rq, reads) ==
    IF rq.create THEN {t \in Range(rq.targets) : Matches(rq, reads, t)} ELSE {}

Gain(candidate, remaining) == Cardinality(candidate.targets \cap remaining)

\* Most of the remaining targets first, then fewest additional records.
Best(usable, remaining) ==
    {c \in usable :
        /\ Gain(c, remaining) > 0
        /\ \A d \in usable :
              \/ Gain(c, remaining) > Gain(d, remaining)
              \/ /\ Gain(c, remaining) = Gain(d, remaining)
                 /\ Cardinality(c.additional) <= Cardinality(d.additional)}

\* The targets left when the first steps are chosen.
Remaining(rq, reads, steps, chosen) ==
    (Range(rq.targets) \ AlreadyPresent(rq, reads))
        \ UNION {steps[k].targets : k \in 1..chosen}

\* The plans the choice among the best may end with: none if a target is
\* left that no candidate covers.
Plans(rq, reads) ==
    LET usable == Usable(rq, reads) IN
    {steps \in UNION {[1..n -> usable] : n \in 0..Len(rq.targets)} :
        /\ \A k \in DOMAIN steps : steps[k] \in Best(usable, Remaining(rq, reads, steps, k - 1))
        /\ Remaining(rq, reads, steps, Len(steps)) = {}}

Accepted(rq) ==
    Valid(rq.archive) /\ rq.targets # <<>> /\ Range(rq.targets) \subseteq DOMAIN rq.archive

Present(rq, reads) == [i \in AlreadyPresent(rq, reads) |-> rq.archive[i]]

Planned(rq, reads, steps) ==
    [phase |-> "planned", request |-> rq, steps |-> steps, at |-> 1,
     present |-> Present(rq, reads), result |-> Present(rq, reads),
     pending |-> FALSE, running |-> FALSE, landed |-> {}, consent |-> FALSE,
     undisturbed |-> Current(rq, reads)]

PlanRestore(rq) ==
    /\ job = NoJob
    /\ job' \in IF Accepted(rq)
                THEN UNION {{Planned(rq, reads, steps) : steps \in Plans(rq, reads)} :
                            reads \in Reads(rq.archive)}
                ELSE {}
    /\ Between

(***************************************************************************)
(* executeArchiveRestore, of one execution: at is the step it is at, and   *)
(* landed has those that landed; pending says that the transaction of step *)
(* at was sent and may land, now or after the SDK has given up on it;      *)
(* running that the restore at work is that transaction.                   *)
(***************************************************************************)
Consented(steps) == \A k \in DOMAIN steps : steps[k].additional = {}

\* A plan is executed from its first step, however often.  What an execution
\* before sent and never saw land is from then on like others' restores.
Execute(allowAdditionalRecords) ==
    /\ job.phase \in {"planned", "done", "failed"}
    /\ allowAdditionalRecords \/ Consented(job.steps)
    /\ job' = [job EXCEPT !.phase = "executing", !.consent = allowAdditionalRecords,
                          !.at = 1, !.result = job.present,
                          !.pending = FALSE, !.landed = {}]
    /\ Between

Send ==
    /\ job.phase = "executing" /\ job.at <= Len(job.steps)
    /\ job' = [job EXCEPT !.phase = "sent", !.pending = TRUE]
    /\ Between

Step == job.steps[job.at]

\* Mutant: every record named may be written, so created.
WritableEvery(step) == step.pairs

\* isWritable, of the accounts of the instruction.
Writable(step) == step.pairs \cap step.creations

\* The transaction starts; the one who pays is the one who planned.
Lands ==
    /\ job # NoJob /\ job.pending
    /\ RestoreBegin(Planner, Step.proof, Step.pairs, Writable(Step))
    /\ job' = [job EXCEPT !.pending = FALSE, !.running = TRUE]

\* sendAndConfirm returns: what the step authenticates joins the result.
Confirmed ==
    /\ job.phase = "sent" /\ job.at \in job.landed
    /\ LET merged == MergeArchives(<<job.result, Step.archive>>) IN
       job' = IF merged = Thrown THEN [job EXCEPT !.phase = "failed"]
              ELSE [job EXCEPT !.phase = "executing", !.at = @ + 1, !.result = merged[1]]
    /\ Between

\* Mutant: a step that fails is skipped.
FailsOnward ==
    /\ job.phase = "sent"
    /\ job' = [job EXCEPT !.phase = "executing", !.pending = FALSE, !.at = @ + 1]
    /\ Between

\* sendAndConfirm throws: refused, failed, or no confirmation in time.
Fails ==
    /\ job.phase = "sent"
    /\ job' = [job EXCEPT !.phase = "failed"]
    /\ Between

Completes ==
    /\ job.phase = "executing" /\ job.at > Len(job.steps)
    /\ job' = [job EXCEPT !.phase = "done"]
    /\ Between

\* The planner reads the result, or drops the plan.
Leaves ==
    /\ job.phase \in {"planned", "done", "failed"}
    /\ job' = NoJob
    /\ Between

(***************************************************************************)
(* Whatever else happens: other instructions, and restores by anybody with *)
(* their own proofs or those a plan displays.  To write every record asked *)
(* for is the most a restore can do: one with fewer is refused or the same.*)
(***************************************************************************)
Disturbed(changed) ==
    IF job = NoJob \/ ~changed THEN job ELSE [job EXCEPT !.undisturbed = FALSE]

Elsewhere ==
    /\ restoring = Idle /\ Next /\ UNCHANGED restoring
    /\ job' = Disturbed(ledger' # ledger)

Displayed == IF job = NoJob THEN {} ELSE {job.steps[k].proof : k \in DOMAIN job.steps}

RestoreElsewhere(create) ==
    /\ \E u \in Users, p \in Proofs \cup Displayed :
          RestoreBegin(u, p, Prepared(p, create), Prepared(p, create))
    /\ job' = Disturbed(TRUE)

\* The restore at work goes on; if it is a step it lands with its end.
Restores ==
    \/ RestoreCreate /\ UNCHANGED job
    \/ RestoreFail /\ job' = IF job = NoJob THEN job ELSE [job EXCEPT !.running = FALSE]
    \/ RestoreEnd /\ job' = IF job # NoJob /\ job.running
                            THEN [job EXCEPT !.running = FALSE, !.landed = @ \cup {job.at}]
                            ELSE job

PlanNext ==
    \/ Elsewhere
    \/ Restores
    \/ \E rq \in Requests : PlanRestore(rq)
    \/ \E consent \in BOOLEAN : Execute(consent)
    \/ Send \/ Lands \/ Confirmed \/ Fails \/ Completes \/ Leaves
    \/ \E create \in BOOLEAN : RestoreElsewhere(create)

PlanSpec == PlanInit /\ [][PlanNext]_planVars

(***************************************************************************)
(* Properties.                                                             *)
(***************************************************************************)

\* A step creates only records its plan said it would, and without consent
\* only targets: a record that was live when the plan was made and has been
\* closed since makes the step fail instead of being paid for.
OnlyPlannedFunded ==
    [][restoring # Idle /\ job # NoJob /\ job.running =>
          LET created == DOMAIN ledger'.hash \ DOMAIN ledger.hash IN
          /\ created \subseteq Step.creations
          /\ job.consent \/ created \subseteq Range(job.request.targets)]_planVars

\* A step that lands leaves its targets live, as the archive has them.
LandedStepRestores ==
    [][restoring # Idle /\ job # NoJob /\ job.request.create /\ job.landed # job'.landed =>
          \A t \in Step.targets : MatchesLink(ledger', t, job.request.archive[t])]_planVars

\* The archive a restore returns, or leaves when it fails, has only records
\* that were, whatever the archive it was given says.
ResultAuthenticated ==
    job # NoJob => \A i \in DOMAIN job.result : SnapshotOf(job.result[i]) \in born

\* A plan read from a ledger that nobody has changed since, but for its own
\* steps, is one that the program accepts to its end: no step needs what
\* another takes away, and no record is asked for that is in the way.
UndisturbedPlanAccepted ==
    job # NoJob /\ job.undisturbed /\ restoring = Idle =>
        \A k \in job.at..Len(job.steps) :
            RestoreAccepted(ledger, Planner, job.steps[k].proof, job.steps[k].pairs,
                            Writable(job.steps[k]))

\* What a restore tells when it stops is what happened: the steps before the
\* one it stopped at have landed and their history is in the result; that one
\* may have landed, none after it has.  When it is done all targets are there.
ResultTellsWhatLanded ==
    job # NoJob =>
        /\ 1..(job.at - 1) \subseteq job.landed /\ job.landed \subseteq 1..job.at
        /\ \A k \in 1..(job.at - 1) : DOMAIN job.steps[k].archive \subseteq DOMAIN job.result
        /\ job.phase = "done" => Range(job.request.targets) \subseteq DOMAIN job.result
=============================================================================
