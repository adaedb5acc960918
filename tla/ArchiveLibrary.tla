---------------------------- MODULE ArchiveLibrary ----------------------------
(***************************************************************************)
(* Users keep archives and work on them with the operations of the SDK:    *)
(* they add nodes, merge archives, narrow them to a selection, and merge   *)
(* in what a proof says.  Nodes and proofs come from anywhere, so they may *)
(* be of different incarnations or not have happened at all.  An operation *)
(* that throws leaves its inputs alone, as every operation does.           *)
(***************************************************************************)
EXTENDS Archive

CONSTANTS
    Shelves,        \* where users keep an archive
    Nodes,          \* the nodes they may hear of
    Proofs,         \* the proofs they may hear of: a tip and links
    MaxGeneration   \* u64::MAX of the program

ASSUME SameLimitAssumption == GenerationLimit = MaxGeneration

\* What users hear of, they have decoded.
ASSUME InputsAssumption ==
    /\ \A n \in Nodes : NodeShaped(n)
    /\ \A p \in Proofs :
          /\ IsFiniteSet(DOMAIN p.links)
          /\ \A i \in DOMAIN p.links : LinkShaped(p.links[i])

VARIABLE shelf   \* the archive on each shelf

Init == shelf = [s \in Shelves |-> Empty]

Returns(s, result) == result # Thrown /\ shelf' = [shelf EXCEPT ![s] = result[1]]

Add(s, n) == Returns(s, MergeArchives(<<shelf[s], Single(n)>>))

Merge(s, t) == Returns(s, MergeArchives(<<shelf[s], shelf[t]>>))

ImportProof(s, p) ==
    LET import == ArchiveFromProof(p.links) IN
    /\ import # Thrown
    /\ Returns(s, MergeArchives(<<shelf[s], import[1]>>))

Select(s, ids, withDependencies) ==
    Returns(s, SelectArchive(shelf[s], ids, withDependencies))

Next ==
    \E s \in Shelves :
        \/ \E n \in Nodes : Add(s, n)
        \/ \E t \in Shelves \ {s} : Merge(s, t)
        \/ \E p \in Proofs : ImportProof(s, p)
        \/ \E ids \in SUBSET DOMAIN shelf[s], withDependencies \in BOOLEAN :
              Select(s, ids, withDependencies)

Spec == Init /\ [][Next]_shelf

(***************************************************************************)
(* Properties.                                                             *)
(***************************************************************************)

\* Every archive on a shelf parses, whatever was done to get it.
TypeOK == \A s \in Shelves : Valid(shelf[s])

\* Evidence is never rewritten: whatever is merged, imported or selected, a
\* record that stays on a shelf keeps its incarnation and its witness.
NeverRewritten ==
    [][\A s \in Shelves : \A i \in DOMAIN shelf[s] \cap DOMAIN shelf'[s] :
          /\ Same(shelf[s][i], shelf'[s][i])
          /\ shelf[s][i].witness # Unknown => shelf'[s][i].witness = shelf[s][i].witness]_shelf

\* Users who merge the same archives, in any order, at once or pair by pair,
\* end with the same archive or all with an error.
MergeOrderFree ==
    \A s, t \in Shelves, n \in Nodes :
        LET A == shelf[s]  B == shelf[t]  C == Single(n) IN
        /\ MergeArchives(<<A, B, C>>) = MergeArchives(<<C, B, A>>)
        /\ MergeArchives(<<A, B, C>>) = MergeArchives(<<B, C, A>>)
        /\ MergeArchives(<<A, B, C>>) =
              IF CanMerge(<<A, B>>) THEN MergeArchives(<<MergeOf(<<A, B>>), C>>) ELSE Thrown

\* An archive that needs nothing more to prove what is behind a record.
Closed(A, i) ==
    /\ CanOrder(A, {i})
    /\ Behind(A, {i}) \cap MissingWitnesses(A) = {}

\* A record has one history: two archives, each with all that is behind a
\* record they share, have the same records behind it.
OneHistory ==
    \A s, t \in Shelves : \A i \in DOMAIN shelf[s] \cap DOMAIN shelf[t] :
        Same(shelf[s][i], shelf[t][i]) /\ Closed(shelf[s], i) /\ Closed(shelf[t], i)
        => /\ Behind(shelf[s], {i}) = Behind(shelf[t], {i})
           /\ \A j \in Behind(shelf[s], {i}) : Same(shelf[s][j], shelf[t][j])

\* A selection with dependencies is enough to prove what was selected, and
\* merging it back changes nothing.
SelectionStands ==
    \A s \in Shelves : \A ids \in SUBSET DOMAIN shelf[s] :
        CanOrder(shelf[s], ids) =>
            LET part == Selection(shelf[s], ids, TRUE) IN
            /\ CanSelect(shelf[s], ids, TRUE)
            /\ MissingNodes(part) = {}
            /\ MergeArchives(<<part, shelf[s]>>) = <<shelf[s]>>

\* The program accepts the history of every proof the SDK builds, provided
\* the records it calls existing are live and match: what an archive can
\* prove to the SDK it can prove to the program.
BuiltProofsAccepted ==
    \A s \in Shelves : \A anchor \in DOMAIN shelf[s] :
        \A targets, existing \in SUBSET Behind(shelf[s], {anchor}) :
            CanBuild(shelf[s], anchor, targets, existing) =>
                LET p == Built(shelf[s], anchor, targets, existing) IN
                /\ GraphAccepted(p.links, p.tip)
                /\ ProofValid(p.links, existing \cup {anchor}, MaxGeneration)

\* A proof built from an archive and imported again adds nothing to it, and
\* has every record behind the anchor.
BuiltProofsImport ==
    \A s \in Shelves : \A anchor \in DOMAIN shelf[s] :
        \A existing \in SUBSET Behind(shelf[s], {anchor}) :
            CanBuild(shelf[s], anchor, {anchor}, existing) =>
                LET links == Built(shelf[s], anchor, {anchor}, existing).links IN
                /\ CanImport(links)
                /\ DOMAIN Imported(links) = Behind(shelf[s], {anchor})
                /\ MergeArchives(<<shelf[s], Imported(links)>>) = <<shelf[s]>>

\* Whatever proof the program accepts with nothing but its tip live, the SDK
\* imports, if it has no more links than an archive may have nodes; and an
\* archive that is closed behind that tip agrees with it and learns nothing.
AcceptedProofsAgree ==
    \A p \in Proofs :
        /\ Cardinality(DOMAIN p.links) <= NodeLimit
        /\ GraphAccepted(p.links, p.tip)
        /\ ProofValid(p.links, {p.tip}, MaxGeneration)
        => /\ CanImport(p.links)
           /\ \A s \in Shelves :
                 /\ p.tip \in DOMAIN shelf[s] /\ Same(shelf[s][p.tip], p.links[p.tip])
                 /\ Closed(shelf[s], p.tip)
                 => MergeArchives(<<shelf[s], Imported(p.links)>>) = <<shelf[s]>>
=============================================================================
