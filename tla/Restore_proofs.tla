---------------------------- MODULE Restore_proofs ----------------------------
(***************************************************************************)
(* Theorems about Restore and RestorePlan, for every value of the          *)
(* constants: whatever proofs are submitted, a restore invents nothing,    *)
(* and what Records promises of its ledger and its history is still true;  *)
(* whatever archive a restore is planned from, the SDK returns history,    *)
(* pays for no more than it planned and tells what landed.                 *)
(***************************************************************************)
EXTENDS RestorePlan, Records_proofs, Archive_proofs

(***************************************************************************)
(* A link and a record.                                                    *)
(***************************************************************************)

\* What is needed of a record: it is a snapshot and it is genuine.
Historical(q, records, now) ==
    q = [hash |-> q.hash, source |-> q.source, created_at |-> q.created_at]
        /\ Genuine(q, records, now)

\* A link with the hash, kind and time of a record that existed is that
\* record: its commitments leave no room for another source.
LEMMA LinkIsRecord ==
    ASSUME NEW B, NEW now, NEW q, Historical(q, B, now),
           NEW links, NEW i \in DOMAIN links, SourceShaped(links[i].source),
           NEW existing, i \notin existing,
           LinkValid(links, i, i \in existing, MaxGeneration),
           links[i].hash = q.hash, links[i].source.kind = q.source.kind,
           links[i].created_at = q.created_at
    PROVE  SnapshotOf(links[i]) = q
<1> DEFINE l == links[i]
<1>1. SourceFits(q) /\ OriginsAmong(q, B)
  BY DEF Historical, Genuine
<1>2. CASE l.source.kind \in {"Hash", "Pack"}
  BY <1>1, <1>2 DEF SourceFits, SourceShaped, Historical, SnapshotOf
<1>3. CASE l.source.kind = "Account"
  <2>1. l.hash = MetadataDigest(l.source.account, l.params.data[1])
    BY <1>3 DEF LinkValid, AccountLinkValid
  <2>2. l.hash[2] = l.source.account
    BY <2>1 DEF MetadataDigest
  <2>3. l.source = q.source
    BY <1>1, <1>3, <2>2 DEF SourceFits, SourceShaped
  <2> QED
    BY <2>3 DEF Historical, SnapshotOf
<1>4. CASE l.source.kind = "Branch"
  <2>1. PICK r \in B : q.source = BranchSource(r, q.source.payload)
                        /\ q.hash = BranchHash(r, q.source.payload)
    BY <1>1, <1>4 DEF OriginsAmong
  <2> DEFINE parent == l.params.prints[1]
  <2>2. /\ l.source.generation = parent.generation + 1
        /\ l.hash = BranchDigest(l.source.previous, parent.kind, parent.created_at,
                                 parent.generation, l.source.payload)
    BY <1>4 DEF LinkValid, BranchLinkValid
  <2>3. \A a, b, c, d, e : /\ BranchDigest(a, b, c, d, e)[2] = a
                           /\ BranchDigest(a, b, c, d, e)[5] = d
                           /\ BranchDigest(a, b, c, d, e)[6] = e
    BY DEF BranchDigest
  <2>4. /\ l.source.previous = IdOf(r) /\ l.source.payload = q.source.payload
        /\ parent.generation = Generation(r.source)
    BY <2>1, <2>2, <2>3 DEF BranchHash
  <2>5. l.source = BranchOrigin(l.source.previous, l.source.payload, l.source.generation)
    BY <1>4 DEF SourceShaped
  <2>6. l.source = q.source
    BY <2>1, <2>2, <2>4, <2>5 DEF BranchSource
  <2> QED
    BY <2>6 DEF Historical, SnapshotOf
<1>5. CASE l.source.kind = "Batch"
  <2> DEFINE prints == l.params.prints
             digests == [n \in DOMAIN prints |-> PrintFingerprint(prints[n])]
             list == [n \in DOMAIN prints |-> PrintId(prints[n])]
  <2>1. l.source.members = list /\ l.hash = MembersDigest(digests)
    BY <1>5 DEF LinkValid, BatchLinkValid, AggregateMatches
  <2>2. l.hash[2] = digests /\ DOMAIN digests = DOMAIN prints
    BY <2>1 DEF MembersDigest
  <2>3. \A n \in DOMAIN prints : q.source.members[n] = PrintId(prints[n])
    <3>1. ASSUME NEW n \in DOMAIN prints PROVE q.source.members[n] = PrintId(prints[n])
      <4>1. PICK r \in B : q.hash[2][n] = Fingerprint(r) /\ q.source.members[n] = IdOf(r)
        BY <1>1, <1>5, <2>2 DEF OriginsAmong
      <4>2. PrintFingerprint(prints[n]) = Fingerprint(r)
        BY <2>2, <4>1
      <4>3. prints[n].hash = r.hash /\ prints[n].kind = r.source.kind
        BY <4>2 DEF PrintFingerprint, Fingerprint
      <4> QED
        BY <4>1, <4>3 DEF PrintId, IdOf, CanonicalId
    <3> QED
      BY <3>1
  <2>4. [n \in DOMAIN q.hash[2] |-> q.source.members[n]] = list
    BY <2>2, <2>3
  <2>5. q.source = BatchOrigin(list) /\ l.source = BatchOrigin(list)
    BY <1>1, <1>5, <2>1, <2>4 DEF SourceFits, SourceShaped
  <2> QED
    BY <2>5 DEF Historical, SnapshotOf
<1> QED
  BY <1>2, <1>3, <1>4, <1>5 DEF SourceShaped, Kinds

\* The history the proofs of links need.
Past == \A s \in born : Historical(s, born, clock)

\* Every link is valid, or was found live as it is: existing are the ids of
\* the records found.
Authentic(links, existing) ==
    /\ \A i \in DOMAIN links : SourceShaped(links[i].source) /\ IdOf(links[i]) = i
    /\ \A i \in existing : i \in DOMAIN links => SnapshotOf(links[i]) \in born
    /\ ProofValid(links, existing, MaxGeneration)

\* Whoever has the hash, kind and time of a record in the history is it.
LEMMA AuthenticLink ==
    ASSUME Past, NEW links, NEW existing, Authentic(links, existing),
           NEW q \in born, NEW i \in DOMAIN links,
           links[i].hash = q.hash, links[i].source.kind = q.source.kind,
           links[i].created_at = q.created_at
    PROVE  SnapshotOf(links[i]) \in born
<1>1. CASE i \in existing
  BY <1>1 DEF Authentic
<1>2. CASE i \notin existing
  <2>1. LinkValid(links, i, i \in existing, MaxGeneration) /\ SourceShaped(links[i].source)
    BY DEF Authentic, ProofValid
  <2> QED
    BY <1>2, <2>1, LinkIsRecord DEF Past
<1> QED
  BY <1>1, <1>2

\* What a link derives from is in the history if the link is.
LEMMA OriginsOfLink ==
    ASSUME Past, NEW links, NEW existing, Authentic(links, existing), Complete(links),
           NEW i \in DOMAIN links, SnapshotOf(links[i]) \in born,
           NEW j \in LinkDependencies(links[i])
    PROVE  j \in DOMAIN links /\ SnapshotOf(links[j]) \in born
<1> DEFINE l == links[i]
           s == SnapshotOf(l)
           prints == l.params.prints
<1>1. j \in DOMAIN links
  BY DEF Complete
<1>2. s.hash = l.hash /\ s.source = l.source /\ OriginsAmong(s, born)
  BY DEF Past, Historical, Genuine, SnapshotOf
<1>3. LinkValid(links, i, i \in existing, MaxGeneration)
  BY DEF Authentic, ProofValid
<1>4. IdOf(links[j]) = j
  BY <1>1 DEF Authentic
<1>5. CASE l.source.kind = "Branch"
  <2>1. j = l.source.previous
    BY <1>5 DEF LinkDependencies
  <2>2. PICK q \in born : s.source = BranchSource(q, s.source.payload)
                           /\ s.hash = BranchHash(q, s.source.payload)
    BY <1>2, <1>5 DEF OriginsAmong
  <2>3. /\ FingerprintMatches(prints[1], links[j])
        /\ l.hash = BranchDigest(j, prints[1].kind, prints[1].created_at,
                                 prints[1].generation, l.source.payload)
    BY <1>3, <1>5, <2>1 DEF LinkValid, BranchLinkValid
  <2>4. prints[1].kind = links[j].source.kind /\ prints[1].created_at = links[j].created_at
    BY <2>3 DEF FingerprintMatches, LinkPrint
  <2>5. \A a, b, c, d, e : /\ BranchDigest(a, b, c, d, e)[2] = a
                           /\ BranchDigest(a, b, c, d, e)[4] = c
    BY DEF BranchDigest
  <2>6. j = IdOf(q) /\ prints[1].created_at = q.created_at
    <3>1. \A p : BranchHash(q, p)[2] = IdOf(q) /\ BranchHash(q, p)[4] = q.created_at
      BY <2>5 DEF BranchHash
    <3>2. l.hash = BranchHash(q, s.source.payload)
      BY <1>2, <2>2
    <3>3. l.hash[2] = j /\ l.hash[4] = prints[1].created_at
      BY <2>3, <2>5
    <3> QED
      BY <3>1, <3>2, <3>3
  <2>7. /\ links[j].hash = q.hash /\ links[j].source.kind = q.source.kind
        /\ links[j].created_at = q.created_at
    BY <1>4, <2>4, <2>6 DEF IdOf, CanonicalId
  <2> QED
    BY <1>1, <2>7, AuthenticLink
<1>6. CASE l.source.kind \in {"Batch", "Pack"}
  <2> DEFINE digests == [n \in DOMAIN prints |-> PrintFingerprint(prints[n])]
  <2>1. AggregateMatches(links, l)
    BY <1>3, <1>6 DEF LinkValid, BatchLinkValid, PackLinkValid
  <2>2. PICK n \in DOMAIN prints : j = PrintId(prints[n])
    <3>1. CASE l.source.kind = "Pack"
      BY <3>1 DEF LinkDependencies
    <3>2. CASE l.source.kind = "Batch"
      <4>1. l.source.members = [n \in DOMAIN prints |-> PrintId(prints[n])]
        BY <1>3, <3>2 DEF LinkValid, BatchLinkValid
      <4>2. j \in {l.source.members[n] : n \in DOMAIN l.source.members}
        BY <3>2 DEF LinkDependencies
      <4> QED
        BY <4>1, <4>2
    <3> QED
      BY <1>6, <3>1, <3>2
  <2>3. l.hash = MembersDigest(digests) /\ FingerprintMatches(prints[n], links[j])
    BY <2>1, <2>2 DEF AggregateMatches
  <2>4. l.hash[2] = digests
    BY <2>3 DEF MembersDigest
  <2>5. PICK q \in born : l.hash[2][n] = Fingerprint(q)
    BY <1>2, <1>6, <2>2, <2>4 DEF OriginsAmong
  <2>6. PrintFingerprint(prints[n]) = Fingerprint(q)
    BY <2>4, <2>5
  <2>7. /\ links[j].hash = q.hash /\ links[j].source.kind = q.source.kind
        /\ links[j].created_at = q.created_at
    BY <2>3, <2>6 DEF FingerprintMatches, LinkPrint, PrintFingerprint, Fingerprint
  <2> QED
    BY <1>1, <2>7, AuthenticLink
<1>7. l.source.kind \in {"Branch", "Batch", "Pack"}
  BY DEF LinkDependencies
<1> QED
  BY <1>5, <1>6, <1>7

\* A tip in the history vouches for all of an accepted proof.
LEMMA ProofIsHistory ==
    ASSUME Past, NEW links, NEW tip, NEW existing, Authentic(links, existing),
           GraphAccepted(links, tip), SnapshotOf(links[tip]) \in born
    PROVE  \A i \in DOMAIN links : SnapshotOf(links[i]) \in born
<1> DEFINE S == {i \in DOMAIN links : SnapshotOf(links[i]) \in born}
<1>1. tip \in S /\ S \in SUBSET DOMAIN links
  BY DEF GraphAccepted
<1>2. \A i \in S : LinkDependencies(links[i]) \subseteq S
  BY OriginsOfLink DEF GraphAccepted
<1>3. S = DOMAIN links
  BY <1>1, <1>2 DEF GraphAccepted, AllBehind
<1> QED
  BY <1>3

(***************************************************************************)
(* The inductive invariant: what Records promises, and that the copy of    *)
(* the ledger a restore works on, and all it has yet to create, is of the  *)
(* history, and what it need not create any more is on the copy.           *)
(***************************************************************************)

WorkOK ==
    restoring # Idle =>
        /\ restoring.payer \in Users
        /\ LedgerOK(restoring.work, clock)
        /\ \A i \in DOMAIN restoring.work.hash : SnapshotOf(restoring.work.hash[i]) \in born
        /\ \A i \in restoring.todo :
              SnapshotOf(restoring.links[i]) \in born /\ IdOf(restoring.links[i]) = i
        /\ \A i \in restoring.pairs :
              i \in restoring.todo \/ MatchesLink(restoring.work, i, restoring.links[i])

RestoreInv == Inv /\ HistoryOK /\ BornOK /\ WorkOK

LEMMA InvHasPast == HistoryOK /\ BornOK => Past
BY DEF HistoryOK, BornOK, Past, Historical, Creatable

\* The beginning of a restore: all of its proof is history.
LEMMA BeginIsHistory ==
    ASSUME RestoreInv, NEW u, NEW p, NEW pairs, NEW writable,
           \A i \in DOMAIN p.links : SourceShaped(p.links[i].source),
           RestoreAccepted(ledger, u, p, pairs, writable)
    PROVE  \A i \in DOMAIN p.links : SnapshotOf(p.links[i]) \in born
<1> DEFINE existing == {p.tip} \cup (pairs \cap DOMAIN ledger.hash)
<1>1. /\ MatchesLink(ledger, p.tip, p.links[p.tip])
      /\ PairsValid(ledger, u, p, pairs, writable)
      /\ GraphAccepted(p.links, p.tip)
      /\ ProofValid(p.links, existing, MaxGeneration)
  BY DEF RestoreAccepted
<1>2. \A i : MatchesLink(ledger, i, p.links[i]) => SnapshotOf(p.links[i]) \in born
  BY DEF MatchesLink, Live, RestoreInv, HistoryOK
<1>3. \A i \in existing : SnapshotOf(p.links[i]) \in born
  BY <1>1, <1>2 DEF PairsValid
<1>4. Authentic(p.links, existing)
  BY <1>1, <1>3 DEF Authentic, GraphAccepted
<1> QED
  BY <1>1, <1>2, <1>4, InvHasPast, ProofIsHistory DEF RestoreInv

LEMMA BeginKeepsWork ==
    ASSUME RestoreInv, NEW u \in Users, NEW p, NEW pairs, NEW writable,
           \A i \in DOMAIN p.links : SourceShaped(p.links[i].source),
           RestoreBegin(u, p, pairs, writable)
    PROVE  WorkOK'
<1>1. /\ UNCHANGED vars
      /\ restoring' = [payer |-> u, links |-> p.links, pairs |-> pairs,
                       todo |-> pairs \ DOMAIN ledger.hash, work |-> ledger]
  BY DEF RestoreBegin
<1>2. /\ pairs \in {{}, Materializable(p)}
      /\ PairsValid(ledger, u, p, pairs, writable)
      /\ GraphAccepted(p.links, p.tip)
  BY DEF RestoreBegin, RestoreAccepted
<1>3. \A i \in DOMAIN p.links : SnapshotOf(p.links[i]) \in born
  BY BeginIsHistory DEF RestoreBegin
<1>4. pairs \subseteq DOMAIN p.links
  BY <1>2 DEF Materializable
<1>5. LedgerOK(ledger, clock) /\ \A i \in DOMAIN ledger.hash : SnapshotOf(ledger.hash[i]) \in born
  BY InvIsLedgerOK DEF RestoreInv, HistoryOK
<1>6. \A i \in DOMAIN p.links : IdOf(p.links[i]) = i
  BY <1>2 DEF GraphAccepted
<1>7. \A i \in pairs : i \in DOMAIN ledger.hash => MatchesLink(ledger, i, p.links[i])
  BY <1>2 DEF PairsValid
<1> QED
  BY <1>1, <1>3, <1>4, <1>5, <1>6, <1>7 DEF WorkOK, vars

\* Each creation adds a record of the history to the copy.
LEMMA CreateKeepsWork ==
    ASSUME RestoreInv, RestoreCreate
    PROVE  /\ WorkOK' /\ restoring' # Idle
           /\ restoring'.links = restoring.links /\ restoring'.pairs = restoring.pairs
           /\ restoring'.todo \subseteq restoring.todo
           /\ \A j \in DOMAIN restoring.work.hash :
                 /\ j \in DOMAIN restoring'.work.hash
                 /\ restoring'.work.hash[j] = restoring.work.hash[j]
           /\ DOMAIN restoring'.work.hash \subseteq DOMAIN restoring.work.hash \cup restoring.todo
<1>1. PICK i \in restoring.todo :
         /\ CanRestore(i)
         /\ restoring' = [payer |-> restoring.payer, links |-> restoring.links,
                          pairs |-> restoring.pairs, todo |-> restoring.todo \ {i},
                          work |-> Created(restoring.work, restoring.payer,
                                           SnapshotOf(restoring.links[i]), rate)]
  BY DEF RestoreCreate, Ready
<1> DEFINE s == SnapshotOf(restoring.links[i])
           L == restoring.work
           C == Created(L, restoring.payer, s, rate)
<1>2. /\ restoring # Idle /\ restoring.payer \in Users /\ LedgerOK(L, clock)
      /\ \A j \in DOMAIN L.hash : SnapshotOf(L.hash[j]) \in born
      /\ \A j \in restoring.todo :
            SnapshotOf(restoring.links[j]) \in born /\ IdOf(restoring.links[j]) = j
      /\ \A j \in restoring.pairs :
            j \in restoring.todo \/ MatchesLink(L, j, restoring.links[j])
  BY DEF RestoreInv, WorkOK, RestoreCreate
<1>3. s \in born /\ Creatable(s, clock) /\ IdOf(s) = i
  BY <1>2 DEF RestoreInv, BornOK, IdOf, SnapshotOf
<1>4. clock \in Nat /\ rate \in Rates
  BY InvIsLedgerOK DEF RestoreInv
<1>5. CanCreate(L, restoring.payer, s, rate)
  BY <1>1 DEF CanRestore
<1>6. s = [hash |-> s.hash, source |-> s.source, created_at |-> s.created_at]
  BY <1>3 DEF Creatable
<1>6a. s = SnapshotOf(restoring.links[i])
  OBVIOUS
<1> HIDE DEF s, L
<1>7. /\ LedgerOK(C, clock)
      /\ C.hash = Put(L.hash, i, [hash |-> s.hash, source |-> s.source,
                                  voters |-> 1, created_at |-> s.created_at])
  BY <1>2, <1>3, <1>4, <1>5, CreatedOK
<1>8. \A j \in DOMAIN C.hash : SnapshotOf(C.hash[j]) \in born
  BY <1>2, <1>3, <1>4, <1>5, <1>6, CreatedSnapshots
<1> HIDE DEF C
<1>9. UNCHANGED vars
  BY DEF RestoreCreate
<1>10. /\ restoring'.payer = restoring.payer /\ restoring'.links = restoring.links
       /\ restoring'.pairs = restoring.pairs
       /\ restoring'.todo = restoring.todo \ {i} /\ restoring'.work = C
  BY <1>1 DEF C, L, s
<1>11. MatchesLink(C, i, restoring.links[i])
  <2>1. /\ i \in DOMAIN C.hash /\ SnapshotOf(C.hash[i]) = s
        /\ C.hash[i].voters = 1 /\ C.hash[i].created_at = s.created_at
    BY <1>6, <1>7 DEF Put, SnapshotOf
  <2>2. s.created_at # 0
    BY <1>5 DEF CanCreate
  <2> QED
    BY <1>6a, <2>1, <2>2 DEF MatchesLink, Live
<1>12. \A j \in restoring.pairs : j # i /\ MatchesLink(L, j, restoring.links[j])
                                  => MatchesLink(C, j, restoring.links[j])
  BY <1>7 DEF MatchesLink, Live, Put
<1>13. \A j \in restoring.pairs :
          j \in restoring.todo \ {i} \/ MatchesLink(C, j, restoring.links[j])
  BY <1>2, <1>11, <1>12
<1>14. \A j \in restoring.todo \ {i} :
          SnapshotOf(restoring.links[j]) \in born /\ IdOf(restoring.links[j]) = j
  BY <1>2
<1>15. WorkOK'
  BY <1>2, <1>7, <1>8, <1>9, <1>10, <1>13, <1>14 DEF WorkOK, vars
<1>16. restoring' # Idle
  BY <1>1 DEF Idle
<1>17. /\ i \notin DOMAIN L.hash
       /\ \A j \in DOMAIN L.hash : j \in DOMAIN C.hash /\ C.hash[j] = L.hash[j]
       /\ DOMAIN C.hash = DOMAIN L.hash \cup {i}
  <2>1. i \notin DOMAIN L.hash
    BY <1>3, <1>5 DEF CanCreate, CanCreateHash
  <2> QED
    BY <1>7, <2>1 DEF Put
<1> QED
  BY <1>10, <1>15, <1>16, <1>17 DEF L

\* The end of a restore commits history.
LEMMA EndKeepsInv ==
    ASSUME RestoreInv, RestoreEnd
    PROVE  RestoreInv' /\ born' = born
<1> DEFINE L == restoring.work
<1>1. /\ LedgerOK(L, clock) /\ \A i \in DOMAIN L.hash : SnapshotOf(L.hash[i]) \in born
      /\ Commit(L) /\ restoring' = Idle
  BY DEF RestoreInv, WorkOK, RestoreEnd
<1> HIDE DEF L
<1>2. /\ ledger' = L /\ born' = born /\ clock' = clock /\ rate' = rate
      /\ version' = version /\ gifts' = gifts
  BY <1>1 DEF Commit, environment
<1>3. Inv'
  BY <1>1, <1>2 DEF RestoreInv, Inv, TypeOK, VotersMatchVotes, LedgerOK
<1>4. HistoryOK'
  BY <1>1, <1>2 DEF RestoreInv, HistoryOK
<1>5. BornOK' /\ WorkOK'
  BY <1>1, <1>2 DEF RestoreInv, BornOK, WorkOK
<1> QED
  BY <1>2, <1>3, <1>4, <1>5 DEF RestoreInv

LEMMA StepKeepsInv == RestoreInv /\ [RestoreNext]_restoreVars => RestoreInv'
<1> SUFFICES ASSUME RestoreInv, [RestoreNext]_restoreVars PROVE RestoreInv'
  OBVIOUS
<1>0. ASSUME UNCHANGED vars PROVE (Inv /\ HistoryOK /\ BornOK)'
  BY <1>0 DEF vars, RestoreInv, Inv, TypeOK, VotersMatchVotes, HistoryOK, BornOK
<1>1. CASE restoring = Idle /\ Next /\ UNCHANGED restoring
  <2>1. Inv' /\ HistoryOK'
    BY <1>1, NextKeepsInv, NextKeepsHistory DEF RestoreInv
  <2>2. BornOK'
    BY <1>1, <2>1, NextKeepsBorn DEF RestoreInv
  <2>3. WorkOK'
    BY <1>1 DEF WorkOK
  <2> QED
    BY <2>1, <2>2, <2>3 DEF RestoreInv
<1>2. CASE SomeRestore
  <2>1. PICK u \in Users, p \in Proofs : \E pairs, writable :
           RestoreBegin(u, p, pairs, writable)
    BY <1>2 DEF SomeRestore
  <2>2. UNCHANGED vars
    BY <2>1 DEF RestoreBegin
  <2>3. WorkOK'
    BY <2>1, BeginKeepsWork, ProofsAssumption
  <2> QED
    BY <1>0, <2>2, <2>3 DEF RestoreInv
<1>3. CASE RestoreCreate
  <2>1. UNCHANGED vars
    BY <1>3 DEF RestoreCreate
  <2> QED
    BY <1>0, <1>3, <2>1, CreateKeepsWork DEF RestoreInv
<1>4. CASE RestoreFail
  <2>1. UNCHANGED vars /\ WorkOK'
    BY <1>4 DEF RestoreFail, WorkOK
  <2> QED
    BY <1>0, <2>1 DEF RestoreInv
<1>5. CASE RestoreEnd
  BY <1>5, EndKeepsInv
<1>6. CASE UNCHANGED restoreVars
  <2>1. UNCHANGED vars /\ UNCHANGED restoring
    BY <1>6 DEF restoreVars
  <2>2. WorkOK'
    BY <2>1 DEF vars, RestoreInv, WorkOK
  <2> QED
    BY <1>0, <2>1, <2>2 DEF RestoreInv
<1> QED
  BY <1>1, <1>2, <1>3, <1>4, <1>5, <1>6 DEF RestoreNext

LEMMA InitRestoreInv == RestoreInit => RestoreInv
<1> SUFFICES ASSUME RestoreInit PROVE RestoreInv
  OBVIOUS
<1>1. Init /\ restoring = Idle
  BY DEF RestoreInit
<1>2. BornOK
  BY <1>1 DEF Init, BornOK
<1>3. WorkOK
  BY <1>1 DEF WorkOK
<1> QED
  BY <1>1, <1>2, <1>3, InitInv, InitHistory DEF RestoreInv

LEMMA RestoreKeepsInv == RestoreSpec => []RestoreInv
BY InitRestoreInv, StepKeepsInv, PTL DEF RestoreSpec

(***************************************************************************)
(* The theorems.                                                           *)
(***************************************************************************)

\* With restore among the instructions the program still keeps well-formed
\* accounts, exact counters and a true history: restoring is one more way to
\* get where the others lead.
THEOREM RestoreKeepsPromises ==
    RestoreSpec => [](TypeOK /\ VotersMatchVotes /\ OriginsExisted /\ IdDeterminesSource)
<1>1. RestoreInv => TypeOK /\ VotersMatchVotes
  BY DEF RestoreInv, Inv
<1>2. RestoreInv => OriginsExisted
  BY DEF RestoreInv, HistoryOK, Genuine, OriginsExisted
<1>3. RestoreInv => IdDeterminesSource
  BY InvIsLedgerOK, SameIdSameSource DEF RestoreInv, HistoryOK, IdDeterminesSource
<1> QED
  BY <1>1, <1>2, <1>3, RestoreKeepsInv, PTL

\* Whatever proof is submitted, however many links it has and whichever of
\* them are honest, each record a restore leaves existed before, with that
\* timestamp.
THEOREM RestoreInventsNothing == RestoreSpec => NothingInvented
<1>1. RestoreInv /\ [RestoreNext]_restoreVars
         => [restoring # Idle => born' = born]_restoreVars
  <2> SUFFICES ASSUME RestoreInv, RestoreNext, restoring # Idle PROVE born' = born
    OBVIOUS
  <2>1. CASE SomeRestore
    BY <2>1 DEF SomeRestore, RestoreBegin
  <2>2. CASE RestoreCreate \/ RestoreFail
    BY <2>2 DEF RestoreCreate, RestoreFail, vars
  <2>3. CASE RestoreEnd
    BY <2>3, EndKeepsInv
  <2> QED
    BY <2>1, <2>2, <2>3 DEF RestoreNext
<1> QED
  BY <1>1, RestoreKeepsInv, PTL DEF RestoreSpec, NothingInvented

\* A restore that takes effect leaves each record it was asked for live, as
\* the proof has it; otherwise it leaves no trace.
THEOREM RestoreIsWhole == RestoreSpec => RestoredWhole
<1>1. RestoreInv /\ [RestoreNext]_restoreVars
         => [restoring # Idle /\ ledger' # ledger =>
                \A i \in restoring.pairs :
                   MatchesLink(ledger', i, restoring.links[i])]_restoreVars
  <2> SUFFICES ASSUME RestoreInv, RestoreNext, restoring # Idle, ledger' # ledger,
                      NEW i \in restoring.pairs
               PROVE  MatchesLink(ledger', i, restoring.links[i])
    OBVIOUS
  <2>1. CASE SomeRestore
    BY <2>1 DEF SomeRestore, RestoreBegin
  <2>2. CASE RestoreCreate \/ RestoreFail
    BY <2>2 DEF RestoreCreate, RestoreFail, vars
  <2>3. CASE RestoreEnd
    BY <2>3 DEF RestoreEnd, Commit, RestoreInv, WorkOK
  <2> QED
    BY <2>1, <2>2, <2>3 DEF RestoreNext
<1> QED
  BY <1>1, RestoreKeepsInv, PTL DEF RestoreSpec, RestoredWhole

(***************************************************************************)
(* The planner.  What a candidate brings, whatever was read when it was    *)
(* compiled: a proof of the history the archive has behind its tip, which  *)
(* names its targets and which the program accepts as long as the records  *)
(* that it does not expect to create exist.                                *)
(***************************************************************************)
Compiled(rq, c) ==
    /\ c.proof.tip \in DOMAIN c.proof.links
    /\ \A i \in DOMAIN c.proof.links :
          /\ i \in DOMAIN rq.archive
          /\ SourceShaped(c.proof.links[i].source)
          /\ SnapshotOf(c.proof.links[i]) = SnapshotOf(rq.archive[i])
    /\ GraphAccepted(c.proof.links, c.proof.tip)
    /\ ProofValid(c.proof.links, {c.proof.tip} \cup (c.pairs \ c.creations), MaxGeneration)
    /\ c.pairs \in {{}, Materializable(c.proof)}
    /\ c.creations \subseteq c.pairs
    /\ c.additional = c.creations \ Range(rq.targets)
    /\ c.targets \subseteq DOMAIN c.proof.links
    /\ rq.create => c.targets \subseteq c.pairs \cup {c.proof.tip}
    /\ c.archive = [i \in DOMAIN c.proof.links |-> rq.archive[i]]

\* The existence of a record matters to the link of an account without its
\* snapshot, and to no other.
LEMMA ValidWithout ==
    ASSUME NEW links, NEW more, NEW fewer, NEW limit, ProofValid(links, more, limit),
           \A i \in DOMAIN links : /\ i \in more
                                  /\ links[i].source.kind = "Account"
                                  /\ links[i].params.data = <<>>
                                  => i \in fewer
    PROVE  ProofValid(links, fewer, limit)
BY DEF ProofValid, LinkValid, AccountLinkValid

LEMMA RequestShaped ==
    ASSUME NEW rq \in Requests
    PROVE  WellShaped(rq.archive) /\ rq.create \in BOOLEAN /\ IsList(rq.targets)
BY RequestsAssumption DEF WellShaped

\* What buildRestoreProof makes of an archive.
LEMMA ProofOfArchive ==
    ASSUME NEW A, WellShaped(A), NEW anchor, NEW targets, NEW existing,
           CanBuild(A, anchor, targets, existing)
    PROVE  LET p == Built(A, anchor, targets, existing) IN
           /\ p.tip = anchor /\ anchor \in DOMAIN p.links
           /\ DOMAIN p.links = Behind(A, {anchor})
           /\ \A i \in DOMAIN p.links :
                 /\ i \in DOMAIN A
                 /\ SourceShaped(p.links[i].source)
                 /\ p.links[i].source = A[i].source
                 /\ SnapshotOf(p.links[i]) = SnapshotOf(A[i])
                 /\ A[i].source.kind = "Account" \/ i \in targets =>
                       p.links[i].params # NoParams
           /\ targets \subseteq DOMAIN p.links
           /\ GraphAccepted(p.links, anchor)
           /\ ProofValid(p.links, existing \cup {anchor}, MaxGeneration)
<1> DEFINE p == Built(A, anchor, targets, existing)
<1>1. p.tip = anchor
  BY DEF Built
<1>2. /\ NodeLinks(A, p.links) /\ DOMAIN p.links = Behind(A, {anchor})
      /\ DOMAIN p.links \subseteq DOMAIN A
  BY BuiltLinksAreNodes
<1>3. anchor \in DOMAIN p.links /\ targets \subseteq DOMAIN p.links
  BY <1>2, BehindIsClosed DEF CanBuild
<1>4. GraphAccepted(p.links, anchor)
  BY <1>2, BuiltGraphAccepted DEF CanBuild
<1>5. ProofValid(p.links, existing \cup {anchor}, MaxGeneration)
  BY BuiltIsValid, PlanLimitAssumption
<1>6. ASSUME NEW i \in DOMAIN p.links
      PROVE  /\ i \in DOMAIN A
             /\ SourceShaped(p.links[i].source)
             /\ p.links[i].source = A[i].source
             /\ SnapshotOf(p.links[i]) = SnapshotOf(A[i])
  BY <1>2 DEF NodeLinks, NodeLink, Rooted, NodeShaped, SnapshotOf
<1>7. ASSUME NEW i \in DOMAIN p.links, A[i].source.kind = "Account" \/ i \in targets
      PROVE  p.links[i].params # NoParams
  <2>1. A[i].source.kind \in Kinds
    BY <1>6 DEF SourceShaped
  <2>2. p.links[i].params.kind = A[i].source.kind
    <3>1. i \in Behind(A, {anchor})
      BY <1>2
    <3>2. p.links[i].params = BuiltParams(A, A[i], i \in targets, i \in existing \cup {anchor})
      BY <3>1 DEF Built
    <3>3. BuiltParams(A, A[i], i \in targets, i \in existing \cup {anchor}).kind =
             A[i].source.kind
      BY <1>7 DEF BuiltParams
    <3> QED
      BY <3>2, <3>3
  <2> QED
    BY <2>1, <2>2 DEF Kinds, NoParams
<1> QED
  BY <1>1, <1>2, <1>3, <1>4, <1>5, <1>6, <1>7

LEMMA CandidateCompiled ==
    ASSUME NEW rq \in Requests, NEW reads, NEW anchor, NEW selected,
           Compiles(rq, reads, anchor, selected)
    PROVE  Compiled(rq, Candidate(rq, reads, anchor, selected))
<1> DEFINE c == Candidate(rq, reads, anchor, selected)
           A == rq.archive
           E == Existing(rq, reads, anchor)
           p == Built(A, anchor, selected, E)
<1>1. /\ c.proof = p
      /\ c.targets = selected
      /\ c.pairs = Prepared(p, rq.create)
      /\ c.creations = {i \in c.pairs : ~Matches(rq, reads, i)}
      /\ c.additional = c.creations \ Range(rq.targets)
      /\ c.archive = [i \in Behind(A, {anchor}) |-> A[i]]
  BY DEF Candidate, ProofOf, CreationsOf, Authenticated, Selection, SelectionIds
<1>2. CanBuild(A, anchor, selected, E)
  BY DEF Compiles
<1> HIDE DEF c, E
<1>3. /\ p.tip = anchor /\ anchor \in DOMAIN p.links
      /\ DOMAIN p.links = Behind(A, {anchor})
      /\ \A i \in DOMAIN p.links :
            /\ i \in DOMAIN A
            /\ SourceShaped(p.links[i].source)
            /\ p.links[i].source = A[i].source
            /\ SnapshotOf(p.links[i]) = SnapshotOf(A[i])
            /\ A[i].source.kind = "Account" \/ i \in selected => p.links[i].params # NoParams
      /\ selected \subseteq DOMAIN p.links
      /\ GraphAccepted(p.links, anchor)
      /\ ProofValid(p.links, E \cup {anchor}, MaxGeneration)
  <2>1. WellShaped(A)
    BY RequestShaped
  <2> HIDE DEF A
  <2> QED
    BY <1>2, <2>1, ProofOfArchive
<1> HIDE DEF p
<1>4. ASSUME rq.create, NEW i \in DOMAIN p.links, i # anchor, p.links[i].params # NoParams
      PROVE  i \in c.pairs
  BY <1>1, <1>3, <1>4 DEF Prepared, Materializable
<1> HIDE DEF A
<1>5. ASSUME NEW i \in DOMAIN p.links, i \in E \cup {anchor},
             p.links[i].source.kind = "Account"
      PROVE  i \in {anchor} \cup (c.pairs \ c.creations)
  <2>1. CASE i = anchor
    BY <2>1
  <2>2. CASE i # anchor
    <3>1. rq.create /\ Matches(rq, reads, i)
      BY <1>5, <2>2 DEF E, Existing
    <3>2. i \in c.pairs
      BY <1>3, <1>4, <1>5, <2>2, <3>1
    <3> QED
      BY <1>1, <3>1, <3>2
  <2> QED
    BY <2>1, <2>2
<1>6. ProofValid(p.links, {anchor} \cup (c.pairs \ c.creations), MaxGeneration)
  BY <1>3, <1>5, ValidWithout
<1>7. c.pairs \in {{}, Materializable(p)}
  BY <1>1 DEF Prepared
<1>8. c.creations \subseteq c.pairs
  BY <1>1
<1>9. rq.create => selected \subseteq c.pairs \cup {anchor}
  BY <1>3, <1>4
<1> QED
  BY <1>1, <1>3, <1>6, <1>7, <1>8, <1>9 DEF Compiled, c, A

LEMMA UsableCompiled ==
    ASSUME NEW rq \in Requests, NEW reads, NEW c \in Usable(rq, reads)
    PROVE  /\ Compiled(rq, c)
           /\ \E anchor, selected : /\ AnchorUsable(rq, reads, anchor)
                                    /\ Compiles(rq, reads, anchor, selected)
                                    /\ c = Candidate(rq, reads, anchor, selected)
<1>1. PICK anchor, part : /\ AnchorUsable(rq, reads, anchor)
                          /\ part \in Selected(rq, reads, anchor)
                          /\ c = Candidate(rq, reads, anchor, {rq.targets[k] : k \in part})
  BY DEF Usable
<1>2. Compiles(rq, reads, anchor, {rq.targets[k] : k \in part})
  BY <1>1 DEF Selected
<1> QED
  BY <1>1, <1>2, CandidateCompiled

(***************************************************************************)
(* The inductive invariant of a plan and its execution, for the job j.     *)
(***************************************************************************)

JobShape(j) ==
    j = [phase |-> j.phase, request |-> j.request, steps |-> j.steps, at |-> j.at,
         present |-> j.present, result |-> j.result, pending |-> j.pending,
         running |-> j.running, landed |-> j.landed, consent |-> j.consent,
         undisturbed |-> j.undisturbed]

\* The plan: its steps are candidates, and they and what is present cover the
\* targets.
PlanOK(j) ==
    /\ JobShape(j)
    /\ Len(j.steps) \in Nat /\ DOMAIN j.steps = 1..Len(j.steps)
    /\ \A k \in DOMAIN j.steps : Compiled(j.request, j.steps[k])
    /\ \A t \in Range(j.request.targets) :
          t \in DOMAIN j.present \/ \E k \in DOMAIN j.steps : t \in j.steps[k].targets
    /\ DOMAIN j.present \subseteq DOMAIN j.result

\* How far it has got: the steps before the one at work have landed, the one
\* at work may have, and its transaction is on its way, at work, or neither.
ProgressOK(j) ==
    /\ j.at \in 1..(Len(j.steps) + 1)
    /\ \/ j.landed = 1..(j.at - 1)
       \/ j.landed = 1..j.at /\ j.at \in DOMAIN j.steps /\ j.phase \in {"sent", "failed"}
    /\ j.pending \/ j.running =>
          j.landed = 1..(j.at - 1) /\ j.at \in DOMAIN j.steps /\ j.phase \in {"sent", "failed"}
    /\ ~(j.pending /\ j.running)
    /\ j.phase \in {"planned", "executing", "sent", "failed", "done"}
    /\ j.phase = "sent" => j.at \in DOMAIN j.steps
    /\ j.phase = "done" => j.at = Len(j.steps) + 1
    /\ j.phase # "planned" => j.consent \/ Consented(j.steps)

\* What it has shown: the proofs of the steps that landed are history, and
\* the result has that of those before the one at work.
ResultOK(j) ==
    /\ \A i \in DOMAIN j.present : SnapshotOf(j.present[i]) \in born
    /\ \A i \in DOMAIN j.result : SnapshotOf(j.result[i]) \in born
    /\ \A k \in j.landed : \A i \in DOMAIN j.steps[k].proof.links :
          SnapshotOf(j.steps[k].proof.links[i]) \in born
    /\ \A k \in 1..(j.at - 1) : DOMAIN j.steps[k].proof.links \subseteq DOMAIN j.result

JobOK == job # NoJob => PlanOK(job) /\ ProgressOK(job) /\ ResultOK(job)

\* The copy a restore works on is the ledger and some of what was asked for.
CopyOK ==
    restoring # Idle =>
        /\ \A i \in DOMAIN ledger.hash :
              i \in DOMAIN restoring.work.hash /\ restoring.work.hash[i] = ledger.hash[i]
        /\ DOMAIN restoring.work.hash \subseteq DOMAIN ledger.hash \cup restoring.pairs
        /\ restoring.todo \subseteq restoring.pairs

\* The restore at work is the transaction of the step at work, accepted as it
\* was planned, or somebody else's, which disturbs the plan.
RunningOK ==
    job # NoJob =>
        /\ job.running =>
              /\ restoring # Idle
              /\ restoring.links = Step.proof.links /\ restoring.pairs = Step.pairs
              /\ Step.pairs \ DOMAIN ledger.hash \subseteq Step.creations
              /\ MatchesLink(ledger, Step.proof.tip, Step.proof.links[Step.proof.tip])
              /\ \A i \in DOMAIN Step.proof.links : SnapshotOf(Step.proof.links[i]) \in born
        /\ restoring # Idle /\ ~job.running => ~job.undisturbed

\* A candidate finds the ledger as it was planned for, or has been there.
Stands(L, c) ==
    /\ MatchesLink(L, c.proof.tip, c.proof.links[c.proof.tip])
    /\ \A i \in c.pairs :
          IF i \in DOMAIN L.hash THEN MatchesLink(L, i, c.proof.links[i])
          ELSE i \in c.creations

UndisturbedOK ==
    job # NoJob /\ job.undisturbed => \A k \in DOMAIN job.steps : Stands(ledger, job.steps[k])

PlanInv == RestoreInv /\ JobOK /\ CopyOK /\ RunningOK /\ UndisturbedOK

(***************************************************************************)
(* The plan is made.                                                       *)
(***************************************************************************)
LEMMA LiveIsThere ==
    ASSUME RestoreInv, NEW i
    PROVE  Live(ledger, i) <=> i \in DOMAIN ledger.hash
<1>1. RecordsOK(ledger, clock) /\ clock \in Nat /\ MaxVoters \in Nat
  BY InvIsLedgerOK, BoundsAssumption DEF RestoreInv, Inv, TypeOK
<1> QED
  BY <1>1 DEF RecordsOK, Live

LEMMA ReadsShaped ==
    ASSUME NEW archive, NEW reads \in Reads(archive)
    PROVE  /\ DOMAIN reads.live = DOMAIN archive \ reads.failed
           /\ \A i \in DOMAIN reads.live : reads.live[i] \in Banks(i)
<1>1. PICK failed \in SUBSET DOMAIN archive :
         \E live \in LiveReads(DOMAIN archive \ failed) :
            reads = [failed |-> failed, live |-> live]
  BY DEF Reads
<1> QED
  BY <1>1 DEF LiveReads

\* What the reads say of a record that matches was true in some bank.
LEMMA MatchedIsHistory ==
    ASSUME NEW rq, NEW reads \in Reads(rq.archive), NEW i, Matches(rq, reads, i)
    PROVE  SnapshotOf(rq.archive[i]) \in born
<1>1. reads.live[i] \in Banks(i)
  BY ReadsShaped DEF Matches
<1>2. \A s : <<s>> # Thrown
  BY DEF Thrown
<1>3. reads.live[i] = <<SnapshotOf(rq.archive[i])>>
  BY DEF Matches
<1>4. PICK s \in born : reads.live[i] = <<s>>
  BY <1>1, <1>2, <1>3 DEF Banks
<1>5. \A a, b : <<a>> = <<b>> => a = b
  OBVIOUS
<1> QED
  BY <1>3, <1>4, <1>5

\* A plan made of reads that say what the ledger says stands.
LEMMA PlanStands ==
    ASSUME RestoreInv, NEW rq \in Requests, NEW reads \in Reads(rq.archive),
           Current(rq, reads), NEW c \in Usable(rq, reads)
    PROVE  Stands(ledger, c)
<1>1. PICK anchor, selected : /\ AnchorUsable(rq, reads, anchor)
                              /\ Compiles(rq, reads, anchor, selected)
                              /\ c = Candidate(rq, reads, anchor, selected)
  BY UsableCompiled
<1>2. /\ c.proof.tip = anchor
      /\ c.creations = {i \in c.pairs : ~Matches(rq, reads, i)}
      /\ \A i \in c.pairs : i \notin reads.failed /\ ~Conflicts(rq, reads, i)
  BY <1>1 DEF Candidate, CreationsOf, Compiles, ProofOf, Built
<1>3. /\ anchor \in DOMAIN c.proof.links /\ c.pairs \subseteq DOMAIN c.proof.links
      /\ \A i \in DOMAIN c.proof.links :
            i \in DOMAIN rq.archive /\ SnapshotOf(c.proof.links[i]) = SnapshotOf(rq.archive[i])
  <2>1. Compiled(rq, c)
    BY UsableCompiled
  <2> QED
    BY <1>2, <2>1 DEF Compiled, Materializable
<1>4. \A i \in DOMAIN rq.archive :
         /\ Live(ledger, i) => reads.live[i] = <<SnapshotOf(ledger.hash[i])>>
         /\ ~Live(ledger, i) => reads.live[i] = <<>>
         /\ i \in DOMAIN reads.live
  <2>1. DOMAIN reads.live = DOMAIN rq.archive \ reads.failed
    BY ReadsShaped
  <2>2. \A i \in DOMAIN rq.archive :
           /\ i \notin reads.failed
           /\ reads.live[i] = IF Live(ledger, i) THEN <<SnapshotOf(ledger.hash[i])>>
                             ELSE Thrown
    BY DEF Current
  <2> QED
    BY <2>1, <2>2 DEF Thrown
<1>5. ASSUME NEW i \in DOMAIN c.proof.links, Matches(rq, reads, i)
      PROVE  MatchesLink(ledger, i, c.proof.links[i])
  <2>1. reads.live[i] = <<SnapshotOf(rq.archive[i])>> /\ i \in DOMAIN rq.archive
    BY <1>3, <1>5 DEF Matches
  <2>2. Live(ledger, i) /\ reads.live[i] = <<SnapshotOf(ledger.hash[i])>>
    <3>1. \A s : <<s>> # <<>>
      OBVIOUS
    <3> QED
      BY <1>4, <2>1, <3>1
  <2>3. SnapshotOf(ledger.hash[i]) = SnapshotOf(rq.archive[i])
    BY <2>1, <2>2
  <2> QED
    BY <1>3, <2>2, <2>3 DEF MatchesLink
<1>6. MatchesLink(ledger, anchor, c.proof.links[anchor])
  BY <1>1, <1>3, <1>5 DEF AnchorUsable
<1>7. ASSUME NEW i \in c.pairs
      PROVE  IF i \in DOMAIN ledger.hash THEN MatchesLink(ledger, i, c.proof.links[i])
             ELSE i \in c.creations
  <2>1. CASE Matches(rq, reads, i)
    <3>1. MatchesLink(ledger, i, c.proof.links[i])
      BY <1>3, <1>5, <2>1
    <3> QED
      BY <3>1 DEF MatchesLink, Live
  <2>2. CASE ~Matches(rq, reads, i)
    <3>1. i \in DOMAIN rq.archive /\ i \in DOMAIN reads.live
      BY <1>3, <1>4
    <3>2. reads.live[i] = <<>>
      BY <1>2, <2>2, <3>1 DEF Conflicts, Thrown
    <3>3. ~Live(ledger, i)
      <4>1. \A s : <<s>> # <<>>
        OBVIOUS
      <4> QED
        BY <1>4, <3>1, <3>2, <4>1
    <3> QED
      BY <1>2, <2>2, <3>3, LiveIsThere
  <2> QED
    BY <2>1, <2>2
<1> QED
  BY <1>2, <1>6, <1>7 DEF Stands

LEMMA PlanIsMade ==
    ASSUME RestoreInv, NEW rq \in Requests, NEW reads \in Reads(rq.archive),
           NEW steps \in Plans(rq, reads)
    PROVE  LET j == Planned(rq, reads, steps) IN
           /\ PlanOK(j) /\ ProgressOK(j) /\ ResultOK(j) /\ ~j.running
           /\ j.undisturbed => \A k \in DOMAIN j.steps : Stands(ledger, j.steps[k])
<1> DEFINE j == Planned(rq, reads, steps)
           present == AlreadyPresent(rq, reads)
<1>1. /\ j = [phase |-> "planned", request |-> rq, steps |-> steps, at |-> 1,
              present |-> [i \in present |-> rq.archive[i]],
              result |-> [i \in present |-> rq.archive[i]],
              pending |-> FALSE, running |-> FALSE, landed |-> {}, consent |-> FALSE,
              undisturbed |-> Current(rq, reads)]
  BY DEF Planned, Present
<1> HIDE DEF j, present
<1>2. /\ j.phase = "planned" /\ j.request = rq /\ j.steps = steps /\ j.at = 1
      /\ j.present = [i \in present |-> rq.archive[i]] /\ j.result = j.present
      /\ j.pending = FALSE /\ j.running = FALSE /\ j.landed = {}
      /\ j.undisturbed = Current(rq, reads)
      /\ JobShape(j)
  BY <1>1 DEF JobShape
<1>3. PICK n \in Nat : steps \in [1..n -> Usable(rq, reads)]
  <2>1. Len(rq.targets) \in Nat
    BY RequestShaped DEF IsList
  <2>2. PICK n \in 0..Len(rq.targets) : steps \in [1..n -> Usable(rq, reads)]
    BY DEF Plans
  <2> QED
    BY <2>1, <2>2
<1>4. Len(steps) = n /\ DOMAIN steps = 1..n
  BY <1>3
<1>5. \A k \in DOMAIN steps : Compiled(rq, steps[k])
  BY <1>3, <1>4, UsableCompiled
<1>6. ASSUME NEW t \in Range(rq.targets)
      PROVE  t \in present \/ \E k \in DOMAIN steps : t \in steps[k].targets
  <2>1. Remaining(rq, reads, steps, n) = {}
    BY <1>4 DEF Plans
  <2> QED
    BY <1>4, <2>1 DEF Remaining, present
<1>7. PlanOK(j)
  BY <1>2, <1>3, <1>4, <1>5, <1>6 DEF PlanOK
<1>8. ProgressOK(j)
  BY <1>2, <1>3, <1>4 DEF ProgressOK
<1>9. ASSUME NEW i \in present PROVE SnapshotOf(rq.archive[i]) \in born
  <2>1. Matches(rq, reads, i)
    BY <1>9 DEF present, AlreadyPresent
  <2> QED
    BY <2>1, MatchedIsHistory
<1>10. ResultOK(j)
  BY <1>2, <1>9 DEF ResultOK
<1>11. j.undisturbed => \A k \in DOMAIN j.steps : Stands(ledger, j.steps[k])
  BY <1>2, <1>3, <1>4, PlanStands
<1> QED
  BY <1>2, <1>7, <1>8, <1>10, <1>11 DEF j

(***************************************************************************)
(* What the SDK does between transactions.                                 *)
(***************************************************************************)
LEMMA BetweenKeeps ==
    ASSUME PlanInv, Between,
           job' # NoJob =>
               /\ PlanOK(job') /\ ProgressOK(job') /\ ResultOK(job') /\ ~job'.running
               /\ job'.undisturbed =>
                     \A k \in DOMAIN job'.steps : Stands(ledger, job'.steps[k])
    PROVE  PlanInv'
<1>1. /\ restoring = Idle /\ restoring' = Idle /\ ledger' = ledger /\ born' = born
      /\ UNCHANGED restoreVars
  BY DEF Between, restoreVars, vars
<1>2. RestoreInv'
  BY <1>1, StepKeepsInv DEF PlanInv
<1>3. JobOK'
  BY <1>1 DEF JobOK, ResultOK
<1>4. CopyOK' /\ RunningOK'
  BY <1>1 DEF CopyOK, RunningOK
<1>5. UndisturbedOK'
  BY <1>1 DEF UndisturbedOK, Stands
<1> QED
  BY <1>2, <1>3, <1>4, <1>5 DEF PlanInv

\* A plan stays what it is while only its progress changes.
LEMMA PlanStays ==
    ASSUME NEW j, PlanOK(j), NEW k, k.steps = j.steps, k.request = j.request,
           k.present = j.present,
           DOMAIN j.result \subseteq DOMAIN k.result \/ k.result = j.present,
           JobShape(k)
    PROVE  PlanOK(k)
BY DEF PlanOK

LEMMA ExecuteKeeps ==
    ASSUME PlanInv, NEW allow \in BOOLEAN, Execute(allow)
    PROVE  PlanInv'
<1>1. /\ job # NoJob /\ PlanOK(job) /\ ProgressOK(job) /\ ResultOK(job)
      /\ restoring = Idle /\ ~job.running
  BY DEF Execute, Between, NoJob, PlanInv, JobOK, RunningOK
<1>2. /\ job'.phase = "executing" /\ job'.consent = allow
      /\ job'.request = job.request /\ job'.steps = job.steps /\ job'.at = 1
      /\ job'.present = job.present /\ job'.result = job.present
      /\ job'.pending = FALSE /\ job'.running = job.running /\ job'.landed = {}
      /\ job'.undisturbed = job.undisturbed
      /\ JobShape(job')
  BY <1>1 DEF Execute, PlanOK, JobShape
<1>3. PlanOK(job')
  BY <1>1, <1>2, PlanStays
<1>4. ProgressOK(job')
  <2>1. Len(job.steps) \in Nat
    BY <1>1 DEF PlanOK
  <2> QED
    BY <1>1, <1>2, <2>1 DEF ProgressOK, Execute
<1>5. ResultOK(job')
  BY <1>1, <1>2 DEF ResultOK
<1> QED
  BY <1>1, <1>2, <1>3, <1>4, <1>5, BetweenKeeps DEF Execute, PlanInv, UndisturbedOK

LEMMA SendKeeps ==
    ASSUME PlanInv, Send
    PROVE  PlanInv'
<1>1. /\ job # NoJob /\ PlanOK(job) /\ ProgressOK(job) /\ ResultOK(job)
      /\ restoring = Idle /\ ~job.running
  BY DEF Send, Between, NoJob, PlanInv, JobOK, RunningOK
<1>2. /\ job'.phase = "sent" /\ job'.pending = TRUE
      /\ job'.request = job.request /\ job'.steps = job.steps /\ job'.at = job.at
      /\ job'.present = job.present
      /\ job'.result = job.result /\ job'.running = job.running
      /\ job'.landed = job.landed /\ job'.consent = job.consent
      /\ job'.undisturbed = job.undisturbed
      /\ JobShape(job')
  BY <1>1 DEF Send, PlanOK, JobShape
<1>3. PlanOK(job')
  BY <1>1, <1>2, PlanStays
<1>4. ProgressOK(job')
  BY <1>1, <1>2 DEF ProgressOK, PlanOK, Send
<1>5. ResultOK(job')
  BY <1>1, <1>2 DEF ResultOK
<1> QED
  BY <1>1, <1>2, <1>3, <1>4, <1>5, BetweenKeeps DEF Send, PlanInv, UndisturbedOK

LEMMA FailsKeeps ==
    ASSUME PlanInv, Fails
    PROVE  PlanInv'
<1>1. /\ job # NoJob /\ PlanOK(job) /\ ProgressOK(job) /\ ResultOK(job)
      /\ restoring = Idle /\ ~job.running
  BY DEF Fails, Between, NoJob, PlanInv, JobOK, RunningOK
<1>2. /\ job'.phase = "failed" /\ job'.pending = job.pending
      /\ job'.request = job.request /\ job'.steps = job.steps /\ job'.at = job.at
      /\ job'.present = job.present
      /\ job'.result = job.result /\ job'.running = job.running
      /\ job'.landed = job.landed /\ job'.consent = job.consent
      /\ job'.undisturbed = job.undisturbed
      /\ JobShape(job')
  BY <1>1 DEF Fails, PlanOK, JobShape
<1>3. PlanOK(job')
  BY <1>1, <1>2, PlanStays
<1>4. ProgressOK(job')
  BY <1>1, <1>2 DEF ProgressOK, PlanOK, Fails
<1>5. ResultOK(job')
  BY <1>1, <1>2 DEF ResultOK
<1> QED
  BY <1>1, <1>2, <1>3, <1>4, <1>5, BetweenKeeps DEF Fails, PlanInv, UndisturbedOK

LEMMA CompletesKeeps ==
    ASSUME PlanInv, Completes
    PROVE  PlanInv'
<1>1. /\ job # NoJob /\ PlanOK(job) /\ ProgressOK(job) /\ ResultOK(job)
      /\ restoring = Idle /\ ~job.running
  BY DEF Completes, Between, NoJob, PlanInv, JobOK, RunningOK
<1>2. /\ job'.phase = "done" /\ job'.pending = job.pending
      /\ job'.request = job.request /\ job'.steps = job.steps /\ job'.at = job.at
      /\ job'.present = job.present
      /\ job'.result = job.result /\ job'.running = job.running
      /\ job'.landed = job.landed /\ job'.consent = job.consent
      /\ job'.undisturbed = job.undisturbed
      /\ JobShape(job')
  BY <1>1 DEF Completes, PlanOK, JobShape
<1>3. PlanOK(job')
  BY <1>1, <1>2, PlanStays
<1>4. ProgressOK(job')
  BY <1>1, <1>2 DEF ProgressOK, PlanOK, Completes
<1>5. ResultOK(job')
  BY <1>1, <1>2 DEF ResultOK
<1> QED
  BY <1>1, <1>2, <1>3, <1>4, <1>5, BetweenKeeps DEF Completes, PlanInv, UndisturbedOK

LEMMA LeavesKeeps ==
    ASSUME PlanInv, Leaves
    PROVE  PlanInv'
BY BetweenKeeps DEF Leaves

LEMMA PlanRestoreKeeps ==
    ASSUME PlanInv, NEW rq \in Requests, PlanRestore(rq)
    PROVE  PlanInv'
<1>1. PICK reads \in Reads(rq.archive) : \E steps \in Plans(rq, reads) :
         job' = Planned(rq, reads, steps)
  BY DEF PlanRestore
<1>2. PICK steps \in Plans(rq, reads) : job' = Planned(rq, reads, steps)
  BY <1>1
<1> DEFINE j == Planned(rq, reads, steps)
<1>3. /\ PlanOK(j) /\ ProgressOK(j) /\ ResultOK(j) /\ ~j.running
      /\ j.undisturbed => \A k \in DOMAIN j.steps : Stands(ledger, j.steps[k])
  BY PlanIsMade DEF PlanInv
<1> HIDE DEF j
<1>4. job' = j
  BY <1>2 DEF j
<1> QED
  BY <1>3, <1>4, BetweenKeeps DEF PlanRestore

\* A confirmed step has landed, so what it authenticates is history.
LEMMA MergedIsHistory ==
    ASSUME NEW A, NEW B,
           \A i \in DOMAIN A : SnapshotOf(A[i]) \in born,
           \A i \in DOMAIN B : SnapshotOf(B[i]) \in born
    PROVE  /\ DOMAIN Merged(A, B) = DOMAIN A \cup DOMAIN B
           /\ \A i \in DOMAIN Merged(A, B) : SnapshotOf(Merged(A, B)[i]) \in born
BY DEF Merged, Joined

LEMMA ConfirmedKeeps ==
    ASSUME PlanInv, Confirmed
    PROVE  PlanInv'
<1>1. /\ job # NoJob /\ PlanOK(job) /\ ProgressOK(job) /\ ResultOK(job)
      /\ restoring = Idle /\ ~job.running
      /\ job.phase = "sent" /\ job.at \in job.landed
  BY DEF Confirmed, Between, NoJob, PlanInv, JobOK, RunningOK
<1>2. /\ job.at \in DOMAIN job.steps /\ job.at \in 1..Len(job.steps) /\ Len(job.steps) \in Nat
      /\ job.landed = 1..job.at /\ ~job.pending
      /\ job.consent \/ Consented(job.steps)
  BY <1>1 DEF ProgressOK, PlanOK
<1> DEFINE whole == Merged(job.result, Step.archive)
           merged == MergeArchives(<<job.result, Step.archive>>)
<1>3. merged = Thrown \/ merged = <<whole>>
  BY MergeOfTwo DEF MergeArchives
<1>4. /\ job'.request = job.request /\ job'.steps = job.steps
      /\ job'.present = job.present
      /\ job'.pending = job.pending /\ job'.running = job.running
      /\ job'.landed = job.landed /\ job'.consent = job.consent
      /\ job'.undisturbed = job.undisturbed
      /\ JobShape(job')
      /\ \/ job'.phase = "failed" /\ job'.at = job.at /\ job'.result = job.result
         \/ job'.phase = "executing" /\ job'.at = job.at + 1 /\ job'.result = whole
  <2> HIDE DEF whole
  <2>1. merged = Thrown \/ (merged # Thrown /\ merged[1] = whole)
    BY <1>3
  <2> HIDE DEF merged
  <2>2. job' = IF merged = Thrown THEN [job EXCEPT !.phase = "failed"]
               ELSE [job EXCEPT !.phase = "executing", !.at = job.at + 1,
                                !.result = merged[1]]
    BY DEF Confirmed, merged
  <2>3. CASE merged = Thrown
    BY <1>1, <2>2, <2>3 DEF PlanOK, JobShape
  <2>4. CASE merged # Thrown
    BY <1>1, <2>1, <2>2, <2>4, Zenon DEF PlanOK, JobShape
  <2> QED
    BY <2>3, <2>4
<1>5. /\ \A i \in DOMAIN Step.proof.links : SnapshotOf(Step.proof.links[i]) \in born
      /\ DOMAIN Step.archive = DOMAIN Step.proof.links
      /\ \A i \in DOMAIN Step.archive :
            SnapshotOf(Step.archive[i]) = SnapshotOf(Step.proof.links[i])
  <2>1. \A i \in DOMAIN job.steps[job.at].proof.links :
           SnapshotOf(job.steps[job.at].proof.links[i]) \in born
    BY <1>1 DEF ResultOK
  <2>2. Compiled(job.request, job.steps[job.at])
    BY <1>1, <1>2 DEF PlanOK
  <2> QED
    BY <2>1, <2>2, Zenon DEF Step, Compiled
<1>6. /\ DOMAIN whole = DOMAIN job.result \cup DOMAIN Step.proof.links
      /\ \A i \in DOMAIN whole : SnapshotOf(whole[i]) \in born
  <2>1. \A i \in DOMAIN job.result : SnapshotOf(job.result[i]) \in born
    BY <1>1 DEF ResultOK
  <2>2. \A i \in DOMAIN Step.archive : SnapshotOf(Step.archive[i]) \in born
    BY <1>5
  <2>3. DOMAIN whole = DOMAIN job.result \cup DOMAIN Step.archive
    BY DEF Merged
  <2> QED
    BY <1>5, <2>1, <2>2, <2>3, MergedIsHistory
<1> HIDE DEF whole
<1>7. PlanOK(job')
  <2>1. DOMAIN job.result \subseteq DOMAIN job'.result
    BY <1>4, <1>6
  <2> QED
    BY <1>1, <1>4, <2>1, PlanStays
<1>8. ProgressOK(job')
  BY <1>1, <1>2, <1>4 DEF ProgressOK
<1>9. ResultOK(job')
  <2>1. \A i \in DOMAIN job'.result : SnapshotOf(job'.result[i]) \in born
    BY <1>1, <1>4, <1>6 DEF ResultOK
  <2>2. \A k \in 1..(job'.at - 1) : DOMAIN job'.steps[k].proof.links \subseteq DOMAIN job'.result
    <3>1. CASE job'.at = job.at
      BY <1>1, <1>2, <1>4, <3>1 DEF ResultOK
    <3>2. CASE job'.at = job.at + 1 /\ job'.result = whole
      <4>1. \A k \in 1..(job'.at - 1) : k \in 1..(job.at - 1) \/ k = job.at
        BY <1>2, <3>2
      <4>2. \A k \in 1..(job.at - 1) : DOMAIN job.steps[k].proof.links \subseteq DOMAIN job.result
        BY <1>1 DEF ResultOK
      <4> QED
        BY <1>4, <1>6, <3>2, <4>1, <4>2 DEF Step
    <3> QED
      BY <1>4, <3>1, <3>2
  <2> QED
    BY <1>1, <1>4, <2>1, <2>2 DEF ResultOK
<1> QED
  BY <1>1, <1>4, <1>7, <1>8, <1>9, BetweenKeeps DEF Confirmed, PlanInv, UndisturbedOK

(***************************************************************************)
(* Transactions.                                                           *)
(***************************************************************************)
LEMMA BeginKeepsInv ==
    ASSUME RestoreInv, NEW u \in Users, NEW p, NEW pairs, NEW writable,
           \A i \in DOMAIN p.links : SourceShaped(p.links[i].source),
           RestoreBegin(u, p, pairs, writable)
    PROVE  /\ RestoreInv' /\ UNCHANGED vars
           /\ restoring = Idle /\ restoring' # Idle
           /\ restoring'.links = p.links /\ restoring'.pairs = pairs
           /\ restoring'.todo \subseteq pairs /\ restoring'.work = ledger
<1>1. /\ UNCHANGED vars /\ restoring = Idle
      /\ restoring' = [payer |-> u, links |-> p.links, pairs |-> pairs,
                       todo |-> pairs \ DOMAIN ledger.hash, work |-> ledger]
  BY DEF RestoreBegin
<1>2. WorkOK'
  BY BeginKeepsWork
<1>3. restoring' # Idle
  BY <1>1 DEF Idle
<1> QED
  BY <1>1, <1>2, <1>3
     DEF vars, RestoreInv, Inv, TypeOK, VotersMatchVotes, HistoryOK, BornOK

\* What a plan says of the ledger stays true as long as the ledger does.
LEMMA BeginKeepsCopy ==
    ASSUME PlanInv, NEW u \in Users, NEW p, NEW pairs, NEW writable,
           \A i \in DOMAIN p.links : SourceShaped(p.links[i].source),
           RestoreBegin(u, p, pairs, writable)
    PROVE  CopyOK'
<1>1. /\ UNCHANGED vars /\ restoring'.pairs = pairs
      /\ restoring'.todo \subseteq pairs /\ restoring'.work = ledger
  BY BeginKeepsInv DEF PlanInv
<1> QED
  BY <1>1 DEF CopyOK, vars

\* The transaction of a step is accepted as it was planned.
LEMMA LandsKeeps ==
    ASSUME PlanInv, Lands
    PROVE  PlanInv'
<1> DEFINE p == Step.proof
<1>1. /\ job # NoJob /\ PlanOK(job) /\ ProgressOK(job) /\ ResultOK(job) /\ RestoreInv
      /\ RestoreBegin(Planner, p, Step.pairs, Writable(Step)) /\ Planner \in Users
  BY PlannerAssumption DEF Lands, PlanInv, JobOK
<1>2. /\ job.at \in DOMAIN job.steps /\ job.landed = 1..(job.at - 1)
      /\ job.phase \in {"sent", "failed"}
  BY <1>1 DEF Lands, ProgressOK
<1>3. \A i \in DOMAIN p.links : SourceShaped(p.links[i].source)
  BY <1>1, <1>2 DEF PlanOK, Compiled, Step
<1>4. /\ RestoreInv' /\ UNCHANGED vars /\ ledger' = ledger /\ born' = born
      /\ restoring' # Idle
      /\ restoring'.links = p.links /\ restoring'.pairs = Step.pairs
  <2> HIDE DEF p
  <2>1. /\ RestoreInv' /\ UNCHANGED vars /\ restoring' # Idle
        /\ restoring'.links = p.links /\ restoring'.pairs = Step.pairs
    BY <1>1, <1>3, BeginKeepsInv
  <2> QED
    BY <2>1 DEF vars
<1>5. /\ job'.pending = FALSE /\ job'.running = TRUE
      /\ job'.request = job.request /\ job'.steps = job.steps /\ job'.at = job.at
      /\ job'.present = job.present
      /\ job'.result = job.result /\ job'.phase = job.phase
      /\ job'.landed = job.landed /\ job'.consent = job.consent
      /\ job'.undisturbed = job.undisturbed
      /\ JobShape(job')
  BY <1>1 DEF Lands, PlanOK, JobShape
<1>6. job' # NoJob
  BY <1>2, <1>5 DEF NoJob
<1>7. PlanOK(job')
  BY <1>1, <1>5, PlanStays
<1>8. ProgressOK(job')
  BY <1>1, <1>2, <1>5 DEF ProgressOK
<1>9. ResultOK(job)'
  BY <1>1, <1>4, <1>5 DEF ResultOK
<1>10. Step' = Step
  BY <1>5 DEF Step
<1>11. /\ \A i \in DOMAIN p.links : SnapshotOf(p.links[i]) \in born
       /\ MatchesLink(ledger, p.tip, p.links[p.tip])
       /\ PairsValid(ledger, Planner, p, Step.pairs, Writable(Step))
  <2>1. RestoreAccepted(ledger, Planner, p, Step.pairs, Writable(Step))
    BY <1>1 DEF RestoreBegin
  <2>2. \A i \in DOMAIN p.links : SnapshotOf(p.links[i]) \in born
    <3> HIDE DEF p
    <3> QED
      BY <1>1, <1>3, <2>1, BeginIsHistory
  <2> QED
    BY <2>1, <2>2 DEF RestoreAccepted
<1>12. Step.pairs \ DOMAIN ledger.hash \subseteq Step.creations
  BY <1>11 DEF PairsValid, Writable
<1>13. CopyOK'
  <2> HIDE DEF p
  <2> QED
    BY <1>1, <1>3, <1>6, BeginKeepsCopy
<1>14. RunningOK'
  BY <1>4, <1>5, <1>10, <1>11, <1>12 DEF RunningOK
<1>15. UndisturbedOK'
  BY <1>1, <1>4, <1>5 DEF PlanInv, UndisturbedOK
<1> QED
  BY <1>4, <1>7, <1>8, <1>9, <1>13, <1>14, <1>15 DEF PlanInv, JobOK

\* What others submit, or the planner otherwise, is not the transaction of a
\* step.
LEMMA RestoreElsewhereKeeps ==
    ASSUME PlanInv, NEW create \in BOOLEAN, RestoreElsewhere(create)
    PROVE  PlanInv'
<1>1. PICK u \in Users, p \in Proofs \cup Displayed :
         RestoreBegin(u, p, Prepared(p, create), Prepared(p, create))
  BY DEF RestoreElsewhere
<1> DEFINE pairs == Prepared(p, create)
<1>2. RestoreInv /\ RestoreBegin(u, p, pairs, pairs)
  BY <1>1 DEF PlanInv
<1>3. \A i \in DOMAIN p.links : SourceShaped(p.links[i].source)
  BY ProofsAssumption DEF Displayed, PlanInv, JobOK, PlanOK, Compiled
<1> HIDE DEF pairs
<1>4. RestoreInv' /\ UNCHANGED vars /\ restoring = Idle
  BY <1>2, <1>3, BeginKeepsInv
<1>5. CopyOK'
  BY <1>2, <1>3, BeginKeepsCopy
<1>6. CASE job = NoJob
  <2>1. job' = NoJob
    BY <1>6 DEF RestoreElsewhere, Disturbed
  <2> QED
    BY <1>4, <1>5, <2>1 DEF PlanInv, JobOK, RunningOK, UndisturbedOK
<1>7. CASE job # NoJob
  <2>1. PlanOK(job) /\ ProgressOK(job) /\ ResultOK(job) /\ ~job.running
    BY <1>4, <1>7 DEF PlanInv, JobOK, RunningOK
  <2>2. /\ job'.undisturbed = FALSE /\ job'.pending = job.pending
        /\ job'.running = job.running
        /\ job'.request = job.request /\ job'.steps = job.steps /\ job'.at = job.at
        /\ job'.present = job.present /\ job'.result = job.result
        /\ job'.phase = job.phase
        /\ job'.landed = job.landed /\ job'.consent = job.consent
        /\ JobShape(job')
    BY <1>7, <2>1 DEF RestoreElsewhere, Disturbed, PlanOK, JobShape
  <2>3. PlanOK(job')
    BY <2>1, <2>2, PlanStays
  <2>4. ProgressOK(job')
    BY <2>1, <2>2 DEF ProgressOK
  <2>5. ResultOK(job)'
    BY <1>4, <2>1, <2>2 DEF ResultOK, vars
  <2>6. RunningOK' /\ UndisturbedOK'
    BY <2>1, <2>2 DEF RunningOK, UndisturbedOK
  <2> QED
    BY <1>4, <1>5, <2>3, <2>4, <2>5, <2>6 DEF PlanInv, JobOK
<1> QED
  BY <1>6, <1>7

\* The restore at work goes on.
LEMMA RestoreCreateKeeps ==
    ASSUME PlanInv, RestoreCreate, UNCHANGED job
    PROVE  PlanInv'
<1>1. /\ RestoreInv /\ restoring # Idle /\ UNCHANGED vars
      /\ ledger' = ledger /\ born' = born /\ job' = job
  BY DEF PlanInv, RestoreCreate, vars
<1>2. /\ restoring' # Idle
      /\ restoring'.links = restoring.links /\ restoring'.pairs = restoring.pairs
      /\ restoring'.todo \subseteq restoring.todo
      /\ \A j \in DOMAIN restoring.work.hash :
            /\ j \in DOMAIN restoring'.work.hash
            /\ restoring'.work.hash[j] = restoring.work.hash[j]
      /\ DOMAIN restoring'.work.hash \subseteq DOMAIN restoring.work.hash \cup restoring.todo
  BY <1>1, CreateKeepsWork
<1>3. RestoreInv'
  BY <1>1, StepKeepsInv DEF RestoreNext
<1>4. JobOK' /\ UndisturbedOK'
  BY <1>1 DEF PlanInv, JobOK, ResultOK, UndisturbedOK, Stands
<1>5. CopyOK'
  BY <1>1, <1>2 DEF PlanInv, CopyOK
<1>6. RunningOK'
  BY <1>1, <1>2 DEF PlanInv, RunningOK, Step
<1> QED
  BY <1>3, <1>4, <1>5, <1>6 DEF PlanInv

\* A restore ends that no plan has to do with.
LEMMA OthersEnd ==
    ASSUME PlanInv, RestoreFail \/ RestoreEnd, job = NoJob, job' = NoJob
    PROVE  PlanInv'
<1>1. RestoreInv' /\ restoring' = Idle
  BY StepKeepsInv DEF PlanInv, RestoreNext, RestoreFail, RestoreEnd
<1> QED
  BY <1>1 DEF PlanInv, JobOK, CopyOK, RunningOK, UndisturbedOK

LEMMA RestoreFailKeeps ==
    ASSUME PlanInv, RestoreFail, job # NoJob, job' = [job EXCEPT !.running = FALSE]
    PROVE  PlanInv'
<1>1. /\ RestoreInv /\ restoring # Idle /\ restoring' = Idle /\ UNCHANGED vars
      /\ ledger' = ledger /\ born' = born
  BY DEF PlanInv, RestoreFail, vars
<1>2. /\ job # NoJob /\ PlanOK(job) /\ ProgressOK(job) /\ ResultOK(job)
  BY DEF PlanInv, JobOK
<1>3. /\ job'.running = FALSE /\ job'.pending = job.pending
      /\ job'.request = job.request /\ job'.steps = job.steps /\ job'.at = job.at
      /\ job'.present = job.present
      /\ job'.result = job.result /\ job'.phase = job.phase
      /\ job'.landed = job.landed /\ job'.consent = job.consent
      /\ job'.undisturbed = job.undisturbed
      /\ JobShape(job')
  BY <1>2 DEF PlanOK, JobShape
<1>4. RestoreInv'
  BY <1>1, StepKeepsInv DEF RestoreNext
<1>5. PlanOK(job')
  BY <1>2, <1>3, PlanStays
<1>6. ProgressOK(job')
  BY <1>2, <1>3 DEF ProgressOK
<1>7. ResultOK(job)'
  BY <1>1, <1>2, <1>3 DEF ResultOK
<1>8. CopyOK' /\ RunningOK'
  BY <1>1, <1>3 DEF CopyOK, RunningOK
<1>9. UndisturbedOK'
  BY <1>1, <1>2, <1>3 DEF PlanInv, UndisturbedOK
<1> QED
  BY <1>4, <1>5, <1>6, <1>7, <1>8, <1>9 DEF PlanInv, JobOK

\* A step leaves what the others of its plan need: all of them are proofs of
\* one archive, so what is new is as any of them has it.
LEMMA StepsStand ==
    ASSUME PlanInv, RestoreEnd, job # NoJob, job.running, NEW k \in DOMAIN job.steps,
           Stands(ledger, job.steps[k])
    PROVE  Stands(restoring.work, job.steps[k])
<1> DEFINE c == job.steps[k]
           L == restoring.work
           s == Step
<1>1. /\ restoring # Idle /\ restoring.todo = {}
      /\ restoring.links = s.proof.links /\ restoring.pairs = s.pairs
  BY DEF RestoreEnd, PlanInv, RunningOK
<1>2. /\ \A i \in DOMAIN ledger.hash : i \in DOMAIN L.hash /\ L.hash[i] = ledger.hash[i]
      /\ DOMAIN L.hash \subseteq DOMAIN ledger.hash \cup s.pairs
      /\ \A i \in s.pairs : MatchesLink(L, i, s.proof.links[i])
  <2>1. /\ \A i \in DOMAIN ledger.hash : i \in DOMAIN L.hash /\ L.hash[i] = ledger.hash[i]
        /\ DOMAIN L.hash \subseteq DOMAIN ledger.hash \cup restoring.pairs
    BY <1>1 DEF PlanInv, CopyOK
  <2>2. \A i \in restoring.pairs : MatchesLink(L, i, restoring.links[i])
    BY <1>1 DEF PlanInv, RestoreInv, WorkOK
  <2> QED
    BY <1>1, <2>1, <2>2
<1>3. Compiled(job.request, c) /\ Compiled(job.request, s)
  BY DEF PlanInv, JobOK, PlanOK, ProgressOK, Step
<1> HIDE DEF c, L, s
<1>4. \A i : MatchesLink(ledger, i, c.proof.links[i]) => MatchesLink(L, i, c.proof.links[i])
  BY <1>2 DEF MatchesLink, Live
<1>5. \A i \in c.pairs \cap s.pairs : SnapshotOf(c.proof.links[i]) = SnapshotOf(s.proof.links[i])
  BY <1>3 DEF Compiled, Materializable
<1>6. \A i \in c.pairs \cap s.pairs : MatchesLink(L, i, c.proof.links[i])
  BY <1>2, <1>5 DEF MatchesLink
<1>7. Stands(ledger, c)
  BY DEF c
<1>8. Stands(L, c)
  BY <1>2, <1>4, <1>6, <1>7 DEF Stands
<1> QED
  BY <1>8 DEF c, L

LEMMA RestoreEndKeeps ==
    ASSUME PlanInv, RestoreEnd, job # NoJob,
           job' = IF job.running
                  THEN [job EXCEPT !.running = FALSE, !.landed = job.landed \cup {job.at}]
                  ELSE job
    PROVE  PlanInv'
<1>1. /\ RestoreInv /\ restoring # Idle /\ restoring' = Idle /\ RestoreInv'
      /\ ledger' = restoring.work /\ born' = born
  BY EndKeepsInv DEF PlanInv, RestoreEnd, Commit
<1>2. /\ job # NoJob /\ PlanOK(job) /\ ProgressOK(job) /\ ResultOK(job)
  BY DEF PlanInv, JobOK
<1>3. CopyOK'
  BY <1>1 DEF CopyOK
<1>4. CASE ~job.running
  <2>1. job' = job /\ ~job.undisturbed
    BY <1>1, <1>2, <1>4 DEF PlanInv, RunningOK
  <2>2. JobOK'
    BY <1>1, <1>2, <2>1 DEF JobOK, ResultOK
  <2>3. RunningOK' /\ UndisturbedOK'
    BY <1>1, <1>4, <2>1 DEF RunningOK, UndisturbedOK
  <2> QED
    BY <1>1, <1>3, <2>2, <2>3 DEF PlanInv
<1>5. CASE job.running
  <2>1. /\ job'.running = FALSE /\ job'.pending = job.pending
        /\ job'.request = job.request /\ job'.steps = job.steps /\ job'.at = job.at
        /\ job'.present = job.present
        /\ job'.result = job.result /\ job'.phase = job.phase
        /\ job'.landed = job.landed \cup {job.at} /\ job'.consent = job.consent
        /\ job'.undisturbed = job.undisturbed
        /\ JobShape(job')
    BY <1>2, <1>5 DEF PlanOK, JobShape
  <2>2. PlanOK(job')
    BY <1>2, <2>1, PlanStays
  <2>3. /\ job.at \in DOMAIN job.steps /\ job.at \in 1..Len(job.steps)
        /\ Len(job.steps) \in Nat /\ job.landed = 1..(job.at - 1)
        /\ job.phase \in {"sent", "failed"} /\ ~job.pending
    BY <1>2, <1>5 DEF ProgressOK, PlanOK
  <2>4. job'.landed = 1..job.at
    <3>1. \A n \in Nat : n # 0 => 1..(n - 1) \cup {n} = 1..n
      OBVIOUS
    <3>2. job.at \in Nat /\ job.at # 0
      BY <2>3
    <3> QED
      BY <2>1, <2>3, <3>1, <3>2
  <2>5. ProgressOK(job')
    BY <1>2, <2>1, <2>3, <2>4 DEF ProgressOK
  <2>6. ResultOK(job)'
    <3>1. \A i \in DOMAIN Step.proof.links : SnapshotOf(Step.proof.links[i]) \in born
      BY <1>2, <1>5 DEF PlanInv, RunningOK
    <3> QED
      BY <1>1, <1>2, <2>1, <3>1 DEF ResultOK, Step
  <2>7. RunningOK'
    BY <1>1, <2>1 DEF RunningOK
  <2>8. UndisturbedOK'
    <3>1. ASSUME job.undisturbed, NEW k \in DOMAIN job.steps
          PROVE  Stands(ledger', job.steps[k])
      BY <1>1, <1>2, <1>5, <3>1, StepsStand DEF PlanInv, UndisturbedOK
    <3> QED
      BY <2>1, <3>1 DEF UndisturbedOK, Stands
  <2> QED
    BY <1>1, <1>3, <2>2, <2>5, <2>6, <2>7, <2>8 DEF PlanInv, JobOK
<1> QED
  BY <1>4, <1>5

\* Whatever else happens changes no more of a plan than whether it is still
\* undisturbed.
LEMMA ElsewhereKeeps ==
    ASSUME PlanInv, Elsewhere
    PROVE  PlanInv'
<1>1. /\ RestoreInv /\ restoring = Idle /\ restoring' = Idle /\ [Next]_vars /\ born \subseteq born'
  BY NextAddsWhatIsThere DEF HistoryGrows, PlanInv, RestoreInv, Elsewhere
<1>2. RestoreInv'
  BY <1>1, StepKeepsInv DEF RestoreNext, Elsewhere
<1>3. CASE job = NoJob
  <2>1. job' = NoJob
    BY <1>3 DEF Elsewhere, Disturbed
  <2> QED
    BY <1>1, <1>2, <2>1 DEF PlanInv, JobOK, CopyOK, RunningOK, UndisturbedOK
<1>4. CASE job # NoJob
  <2>1. PlanOK(job) /\ ProgressOK(job) /\ ResultOK(job) /\ ~job.running
    BY <1>1, <1>4 DEF PlanInv, JobOK, RunningOK
  <2>2. /\ job'.pending = job.pending /\ job'.running = job.running
        /\ job'.request = job.request /\ job'.steps = job.steps /\ job'.at = job.at
        /\ job'.present = job.present
        /\ job'.result = job.result /\ job'.phase = job.phase
        /\ job'.landed = job.landed /\ job'.consent = job.consent
        /\ job'.undisturbed => job.undisturbed /\ ledger' = ledger
        /\ JobShape(job')
    BY <1>4, <2>1 DEF PlanOK, JobShape, Elsewhere, Disturbed
  <2>3. PlanOK(job')
    BY <2>1, <2>2, PlanStays
  <2>4. ProgressOK(job')
    BY <2>1, <2>2 DEF ProgressOK
  <2>5. ResultOK(job)'
    BY <1>1, <2>1, <2>2 DEF ResultOK
  <2>6. CopyOK' /\ RunningOK'
    BY <1>1, <2>1, <2>2 DEF CopyOK, RunningOK
  <2>7. UndisturbedOK'
    BY <1>4, <2>2 DEF PlanInv, UndisturbedOK, Stands
  <2> QED
    BY <1>2, <2>3, <2>4, <2>5, <2>6, <2>7 DEF PlanInv, JobOK
<1> QED
  BY <1>3, <1>4

(***************************************************************************)
(* The invariant holds.                                                    *)
(***************************************************************************)
LEMMA PlanStepKeepsInv == PlanInv /\ [PlanNext]_planVars => PlanInv'
<1> SUFFICES ASSUME PlanInv, [PlanNext]_planVars PROVE PlanInv'
  OBVIOUS
<1>1. CASE UNCHANGED planVars
  <2>1. UNCHANGED restoreVars /\ ledger' = ledger /\ born' = born /\ UNCHANGED restoring
        /\ job' = job
    BY <1>1 DEF planVars, restoreVars, vars
  <2>2. RestoreInv'
    BY <2>1, StepKeepsInv DEF PlanInv
  <2>3. JobOK' /\ CopyOK'
    BY <2>1 DEF PlanInv, JobOK, ResultOK, CopyOK
  <2>4. RunningOK' /\ UndisturbedOK'
    BY <2>1 DEF PlanInv, RunningOK, UndisturbedOK, Stands, Step
  <2> QED
    BY <2>2, <2>3, <2>4 DEF PlanInv
<1>2. CASE Elsewhere
  BY <1>2, ElsewhereKeeps
<1>3. CASE Restores
  <2>1. CASE RestoreCreate /\ UNCHANGED job
    BY <2>1, RestoreCreateKeeps
  <2>2. CASE RestoreFail /\ job' = IF job = NoJob THEN job ELSE [job EXCEPT !.running = FALSE]
    <3>1. CASE job = NoJob
      BY <2>2, <3>1, OthersEnd
    <3>2. CASE job # NoJob
      BY <2>2, <3>2, RestoreFailKeeps
    <3> QED
      BY <3>1, <3>2
  <2>3. CASE RestoreEnd /\ job' = IF job # NoJob /\ job.running
                                  THEN [job EXCEPT !.running = FALSE,
                                                   !.landed = @ \cup {job.at}]
                                  ELSE job
    <3>1. CASE job = NoJob
      BY <2>3, <3>1, OthersEnd
    <3>2. CASE job # NoJob
      BY <2>3, <3>2, RestoreEndKeeps
    <3> QED
      BY <3>1, <3>2
  <2> QED
    BY <1>3, <2>1, <2>2, <2>3 DEF Restores
<1>4. CASE \E rq \in Requests : PlanRestore(rq)
  BY <1>4, PlanRestoreKeeps
<1>5. CASE \E consent \in BOOLEAN : Execute(consent)
  BY <1>5, ExecuteKeeps
<1>6. CASE Send \/ Lands \/ Confirmed
  BY <1>6, SendKeeps, LandsKeeps, ConfirmedKeeps
<1>7. CASE Fails \/ Completes \/ Leaves
  BY <1>7, FailsKeeps, CompletesKeeps, LeavesKeeps
<1>8. CASE \E create \in BOOLEAN : RestoreElsewhere(create)
  BY <1>8, RestoreElsewhereKeeps
<1> QED
  BY <1>1, <1>2, <1>3, <1>4, <1>5, <1>6, <1>7, <1>8 DEF PlanNext

LEMMA InitPlanInv == PlanInit => PlanInv
<1> SUFFICES ASSUME PlanInit PROVE PlanInv
  OBVIOUS
<1>1. RestoreInit /\ restoring = Idle /\ job = NoJob
  BY DEF PlanInit, RestoreInit
<1> QED
  BY <1>1, InitRestoreInv DEF PlanInv, JobOK, CopyOK, RunningOK, UndisturbedOK

LEMMA PlanKeepsInv == PlanSpec => []PlanInv
BY InitPlanInv, PlanStepKeepsInv, PTL DEF PlanSpec

(***************************************************************************)
(* The theorems about the planner and the executor.                        *)
(***************************************************************************)

\* The archive a restore returns, or has so far, tells only of records that
\* existed, whatever the archive it was given says: nothing enters it but
\* what was read live and the proofs of transactions that took effect.
THEOREM ResultIsHistory == PlanSpec => []ResultAuthenticated
<1>1. PlanInv => ResultAuthenticated
  BY DEF PlanInv, JobOK, ResultOK, ResultAuthenticated
<1> QED
  BY <1>1, PlanKeepsInv, PTL

\* A plan made of reads that were current is accepted to its end as long as
\* nobody else changes the ledger: its steps do not get in each other's way,
\* though each was compiled without regard to the others.
THEOREM PlanIsAccepted == PlanSpec => []UndisturbedPlanAccepted
<1>1. PlanInv => UndisturbedPlanAccepted
  <2> SUFFICES ASSUME PlanInv, job # NoJob, job.undisturbed, restoring = Idle,
                      NEW k \in job.at..Len(job.steps)
               PROVE  RestoreAccepted(ledger, Planner, job.steps[k].proof, job.steps[k].pairs,
                                      Writable(job.steps[k]))
    BY DEF UndisturbedPlanAccepted
  <2> DEFINE c == job.steps[k]
  <2>1. k \in DOMAIN job.steps
    BY DEF PlanInv, JobOK, PlanOK, ProgressOK
  <2>2. Compiled(job.request, c) /\ Stands(ledger, c)
    BY <2>1 DEF PlanInv, JobOK, PlanOK, UndisturbedOK
  <2> HIDE DEF c
  <2>3. PairsValid(ledger, Planner, c.proof, c.pairs, Writable(c))
    <3>1. \A v \in DOMAIN ledger.vote : v[1] \in DOMAIN ledger.hash
      BY DEF PlanInv, RestoreInv, Inv, VotersMatchVotes, CountersOK
    <3>2. \A i : i \notin DOMAIN ledger.hash => <<i, Planner>> \notin DOMAIN ledger.vote
      BY <3>1
    <3>3. \A i \in c.pairs :
             IF i \in DOMAIN ledger.hash THEN MatchesLink(ledger, i, c.proof.links[i])
             ELSE i \in c.creations
      BY <2>2 DEF Stands
    <3> QED
      BY <3>2, <3>3 DEF PairsValid, Writable
  <2>4. ProofValid(c.proof.links, {c.proof.tip} \cup (c.pairs \cap DOMAIN ledger.hash),
                   MaxGeneration)
    <3>1. ProofValid(c.proof.links, {c.proof.tip} \cup (c.pairs \ c.creations), MaxGeneration)
      BY <2>2 DEF Compiled
    <3>2. c.pairs \ c.creations \subseteq DOMAIN ledger.hash
      BY <2>2 DEF Stands
    <3> QED
      BY <3>1, <3>2, ValidWithout
  <2>5. RestoreAccepted(ledger, Planner, c.proof, c.pairs, Writable(c))
    BY <2>2, <2>3, <2>4 DEF RestoreAccepted, Compiled, Stands
  <2> QED
    BY <2>5 DEF c
<1> QED
  BY <1>1, PlanKeepsInv, PTL

\* When executeArchiveRestore stops, wherever it stops, its step index and
\* its result say which transactions landed, but for the one at work, and
\* when it returns every target is in the result.
THEOREM ResultIsTold == PlanSpec => []ResultTellsWhatLanded
<1>1. PlanInv => ResultTellsWhatLanded
  <2> SUFFICES ASSUME PlanInv, job # NoJob
               PROVE  /\ 1..(job.at - 1) \subseteq job.landed /\ job.landed \subseteq 1..job.at
                      /\ \A k \in 1..(job.at - 1) :
                            DOMAIN job.steps[k].archive \subseteq DOMAIN job.result
                      /\ job.phase = "done" =>
                            Range(job.request.targets) \subseteq DOMAIN job.result
    BY DEF ResultTellsWhatLanded
  <2>1. PlanOK(job) /\ ProgressOK(job) /\ ResultOK(job)
    BY DEF PlanInv, JobOK
  <2>2. /\ job.at \in Nat /\ Len(job.steps) \in Nat /\ DOMAIN job.steps = 1..Len(job.steps)
        /\ job.at <= Len(job.steps) + 1
    BY <2>1 DEF PlanOK, ProgressOK
  <2>3. 1..(job.at - 1) \subseteq job.landed /\ job.landed \subseteq 1..job.at
    BY <2>1, <2>2 DEF ProgressOK
  <2>4. \A k \in DOMAIN job.steps :
           /\ DOMAIN job.steps[k].archive = DOMAIN job.steps[k].proof.links
           /\ job.steps[k].targets \subseteq DOMAIN job.steps[k].proof.links
    BY <2>1 DEF PlanOK, Compiled
  <2>5. \A k \in 1..(job.at - 1) : /\ k \in DOMAIN job.steps
                                   /\ DOMAIN job.steps[k].proof.links \subseteq DOMAIN job.result
    BY <2>1, <2>2 DEF ResultOK
  <2>6. ASSUME job.phase = "done", NEW t \in Range(job.request.targets)
        PROVE  t \in DOMAIN job.result
    <3>1. 1..(job.at - 1) = DOMAIN job.steps
      BY <2>1, <2>2, <2>6 DEF ProgressOK
    <3>2. t \in DOMAIN job.result \/ \E k \in DOMAIN job.steps : t \in job.steps[k].targets
      BY <2>1, <2>6 DEF PlanOK
    <3> QED
      BY <2>4, <2>5, <3>1, <3>2
  <2> QED
    BY <2>3, <2>4, <2>5, <2>6
<1> QED
  BY <1>1, PlanKeepsInv, PTL

\* What happens while a restore is at work.
LEMMA RestoringSteps ==
    ASSUME PlanInv, PlanNext, restoring # Idle, job # NoJob
    PROVE  \/ ledger' = ledger /\ job'.landed = job.landed
           \/ /\ RestoreEnd /\ ledger' = restoring.work
              /\ job.running \/ job' = job
<1>1. PlanOK(job)
  BY DEF PlanInv, JobOK
<1>2. Restores
  <2>1. ~Between /\ ~Elsewhere
    BY DEF Between, Elsewhere
  <2>2. ~Lands /\ \A create : ~RestoreElsewhere(create)
    BY DEF Lands, RestoreElsewhere, RestoreBegin
  <2> QED
    BY <2>1, <2>2 DEF PlanNext, PlanRestore, Execute, Send, Confirmed, Fails, Completes, Leaves
<1>3. CASE RestoreCreate /\ UNCHANGED job
  BY <1>3 DEF RestoreCreate, vars
<1>4. CASE RestoreFail /\ job' = IF job = NoJob THEN job ELSE [job EXCEPT !.running = FALSE]
  <2>1. job'.landed = job.landed
    BY <1>1, <1>4 DEF PlanOK
  <2> QED
    BY <1>4, <2>1 DEF RestoreFail, vars
<1>5. CASE RestoreEnd /\ job' = IF job # NoJob /\ job.running
                                THEN [job EXCEPT !.running = FALSE,
                                                 !.landed = @ \cup {job.at}]
                                ELSE job
  BY <1>5 DEF RestoreEnd, Commit
<1> QED
  BY <1>2, <1>3, <1>4, <1>5 DEF Restores

\* A step of a plan pays for no record but those the plan said it would
\* create, and without allowAdditionalRecords for none but targets: the
\* accounts of the others are read-only, so the program cannot create them.
THEOREM PlannedIsFunded == PlanSpec => OnlyPlannedFunded
<1>1. PlanInv /\ [PlanNext]_planVars
         => [restoring # Idle /\ job # NoJob /\ job.running =>
                LET created == DOMAIN ledger'.hash \ DOMAIN ledger.hash IN
                /\ created \subseteq Step.creations
                /\ job.consent \/ created \subseteq Range(job.request.targets)]_planVars
  <2> SUFFICES ASSUME PlanInv, PlanNext, restoring # Idle, job # NoJob, job.running
               PROVE  /\ DOMAIN ledger'.hash \ DOMAIN ledger.hash \subseteq Step.creations
                      /\ \/ job.consent
                         \/ DOMAIN ledger'.hash \ DOMAIN ledger.hash
                               \subseteq Range(job.request.targets)
    OBVIOUS
  <2>1. PlanOK(job) /\ ProgressOK(job)
    BY DEF PlanInv, JobOK
  <2>2. DOMAIN ledger'.hash \ DOMAIN ledger.hash \subseteq Step.creations
    <3>1. CASE ledger' = ledger
      BY <3>1
    <3>2. CASE ledger' = restoring.work
      BY <3>2 DEF PlanInv, CopyOK, RunningOK
    <3> QED
      BY <3>1, <3>2, RestoringSteps
  <2>3. job.consent \/ Step.creations \subseteq Range(job.request.targets)
    <3>1. job.at \in DOMAIN job.steps /\ (job.consent \/ Consented(job.steps))
      BY <2>1 DEF ProgressOK
    <3>2. job.consent \/ Step.additional = {}
      BY <3>1 DEF Consented, Step
    <3>3. Step.additional = Step.creations \ Range(job.request.targets)
      BY <2>1, <3>1 DEF PlanOK, Compiled, Step
    <3> QED
      BY <3>2, <3>3
  <2> QED
    BY <2>2, <2>3
<1> QED
  BY <1>1, PlanKeepsInv, PTL DEF PlanSpec, OnlyPlannedFunded

\* The transaction of a step leaves the targets of the step live, as the
\* archive has them: those it creates, those it found, and its anchor.
THEOREM StepRestores == PlanSpec => LandedStepRestores
<1>1. PlanInv /\ [PlanNext]_planVars
         => [restoring # Idle /\ job # NoJob /\ job.request.create /\ job.landed # job'.landed =>
                \A t \in Step.targets :
                   MatchesLink(ledger', t, job.request.archive[t])]_planVars
  <2> SUFFICES ASSUME PlanInv, PlanNext, restoring # Idle, job # NoJob, job.request.create,
                      job.landed # job'.landed, NEW t \in Step.targets
               PROVE  MatchesLink(ledger', t, job.request.archive[t])
    OBVIOUS
  <2> DEFINE c == Step
  <2>1. RestoreEnd /\ ledger' = restoring.work /\ job.running
    BY RestoringSteps
  <2>2. Compiled(job.request, c)
    BY <2>1 DEF PlanInv, JobOK, PlanOK, ProgressOK, Step
  <2>3. /\ restoring.links = c.proof.links /\ restoring.pairs = c.pairs
        /\ MatchesLink(ledger, c.proof.tip, c.proof.links[c.proof.tip])
        /\ \A i \in c.pairs : MatchesLink(restoring.work, i, c.proof.links[i])
    BY <2>1 DEF PlanInv, RunningOK, RestoreInv, WorkOK, RestoreEnd
  <2>4. MatchesLink(restoring.work, c.proof.tip, c.proof.links[c.proof.tip])
    BY <2>3 DEF MatchesLink, Live, PlanInv, CopyOK
  <2>5. /\ t \in c.pairs \cup {c.proof.tip}
        /\ SnapshotOf(c.proof.links[t]) = SnapshotOf(job.request.archive[t])
    <3> HIDE DEF c
    <3>1. t \in c.targets
      BY DEF c
    <3> QED
      BY <2>2, <3>1 DEF Compiled
  <2>6. MatchesLink(restoring.work, t, c.proof.links[t])
    BY <2>3, <2>4, <2>5
  <2> QED
    BY <2>1, <2>5, <2>6 DEF MatchesLink
<1> QED
  BY <1>1, PlanKeepsInv, PTL DEF PlanSpec, LandedStepRestores
=============================================================================
