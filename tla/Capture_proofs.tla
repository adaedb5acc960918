---------------------------- MODULE Capture_proofs ----------------------------
(***************************************************************************)
(* Theorems about Capture, for every value of its constants: what the SDK  *)
(* hands out as an archive is history, whatever happened between the steps *)
(* of the call, and a derived record is made from what was read.           *)
(***************************************************************************)
EXTENDS Capture, Records_proofs

(***************************************************************************)
(* What one step of the program can do to a record.                        *)
(***************************************************************************)

\* All that is new is record s, with the vote of u.
Made(u, s) ==
    /\ DOMAIN ledger'.hash \ DOMAIN ledger.hash \subseteq {IdOf(s)}
    /\ <<IdOf(s), u>> \in DOMAIN ledger'.vote

\* No step closes a record and opens another at its address.
Unreplaced(L, M) ==
    \A i \in DOMAIN L.hash \cap DOMAIN M.hash : SnapshotOf(M.hash[i]) = SnapshotOf(L.hash[i])

LEMMA CreationMakes ==
    ASSUME NEW L, NEW now \in Nat, LedgerOK(L, now), NEW s, Creatable(s, now),
           NEW u \in Users, NEW r \in Rates, CanCreate(L, u, s, r)
    PROVE  LET C == Created(L, u, s, r) IN
           /\ DOMAIN C.hash = DOMAIN L.hash \cup {IdOf(s)}
           /\ IdOf(s) \notin DOMAIN L.hash
           /\ <<IdOf(s), u>> \in DOMAIN C.vote
           /\ Unreplaced(L, C)
<1> DEFINE C == Created(L, u, s, r)
           rec == [hash |-> s.hash, source |-> s.source, voters |-> 1,
                   created_at |-> s.created_at]
           id == IdOf(s)
<1>1. /\ id \notin DOMAIN L.hash /\ C.hash = Put(L.hash, id, rec)
      /\ DOMAIN C.vote = DOMAIN L.vote \cup {<<id, u>>}
  BY CreatedOK
<1> HIDE DEF C, rec, id
<1>2. /\ DOMAIN C.hash = DOMAIN L.hash \cup {id}
      /\ \A i \in DOMAIN L.hash : C.hash[i] = L.hash[i]
  BY <1>1 DEF Put
<1> QED
  BY <1>1, <1>2 DEF Unreplaced, C, id

LEMMA CreateMakes ==
    ASSUME Inv, NEW u \in Users, NEW s, Creatable(s, clock), Create(u, s)
    PROVE  Made(u, s) /\ Unreplaced(ledger, ledger')
<1> DEFINE C == Created(ledger, u, s, rate)
<1>1. CanCreate(ledger, u, s, rate) /\ ledger' = C
  BY DEF Create, Commit
<1>2. /\ DOMAIN C.hash = DOMAIN ledger.hash \cup {IdOf(s)}
      /\ <<IdOf(s), u>> \in DOMAIN C.vote
      /\ Unreplaced(ledger, C)
  BY <1>1, InvIsLedgerOK, CreationMakes
<1> HIDE DEF C
<1> QED
  BY <1>1, <1>2 DEF Made

LEMMA MigrationMakes ==
    ASSUME Inv, NEW u \in Users, NEW i \in DOMAIN ledger.hash, NEW p,
           BranchTakingVote(u, i, p)
    PROVE  Made(u, Child(i, p)) /\ Unreplaced(ledger, ledger')
<1> DEFINE s == Child(i, p)
           C == Created(ledger, u, s, rate)
           R == Released(C, u, i)
<1>1. /\ Creatable(s, clock) /\ CanCreate(ledger, u, s, rate)
      /\ CanRelease(C, u, i, rate) /\ ledger' = R
  BY CreatableChild DEF BranchTakingVote, Commit
<1> HIDE DEF s
<1>2. /\ DOMAIN C.hash = DOMAIN ledger.hash \cup {IdOf(s)}
      /\ IdOf(s) \notin DOMAIN ledger.hash
      /\ <<IdOf(s), u>> \in DOMAIN C.vote
      /\ Unreplaced(ledger, C)
  BY <1>1, InvIsLedgerOK, CreationMakes
<1>3. LedgerOK(C, clock)
  BY <1>1, InvIsLedgerOK, CreatedOK
<1> HIDE DEF C
<1>4. WithoutVote(C, R, u, i)
  BY <1>1, <1>3, InvIsLedgerOK, ReleasedOK
<1> HIDE DEF R
<1>5. /\ DOMAIN R.hash \subseteq DOMAIN C.hash
      /\ DOMAIN R.vote = DOMAIN C.vote \ {<<i, u>>}
      /\ \A j \in DOMAIN R.hash : SnapshotOf(R.hash[j]) = SnapshotOf(C.hash[j])
  BY <1>4 DEF WithoutVote
<1>6. <<IdOf(s), u>> # <<i, u>>
  BY <1>2
<1>7. Made(u, s)
  BY <1>1, <1>2, <1>5, <1>6 DEF Made
<1>8. Unreplaced(ledger, R)
  BY <1>2, <1>5 DEF Unreplaced
<1> QED
  BY <1>1, <1>7, <1>8 DEF s

LEMMA StepReplacesNothing ==
    ASSUME Inv, [Next]_vars PROVE Unreplaced(ledger, ledger')
<1>0. LedgerOK(ledger, clock) /\ clock \in Nat /\ rate \in Rates
  BY InvIsLedgerOK
<1>1. ASSUME NEW u \in Users, NEW h \in RawHashes, Register(u, h)
      PROVE  Unreplaced(ledger, ledger')
  BY <1>1, CreatableRaw, CreateMakes DEF Register
<1>2. ASSUME NEW u \in Users, NEW a \in Accounts, AccountHash(u, a)
      PROVE  Unreplaced(ledger, ledger')
  BY <1>2, CreatableAccount, CreateMakes DEF AccountHash
<1>3. ASSUME NEW u \in Users, NEW i \in DOMAIN ledger.hash, Vote(u, i)
      PROVE  Unreplaced(ledger, ledger')
  BY <1>0, <1>3, VoteAddedOK DEF Vote, Commit, Unreplaced
<1>4. ASSUME NEW u \in Users, NEW i \in DOMAIN ledger.hash, Unvote(u, i)
      PROVE  Unreplaced(ledger, ledger')
  <2>1. WithoutVote(ledger, Released(ledger, u, i), u, i) /\ ledger' = Released(ledger, u, i)
    BY <1>0, <1>4, ReleasedOK DEF Unvote, Commit
  <2> QED
    BY <2>1 DEF WithoutVote, Unreplaced
<1>5. ASSUME NEW u \in Users, NEW i \in DOMAIN ledger.hash, NEW p \in Payloads,
             Branch(u, i, p)
      PROVE  Unreplaced(ledger, ledger')
  BY <1>5, CreatableChild, CreateMakes DEF Branch
<1>6. ASSUME NEW u \in Users, NEW i \in DOMAIN ledger.hash, NEW p \in Payloads,
             BranchTakingVote(u, i, p)
      PROVE  Unreplaced(ledger, ledger')
  BY <1>6, MigrationMakes
<1>7. ASSUME NEW u \in Users, NEW ids \in MemberLists, Batch(u, ids)
      PROVE  Unreplaced(ledger, ledger')
  BY <1>7, CreatableBatch, CreateMakes DEF Batch
<1>8. ASSUME NEW u \in Users, NEW ids \in MemberLists, Pack(u, ids)
      PROVE  Unreplaced(ledger, ledger')
  BY <1>8, CreatablePack, CreateMakes DEF Pack
<1>9. ASSUME ledger'.hash = ledger.hash PROVE Unreplaced(ledger, ledger')
  BY <1>9 DEF Unreplaced
<1>10. ASSUME NEW u \in Users, NEW a \in GiftTargets, NEW n \in Gifts, Gift(u, a, n)
       PROVE  Unreplaced(ledger, ledger')
  BY <1>9, <1>10 DEF Gift, Transferred
<1> QED
  BY <1>1, <1>2, <1>3, <1>4, <1>5, <1>6, <1>7, <1>8, <1>9, <1>10
     DEF Next, SomeGift, Tick, RentChange, AccountChange, vars

(***************************************************************************)
(* A step of the program and its environment, or what a restore makes: a   *)
(* record of the history.                                                  *)
(***************************************************************************)
Recreates == \E u \in Users, s \in born : Create(u, s)

BornShaped == \A s \in born : s = SnapshotOf(s)

Past == Inv /\ HistoryOK /\ BornOK

LEMMA PastIsShaped == Past => BornShaped
BY DEF Past, BornOK, BornShaped, Creatable, SnapshotOf

LEMMA RecreationKeepsPast ==
    ASSUME Past, Recreates
    PROVE  Past' /\ born \subseteq born' /\ Unreplaced(ledger, ledger')
<1>1. PICK u \in Users, s \in born : Create(u, s)
  BY DEF Recreates
<1>2. /\ Inv /\ Creatable(s, clock) /\ Genuine(s, born, clock)
      /\ s = [hash |-> s.hash, source |-> s.source, created_at |-> s.created_at]
  BY DEF Past, BornOK, HistoryOK, Creatable
<1>3. Inv' /\ HistoryOK' /\ Unreplaced(ledger, ledger')
  BY <1>1, <1>2, CreateKeepsInv, CreateKeepsHistory, CreateMakes DEF Past
<1>4. HistoryGrows
  BY <1>1, <1>2, CommitAddsWhatIsThere DEF Create
<1> QED
  BY <1>2, <1>3, <1>4, GrowthKeepsBorn DEF Past, HistoryGrows

LEMMA StepKeepsPast ==
    ASSUME Past, [Next]_vars \/ Recreates
    PROVE  Past' /\ born \subseteq born' /\ Unreplaced(ledger, ledger')
<1>1. CASE [Next]_vars
  <2>1. Inv' /\ HistoryOK' /\ HistoryGrows /\ Unreplaced(ledger, ledger')
    BY <1>1, NextKeepsInv, NextKeepsHistory, NextAddsWhatIsThere, StepReplacesNothing DEF Past
  <2> QED
    BY <2>1, GrowthKeepsBorn DEF Past, HistoryGrows
<1> QED
  BY <1>1, RecreationKeepsPast

\* What a bank of ledger L says of a record is in the history.
LEMMA BankIsPast ==
    ASSUME NEW L, NEW now, LedgerOK(L, now), NEW past,
           \A i \in DOMAIN L.hash : SnapshotOf(L.hash[i]) \in past,
           NEW id, NEW q, BankOf(L, id) = <<q>>
    PROVE  /\ id \in DOMAIN L.hash /\ q = SnapshotOf(L.hash[id])
           /\ q \in past /\ q = SnapshotOf(q) /\ IdOf(q) = id
<1>1. id \in DOMAIN L.hash /\ q = SnapshotOf(L.hash[id])
  BY DEF BankOf, Live
<1>2. IdOf(L.hash[id]) = id
  BY <1>1 DEF LedgerOK, RecordsOK
<1> QED
  BY <1>1, <1>2 DEF SnapshotOf, IdOf

LEMMA PastIsLedgerOK ==
    Past => /\ LedgerOK(ledger, clock)
            /\ \A i \in DOMAIN ledger.hash : SnapshotOf(ledger.hash[i]) \in born
BY InvIsLedgerOK DEF Past, HistoryOK

(***************************************************************************)
(* A call, and what it knows of the past.                                  *)
(***************************************************************************)
AskOK(ask) ==
    /\ ask.kind \in {"Register", "Account", "Branch", "Batch", "Pack"}
    /\ ask.kind = "Register" => ask.with \in RawHashes /\ ask.of = <<>>
    /\ ask.kind = "Account" => \E a \in Accounts : ask.of = <<a>>
    /\ ask.kind = "Branch" => ask.with[1] \in Payloads /\ \E i : ask.of = <<i>>
    /\ ask.kind \in {"Batch", "Pack"} =>
          \E n \in 1..MaxMembers : ask.of = [k \in 1..n |-> ask.of[k]]

\* What was read of the records the call is about was true some time.
ReadOK(ask, read, past) ==
    /\ DOMAIN read \subseteq DOMAIN ask.of
    /\ ask.kind # "Account" =>
          \A k \in DOMAIN read : read[k] \in past /\ IdOf(read[k]) = ask.of[k]

\* What banks may have said of the record a call waits for.
BanksOK(banks, id, past) ==
    \A b \in banks : b = <<>> \/ \E q \in past : b = <<q>> /\ IdOf(q) = id

Sent(c) == c.phase \in {"sent", "confirmed"}

SentOK(c, past) ==
    /\ c = [phase |-> c.phase, ask |-> c.ask, read |-> c.read, node |-> c.node,
            landed |-> c.landed, kept |-> c.kept, banks |-> c.banks, fresh |-> c.fresh]
    /\ Sent(c) /\ c.kept \in BOOLEAN
    /\ AskOK(c.ask) /\ ReadOK(c.ask, c.read, past)
    /\ DOMAIN c.read = DOMAIN c.ask.of
    /\ c.node = Expected(c.ask, c.read)
    /\ BanksOK(c.banks, NodeId(c.node), past) /\ BanksOK(c.fresh, NodeId(c.node), past)

ReadingOK(c, past) ==
    /\ c = [phase |-> "reading", ask |-> c.ask, read |-> c.read]
    /\ AskOK(c.ask) /\ ReadOK(c.ask, c.read, past)

CallOK(c, past) == c = NoCall \/ ReadingOK(c, past) \/ SentOK(c, past)

CallsTyped ==
    /\ call = [u \in Callers |-> call[u]]
    /\ captured = [u \in Callers |-> captured[u]]
    /\ \A u \in Callers : CallOK(call[u], born)

LEMMA AsksOK == ASSUME NEW ask \in Asks PROVE AskOK(ask)
<1>1. CASE ask \in [kind : {"Register"} \cap AskKinds, of : {<<>>}, with : RawHashes]
  BY <1>1 DEF AskOK
<1>2. CASE ask \in [kind : {"Account"} \cap AskKinds, of : {<<a>> : a \in Accounts},
                    with : {"nothing"}]
  BY <1>2 DEF AskOK
<1>3. CASE ask \in [kind : {"Branch"} \cap AskKinds, of : {<<i>> : i \in KnownIds},
                    with : Payloads \X BOOLEAN]
  BY <1>3 DEF AskOK
<1>4. CASE ask \in [kind : {"Batch", "Pack"} \cap AskKinds, of : KnownLists,
                    with : {"nothing"}]
  <2>1. ask.kind \in {"Batch", "Pack"} /\ ask.of \in KnownLists
    BY <1>4
  <2>2. PICK n \in 1..MaxMembers : ask.of \in [1..n -> KnownIds]
    BY <2>1 DEF KnownLists
  <2>3. ask.of = [k \in 1..n |-> ask.of[k]]
    BY <2>2
  <2> QED
    BY <2>1, <2>3 DEF AskOK
<1> QED
  BY <1>1, <1>2, <1>3, <1>4 DEF Asks

\* The shape of a call in each phase.
LEMMA ReadingCall ==
    ASSUME NEW c, NEW past, CallOK(c, past), c.phase = "reading" PROVE ReadingOK(c, past)
BY DEF CallOK, NoCall, SentOK, Sent

LEMMA SentCall ==
    ASSUME NEW c, NEW past, CallOK(c, past), Sent(c) PROVE SentOK(c, past)
BY DEF CallOK, NoCall, ReadingOK, Sent

\* A call is none the worse for a longer history.
LEMMA CallGrows ==
    ASSUME NEW past, NEW later, past \subseteq later, NEW c, CallOK(c, past)
    PROVE  CallOK(c, later)
<1>1. ASSUME NEW ask, NEW read, ReadOK(ask, read, past) PROVE ReadOK(ask, read, later)
  BY <1>1 DEF ReadOK
<1>2. ASSUME NEW banks, NEW id, BanksOK(banks, id, past) PROVE BanksOK(banks, id, later)
  BY <1>2 DEF BanksOK
<1> QED
  BY <1>1, <1>2 DEF CallOK, ReadingOK, SentOK

\* A call that was sent is a record of these fields.
SentFields == {"phase", "ask", "read", "node", "landed", "kept", "banks", "fresh"}

LEMMA SentIsFunction ==
    ASSUME NEW c, NEW past, SentOK(c, past) PROVE c = [x \in SentFields |-> c[x]]
BY DEF SentOK, SentFields

LEMMA WatchedCall ==
    ASSUME NEW u, NEW L, NEW past, SentOK(call[u], past)
    PROVE  LET c == call[u]
               bank == BankOf(L, NodeId(c.node))
           IN  Watched(u, L) =
                  [phase |-> c.phase, ask |-> c.ask, read |-> c.read, node |-> c.node,
                   landed |-> c.landed,
                   kept |-> c.kept /\ (c.landed # {} =>
                                          <<NodeId(c.node), u>> \in DOMAIN L.vote),
                   banks |-> c.banks \cup {bank},
                   fresh |-> IF c.landed # {} THEN c.fresh \cup {bank} ELSE {}]
<1> DEFINE c == call[u]
           bank == BankOf(L, NodeId(c.node))
           fresh == IF c.landed # {} THEN c.fresh \cup {bank} ELSE {}
           kept == c.kept /\ (c.landed # {} => <<NodeId(c.node), u>> \in DOMAIN L.vote)
           e == [x \in SentFields |-> IF x = "banks" THEN c.banks \cup {bank} ELSE c[x]]
           f == [x \in SentFields |-> IF x = "fresh" THEN fresh ELSE e[x]]
           g == [x \in SentFields |-> IF x = "kept" THEN kept ELSE f[x]]
<1>1. c = [x \in SentFields |-> c[x]]
  BY SentIsFunction
<1>2. e = [c EXCEPT !.banks = c.banks \cup {bank}]
  BY <1>1, Zenon
<1>3. f = [e EXCEPT !.fresh = fresh]
  BY Zenon
<1>4. g = [f EXCEPT !.kept = kept]
  BY Zenon
<1>5. e.fresh = c.fresh /\ f.kept = c.kept
  BY DEF SentFields
<1>6. Watched(u, L) = [c EXCEPT !.banks = c.banks \cup {bank}, !.fresh = fresh, !.kept = kept]
  BY Zenon DEF Watched, SentOK, Sent
<1>7. Watched(u, L) = g
  BY <1>2, <1>3, <1>4, <1>6, Zenon
<1>8. g = [phase |-> c.phase, ask |-> c.ask, read |-> c.read, node |-> c.node,
           landed |-> c.landed, kept |-> kept, banks |-> c.banks \cup {bank}, fresh |-> fresh]
  <2> HIDE DEF c, bank, fresh, kept
  <2> QED
    BY DEF SentFields
<1> QED
  BY <1>7, <1>8, Zenon


LEMMA WatchedOK ==
    ASSUME NEW u, NEW past, CallOK(call[u], past), NEW later, past \subseteq later,
           NEW L, NEW now, LedgerOK(L, now),
           \A i \in DOMAIN L.hash : SnapshotOf(L.hash[i]) \in later
    PROVE  CallOK(Watched(u, L), later)
<1> DEFINE c == call[u]
           bank == BankOf(L, NodeId(c.node))
<1>1. CallOK(c, later)
  BY CallGrows
<1>2. CASE ~Sent(c)
  BY <1>1, <1>2 DEF Watched, Sent
<1>3. CASE Sent(c)
  <2>1. SentOK(c, later)
    BY <1>1, <1>3, SentCall
  <2>2. BanksOK({bank}, NodeId(c.node), later)
    <3>1. ASSUME NEW q, bank = <<q>> PROVE q \in later /\ IdOf(q) = NodeId(c.node)
      BY <3>1, BankIsPast
    <3>2. bank = <<>> \/ \E q : bank = <<q>>
      BY DEF BankOf
    <3> HIDE DEF bank
    <3> QED
      BY <3>1, <3>2 DEF BanksOK
  <2> DEFINE w == Watched(u, L)
             k == c.kept /\ (c.landed # {} => <<NodeId(c.node), u>> \in DOMAIN L.vote)
             f == IF c.landed # {} THEN c.fresh \cup {bank} ELSE {}
  <2>3. w = [phase |-> c.phase, ask |-> c.ask, read |-> c.read, node |-> c.node,
             landed |-> c.landed, kept |-> k, banks |-> c.banks \cup {bank}, fresh |-> f]
    BY <2>1, WatchedCall, Zenon
  <2>4. k \in BOOLEAN /\ f \subseteq c.fresh \cup {bank}
    OBVIOUS
  <2> HIDE DEF w, bank, c, k, f
  <2>5. /\ w = [phase |-> w.phase, ask |-> w.ask, read |-> w.read, node |-> w.node,
                landed |-> w.landed, kept |-> w.kept, banks |-> w.banks, fresh |-> w.fresh]
        /\ w.phase = c.phase /\ w.ask = c.ask /\ w.read = c.read /\ w.node = c.node
        /\ w.kept \in BOOLEAN
        /\ w.banks = c.banks \cup {bank} /\ w.fresh \subseteq c.fresh \cup {bank}
    BY <2>3, <2>4
  <2>6. BanksOK(w.banks, NodeId(c.node), later) /\ BanksOK(w.fresh, NodeId(c.node), later)
    BY <2>1, <2>2, <2>5 DEF BanksOK, SentOK
  <2>7. SentOK(w, later)
    BY <2>1, <2>5, <2>6 DEF SentOK, Sent
  <2> QED
    BY <2>7 DEF CallOK, w
<1> QED
  BY <1>2, <1>3

(***************************************************************************)
(* What the transaction of a call makes, and of what.                      *)
(***************************************************************************)
FromLive(ask) ==
    IF ask.kind = "Register" THEN Now(HashOrigin, ask.with)
    ELSE IF ask.kind = "Account"
         THEN Now(AccountOrigin(ask.of[1]), MetadataDigest(ask.of[1], version[ask.of[1]]))
    ELSE IF ask.kind = "Branch" THEN Child(ask.of[1], ask.with[1])
    ELSE IF ask.kind = "Batch"
         THEN Now(BatchSource(MemberSnapshots(ask.of)), MembersHash(MemberSnapshots(ask.of)))
    ELSE Now(PackOrigin, MembersHash(MemberSnapshots(ask.of)))

LEMMA Execution ==
    ASSUME Past, NEW ask, AskOK(ask), NEW u \in Users, Executed(u, ask)
    PROVE  /\ Next /\ Made(u, FromLive(ask))
           /\ ask.kind \in {"Branch", "Batch", "Pack"} =>
                 \A k \in DOMAIN ask.of : Live(ledger, ask.of[k])
<1>0. Inv
  BY DEF Past
<1>1. CASE ask.kind = "Register" /\ Register(u, ask.with)
  <2>1. ask.with \in RawHashes
    BY <1>1 DEF AskOK
  <2>2. Made(u, Now(HashOrigin, ask.with))
    BY <1>0, <1>1, <2>1, CreatableRaw, CreateMakes DEF Register
  <2> QED
    BY <1>1, <2>1, <2>2 DEF Next, FromLive
<1>2. CASE ask.kind = "Account" /\ AccountHash(u, ask.of[1])
  <2>1. ask.of[1] \in Accounts
    BY <1>2 DEF AskOK
  <2>2. Made(u, Now(AccountOrigin(ask.of[1]), MetadataDigest(ask.of[1], version[ask.of[1]])))
    BY <1>0, <1>2, CreatableAccount, CreateMakes DEF AccountHash
  <2> QED
    BY <1>2, <2>1, <2>2 DEF Next, FromLive
<1>3. CASE /\ ask.kind = "Branch"
           /\ Branch(u, ask.of[1], ask.with[1]) \/ BranchTakingVote(u, ask.of[1], ask.with[1])
  <2>1. ask.with[1] \in Payloads /\ DOMAIN ask.of = {1}
    BY <1>3 DEF AskOK
  <2>2. Live(ledger, ask.of[1])
    BY <1>3 DEF Branch, BranchTakingVote
  <2>3. ask.of[1] \in DOMAIN ledger.hash
    BY <2>2 DEF Live
  <2>4. Made(u, Child(ask.of[1], ask.with[1]))
    <3>1. CASE Branch(u, ask.of[1], ask.with[1])
      BY <1>0, <2>3, <3>1, CreatableChild, CreateMakes DEF Branch
    <3>2. CASE BranchTakingVote(u, ask.of[1], ask.with[1])
      BY <1>0, <2>3, <3>2, MigrationMakes
    <3> QED
      BY <1>3, <3>1, <3>2
  <2>5. Next
    BY <1>3, <2>1, <2>3 DEF Next
  <2> QED
    BY <1>3, <2>1, <2>2, <2>4, <2>5 DEF FromLive
<1>4. CASE /\ ask.kind \in {"Batch", "Pack"} /\ VerifiedMembers(ask.of)
           /\ \/ ask.kind = "Batch" /\ Batch(u, ask.of)
              \/ ask.kind = "Pack" /\ Pack(u, ask.of)
  <2>1. \A k \in DOMAIN ask.of : Live(ledger, ask.of[k])
    BY <1>4 DEF VerifiedMembers
  <2>2. ask.of \in MemberLists
    <3>1. PICK n \in 1..MaxMembers : ask.of = [k \in 1..n |-> ask.of[k]]
      BY <1>4 DEF AskOK
    <3>2. \A k \in DOMAIN ask.of : ask.of[k] \in DOMAIN ledger.hash
      BY <2>1 DEF Live
    <3>3. ask.of \in [1..n -> DOMAIN ledger.hash]
      BY <3>1, <3>2
    <3> QED
      BY <3>3 DEF MemberLists
  <2>3. CASE ask.kind = "Batch" /\ Batch(u, ask.of)
    <3>1. Made(u, Now(BatchSource(MemberSnapshots(ask.of)), MembersHash(MemberSnapshots(ask.of))))
      BY <1>0, <2>2, <2>3, CreatableBatch, CreateMakes DEF Batch
    <3> QED
      BY <2>1, <2>2, <2>3, <3>1 DEF Next, FromLive
  <2>4. CASE ask.kind = "Pack" /\ Pack(u, ask.of)
    <3>1. Made(u, Now(PackOrigin, MembersHash(MemberSnapshots(ask.of))))
      BY <1>0, <2>4, CreatablePack, CreateMakes DEF Pack
    <3> QED
      BY <2>1, <2>2, <2>4, <3>1 DEF Next, FromLive
  <2> QED
    BY <1>4, <2>3, <2>4
<1> QED
  BY <1>1, <1>2, <1>3, <1>4 DEF Executed, Batch, Pack

\* Whatever a step of the clients is, it is one of the program or of none;
\* and so are the others, but for restores.
LEMMA CaptureStepIsStep ==
    ASSUME Past, CallsTyped, [CaptureNext]_captureVars PROVE [Next]_vars \/ Recreates
<1>1. ASSUME NEW u \in Callers, Land(u) PROVE Next
  <2>1. SentOK(call[u], born)
    BY <1>1, SentCall DEF CallsTyped, Land, Sent
  <2> QED
    BY <1>1, <2>1, Execution, CallersAssumption DEF SentOK, Land
<1>2. ASSUME NEW u \in Callers, NEW i, Vote(u, i) \/ Unvote(u, i) PROVE Next
  <2>1. i \in DOMAIN ledger.hash
    BY <1>2 DEF Vote, Unvote, CanAddVote, CanRelease, Live
  <2> QED
    BY <1>2, <2>1, CallersAssumption DEF Next
<1> QED
  BY <1>1, <1>2
     DEF CaptureNext, Elsewhere, RestoreElsewhere, Recreates, VoteFor, Withdraw, Ask, Read,
         ReadFails, Submit, GivesUp, Confirm, ReadBack, ReadBackFails, captureVars

(***************************************************************************)
(* What a step does to each call.                                          *)
(***************************************************************************)
Unmoved(u) == call'[u] = call[u] /\ captured'[u] = captured[u] /\ UNCHANGED vars

Looks(u) == call'[u] = Watched(u, ledger') /\ captured'[u] = captured[u]

Ends(u) == call'[u] = NoCall /\ captured'[u] = captured[u] /\ UNCHANGED vars

Moves(u) ==
    \/ \E ask \in Asks : Ask(u, ask)
    \/ Read(u) \/ Submit(u) \/ Land(u) \/ Confirm(u) \/ ReadBack(u)

LEMMA EachCall ==
    ASSUME CallsTyped, [CaptureNext]_captureVars
    PROVE  /\ call' = [u \in Callers |-> call'[u]]
           /\ captured' = [u \in Callers |-> captured'[u]]
           /\ \A u \in Callers : Unmoved(u) \/ Looks(u) \/ Ends(u) \/ Moves(u)
<1> DEFINE Shapes == /\ call' = [u \in Callers |-> call'[u]]
                     /\ captured' = [u \in Callers |-> captured'[u]]
           Each == \A u \in Callers : Unmoved(u) \/ Looks(u) \/ Ends(u) \/ Moves(u)
<1>0. /\ call = [v \in Callers |-> call[v]]
      /\ captured = [v \in Callers |-> captured[v]]
  BY DEF CallsTyped
<1>1. ASSUME Watching PROVE Shapes /\ Each
  BY <1>0, <1>1 DEF Watching, Looks
<1>2. ASSUME NEW u \in Callers, NEW d, call' = [call EXCEPT ![u] = d], UNCHANGED vars,
             \/ UNCHANGED captured
             \/ \E s : captured' = [captured EXCEPT ![u] = s]
      PROVE  /\ Shapes /\ call'[u] = d
             /\ UNCHANGED captured => captured'[u] = captured[u]
             /\ \A v \in Callers \ {u} : Unmoved(v)
  BY <1>0, <1>2 DEF Unmoved
<1>3. ASSUME NEW u \in Callers, NEW ask \in Asks, Ask(u, ask) PROVE Shapes /\ Each
  BY <1>2, <1>3 DEF Ask, Moves
<1>4. ASSUME NEW u \in Callers, Read(u) PROVE Shapes /\ Each
  <2>1. \E d : call' = [call EXCEPT ![u] = d]
    BY <1>4, Zenon DEF Read
  <2>2. UNCHANGED vars /\ UNCHANGED captured
    BY <1>4 DEF Read
  <2> QED
    BY <1>2, <1>4, <2>1, <2>2 DEF Moves
<1>5. ASSUME NEW u \in Callers, ReadFails(u) \/ GivesUp(u) \/ ReadBackFails(u)
      PROVE  Shapes /\ Each
  BY <1>2, <1>5 DEF ReadFails, GivesUp, ReadBackFails, Ends
<1>6. ASSUME NEW u \in Callers, Submit(u) PROVE Shapes /\ Each
  <2>1. \E d : call' = [call EXCEPT ![u] = d]
    BY <1>6, Zenon DEF Submit
  <2>2. UNCHANGED vars /\ UNCHANGED captured
    BY <1>6 DEF Submit
  <2> QED
    BY <1>2, <1>6, <2>1, <2>2 DEF Moves
<1>7. ASSUME NEW u \in Callers, Land(u) PROVE Shapes /\ Each
  <2>1. \E f : call' = [v \in Callers |-> IF v = u THEN f ELSE Watched(v, ledger')]
    BY <1>7, Zenon DEF Land
  <2>2. UNCHANGED captured
    BY <1>7 DEF Land
  <2> QED
    BY <1>0, <1>7, <2>1, <2>2 DEF Looks, Moves
<1>8. ASSUME NEW u \in Callers, Confirm(u) PROVE Shapes /\ Each
  <2>1. \E d : call' = [call EXCEPT ![u] = d]
    BY <1>0, <1>8 DEF Confirm
  <2>2. UNCHANGED vars /\ UNCHANGED captured
    BY <1>8 DEF Confirm
  <2> QED
    BY <1>2, <1>8, <2>1, <2>2 DEF Moves
<1>9. ASSUME NEW u \in Callers, ReadBack(u) PROVE Shapes /\ Each
  <2>1. \E s : captured' = [captured EXCEPT ![u] = s]
    BY <1>9, Zenon DEF ReadBack
  <2>2. UNCHANGED vars /\ call' = [call EXCEPT ![u] = NoCall]
    BY <1>9 DEF ReadBack
  <2> QED
    BY <1>2, <1>9, <2>1, <2>2 DEF Moves
<1>10. ASSUME UNCHANGED captureVars PROVE Shapes /\ Each
  BY <1>0, <1>10 DEF captureVars, Unmoved
<1> QED
  BY <1>1, <1>3, <1>4, <1>5, <1>6, <1>7, <1>8, <1>9, <1>10
     DEF CaptureNext, Elsewhere, RestoreElsewhere, VoteFor, Withdraw

LEMMA ReadMoves ==
    ASSUME CallsTyped, NEW u \in Callers, Read(u)
    PROVE  ReadingOK(call'[u], born)
<1> DEFINE c == call[u]
<1>1. ReadingOK(c, born)
  BY ReadingCall DEF CallsTyped, Read
<1>2. PICK k \in Unread(u) :
         \E seen \in Readable(c.ask, k) :
             call' = [call EXCEPT ![u].read =
                         [m \in DOMAIN @ \cup {k} |-> IF m = k THEN seen ELSE @[m]]]
  BY Zenon DEF Read
<1>3. PICK seen \in Readable(c.ask, k) :
         call' = [call EXCEPT ![u].read =
                     [m \in DOMAIN @ \cup {k} |-> IF m = k THEN seen ELSE @[m]]]
  BY <1>2
<1> DEFINE read == [m \in DOMAIN c.read \cup {k} |-> IF m = k THEN seen ELSE c.read[m]]
<1>4. call' = [call EXCEPT ![u] = [call[u] EXCEPT !.read = read]]
  BY <1>3, Zenon
<1>5. [c EXCEPT !.read = read] = [phase |-> "reading", ask |-> c.ask, read |-> read]
  <2> HIDE DEF read, c
  <2> QED
    BY <1>1 DEF ReadingOK
<1>6. call'[u] = [phase |-> "reading", ask |-> c.ask, read |-> read]
  <2>1. call'[u] = [c EXCEPT !.read = read]
    <3> HIDE DEF read
    <3>1. call = [v \in Callers |-> call[v]]
      BY DEF CallsTyped
    <3> DEFINE d == [call[u] EXCEPT !.read = read]
    <3>2. call' = [call EXCEPT ![u] = d]
      BY <1>4
    <3> HIDE DEF d
    <3>3. call'[u] = d
      BY <3>1, <3>2
    <3> QED
      BY <3>3 DEF d
  <2> QED
    BY <1>5, <2>1
<1>7. ReadOK(c.ask, read, born)
  <2>1. k \in DOMAIN c.ask.of
    BY DEF Unread
  <2>2. c.ask.kind # "Account" => seen \in born /\ IdOf(seen) = c.ask.of[k]
    BY DEF Readable
  <2> HIDE DEF c
  <2> QED
    BY <1>1, <2>1, <2>2 DEF ReadingOK, ReadOK
<1> HIDE DEF read, c
<1> QED
  BY <1>1, <1>6, <1>7 DEF ReadingOK

LEMMA SubmitMoves ==
    ASSUME Past, CallsTyped, NEW u \in Callers, Submit(u)
    PROVE  \/ call'[u] = NoCall
           \/ SentOK(call'[u], born) /\ call'[u].phase = "sent" /\ call'[u].landed = {}
<1> DEFINE c == call[u]
           node == Expected(c.ask, c.read)
           bank == BankOf(ledger, NodeId(node))
<1>0. call = [v \in Callers |-> call[v]]
  BY DEF CallsTyped
<1>1. ReadingOK(c, born)
  BY ReadingCall DEF CallsTyped, Submit
<1>2. DOMAIN c.read = DOMAIN c.ask.of
  BY <1>1 DEF Submit, Unread, ReadingOK, ReadOK
<1>3. \/ call'[u] = NoCall
      \/ call'[u] = [phase |-> "sent", ask |-> c.ask, read |-> c.read, node |-> node,
                     landed |-> {}, kept |-> TRUE, banks |-> {bank}, fresh |-> {}]
  BY <1>0 DEF Submit
<1>4. BanksOK({bank}, NodeId(node), born)
  <2>1. ASSUME NEW q, bank = <<q>> PROVE q \in born /\ IdOf(q) = NodeId(node)
    BY <2>1, BankIsPast, PastIsLedgerOK
  <2>2. bank = <<>> \/ \E q : bank = <<q>>
    BY DEF BankOf
  <2> HIDE DEF bank
  <2> QED
    BY <2>1, <2>2 DEF BanksOK
<1>5. BanksOK({}, NodeId(node), born)
  BY DEF BanksOK
<1> DEFINE d == call'[u]
<1>6. ASSUME d = [phase |-> "sent", ask |-> c.ask, read |-> c.read, node |-> node,
                  landed |-> {}, kept |-> TRUE, banks |-> {bank}, fresh |-> {}]
      PROVE  SentOK(d, born) /\ d.phase = "sent" /\ d.landed = {}
  <2> HIDE DEF c, bank, d
  <2>1. /\ d.phase = "sent" /\ d.ask = c.ask /\ d.read = c.read /\ d.node = node
        /\ d.landed = {} /\ d.kept = TRUE /\ d.banks = {bank} /\ d.fresh = {}
        /\ d = [phase |-> d.phase, ask |-> d.ask, read |-> d.read, node |-> d.node,
                landed |-> d.landed, kept |-> d.kept, banks |-> d.banks, fresh |-> d.fresh]
    <3> HIDE DEF node
    <3> QED
      BY <1>6
  <2>2. d.kept \in BOOLEAN
    BY <2>1
  <2> QED
    BY <1>1, <1>2, <1>4, <1>5, <2>1, <2>2 DEF SentOK, Sent, ReadingOK
<1> HIDE DEF d
<1> QED
  BY <1>3, <1>6 DEF d

\* The call whose transaction lands, in full.
LEMMA LandMoves ==
    ASSUME CallsTyped, NEW u \in Callers, Land(u)
    PROVE  LET c == call[u]
               bank == BankOf(ledger', NodeId(c.node))
           IN  /\ SentOK(c, born) /\ c.landed = {}
               /\ call'[u] = [phase |-> "sent", ask |-> c.ask, read |-> c.read,
                              node |-> c.node, landed |-> Creations, kept |-> c.kept,
                              banks |-> c.banks \cup {bank}, fresh |-> {bank}]
<1> DEFINE c == call[u]
           bank == BankOf(ledger', NodeId(c.node))
<1>1. SentOK(c, born) /\ c.landed = {} /\ c.phase = "sent"
  BY SentCall DEF CallsTyped, Land, Sent
<1>2. call'[u] = [c EXCEPT !.landed = Creations, !.banks = @ \cup {bank}, !.fresh = {bank}]
  BY Zenon DEF Land
<1> DEFINE made == Creations
           e == [x \in SentFields |-> IF x = "landed" THEN made ELSE c[x]]
           f == [x \in SentFields |-> IF x = "banks" THEN c.banks \cup {bank} ELSE e[x]]
           g == [x \in SentFields |-> IF x = "fresh" THEN {bank} ELSE f[x]]
<1>3. c = [x \in SentFields |-> c[x]]
  BY <1>1, SentIsFunction
<1>4. e = [c EXCEPT !.landed = made]
  BY <1>3, Zenon
<1>5. f = [e EXCEPT !.banks = c.banks \cup {bank}]
  BY Zenon
<1>6. g = [f EXCEPT !.fresh = {bank}]
  BY Zenon
<1>7. e.banks = c.banks
  BY DEF SentFields
<1>8. call'[u] = g
  BY <1>2, <1>4, <1>5, <1>6, <1>7, Zenon
<1>9. g = [phase |-> "sent", ask |-> c.ask, read |-> c.read,
           node |-> c.node, landed |-> made, kept |-> c.kept,
           banks |-> c.banks \cup {bank}, fresh |-> {bank}]
  <2> HIDE DEF c, bank, made
  <2> QED
    BY <1>1 DEF SentFields
<1> QED
  BY <1>1, <1>8, <1>9, Zenon

LEMMA ConfirmMoves ==
    ASSUME CallsTyped, NEW u \in Callers, Confirm(u)
    PROVE  LET c == call[u]
           IN  /\ SentOK(c, born) /\ c.phase = "sent" /\ c.landed # {}
               /\ call'[u] = [phase |-> "confirmed", ask |-> c.ask, read |-> c.read,
                              node |-> c.node, landed |-> c.landed, kept |-> c.kept,
                              banks |-> c.fresh, fresh |-> c.fresh]
<1> DEFINE c == call[u]
<1>1. SentOK(c, born) /\ c.landed # {} /\ c.phase = "sent"
  BY SentCall DEF CallsTyped, Confirm, Sent
<1>2. call'[u] = [c EXCEPT !.phase = "confirmed", !.banks = c.fresh]
  BY DEF Confirm, CallsTyped
<1> DEFINE e == [x \in SentFields |-> IF x = "phase" THEN "confirmed" ELSE c[x]]
           f == [x \in SentFields |-> IF x = "banks" THEN c.fresh ELSE e[x]]
<1>3. c = [x \in SentFields |-> c[x]]
  BY <1>1, SentIsFunction
<1>4. e = [c EXCEPT !.phase = "confirmed"]
  BY <1>3, Zenon
<1>5. f = [e EXCEPT !.banks = c.fresh]
  BY Zenon
<1>6. call'[u] = f
  BY <1>2, <1>4, <1>5, Zenon
<1>7. f = [phase |-> "confirmed", ask |-> c.ask, read |-> c.read,
           node |-> c.node, landed |-> c.landed, kept |-> c.kept,
           banks |-> c.fresh, fresh |-> c.fresh]
  <2> HIDE DEF c
  <2> QED
    BY <1>1 DEF SentFields
<1> QED
  BY <1>1, <1>6, <1>7, Zenon

LEMMA AskMoves ==
    ASSUME CallsTyped, NEW u \in Callers, NEW ask \in Asks, Ask(u, ask)
    PROVE  ReadingOK(call'[u], born)
<1>1. call'[u] = [phase |-> "reading", ask |-> ask, read |-> <<>>]
  BY DEF CallsTyped, Ask
<1>2. ReadOK(ask, <<>>, born)
  BY DEF ReadOK
<1> QED
  BY <1>1, <1>2, AsksOK DEF ReadingOK

LEMMA NextLedgerOK ==
    ASSUME Past'
    PROVE  /\ LedgerOK(ledger', clock')
           /\ \A i \in DOMAIN ledger'.hash : SnapshotOf(ledger'.hash[i]) \in born'
BY DEF Past, HistoryOK, Inv, TypeOK, VotersMatchVotes, LedgerOK

LEMMA LandedOK ==
    ASSUME Past', CallsTyped, born \subseteq born', NEW u \in Callers, Land(u)
    PROVE  SentOK(call'[u], born')
<1> DEFINE c == call[u]
           bank == BankOf(ledger', NodeId(c.node))
           d == call'[u]
<1>1. /\ SentOK(c, born)
      /\ d = [phase |-> "sent", ask |-> c.ask, read |-> c.read,
              node |-> c.node, landed |-> Creations, kept |-> c.kept,
              banks |-> c.banks \cup {bank}, fresh |-> {bank}]
  BY LandMoves, Zenon
<1>2. CallOK(c, born) /\ Sent(c)
  BY <1>1 DEF CallOK, SentOK
<1>3. SentOK(c, born')
  BY <1>2, CallGrows, SentCall
<1>4. BanksOK({bank}, NodeId(c.node), born')
  <2>1. ASSUME NEW q, bank = <<q>> PROVE q \in born' /\ IdOf(q) = NodeId(c.node)
    BY <2>1, BankIsPast, NextLedgerOK
  <2>2. bank = <<>> \/ \E q : bank = <<q>>
    BY DEF BankOf
  <2> HIDE DEF bank
  <2> QED
    BY <2>1, <2>2 DEF BanksOK
<1> HIDE DEF c, bank, d
<1>5. /\ d = [phase |-> d.phase, ask |-> d.ask, read |-> d.read, node |-> d.node,
              landed |-> d.landed, kept |-> d.kept, banks |-> d.banks, fresh |-> d.fresh]
      /\ d.phase = "sent" /\ d.ask = c.ask /\ d.read = c.read /\ d.node = c.node
      /\ d.kept = c.kept /\ d.banks = c.banks \cup {bank} /\ d.fresh = {bank}
  BY <1>1
<1>6. BanksOK(d.banks, NodeId(d.node), born') /\ BanksOK(d.fresh, NodeId(d.node), born')
  BY <1>3, <1>4, <1>5 DEF BanksOK, SentOK
<1>7. SentOK(d, born')
  BY <1>3, <1>5, <1>6 DEF SentOK, Sent
<1> QED
  BY <1>7 DEF d

LEMMA ConfirmedOK ==
    ASSUME CallsTyped, NEW u \in Callers, Confirm(u)
    PROVE  SentOK(call'[u], born)
<1> DEFINE c == call[u]
           d == call'[u]
<1>1. /\ SentOK(c, born)
      /\ d = [phase |-> "confirmed", ask |-> c.ask, read |-> c.read,
              node |-> c.node, landed |-> c.landed, kept |-> c.kept,
              banks |-> c.fresh, fresh |-> c.fresh]
  BY ConfirmMoves, Zenon
<1> HIDE DEF c, d
<1>2. /\ d = [phase |-> d.phase, ask |-> d.ask, read |-> d.read, node |-> d.node,
              landed |-> d.landed, kept |-> d.kept, banks |-> d.banks, fresh |-> d.fresh]
      /\ d.phase = "confirmed" /\ d.ask = c.ask /\ d.read = c.read /\ d.node = c.node
      /\ d.kept = c.kept /\ d.banks = c.fresh /\ d.fresh = c.fresh
  BY <1>1
<1>3. SentOK(d, born)
  BY <1>1, <1>2 DEF SentOK, Sent
<1> QED
  BY <1>3 DEF d

\* Every step leaves the calls in order.
LEMMA StepKeepsCalls ==
    ASSUME Past, Past', CallsTyped, born \subseteq born', [CaptureNext]_captureVars
    PROVE  CallsTyped'
<1>1. ASSUME NEW u \in Callers PROVE CallOK(call'[u], born')
  <2>0. ASSUME NEW c, CallOK(c, born) PROVE CallOK(c, born')
    BY <2>0, CallGrows
  <2>1. CASE Unmoved(u)
    BY <2>0, <2>1 DEF Unmoved, CallsTyped
  <2>2. CASE Looks(u)
    BY <2>2, WatchedOK, NextLedgerOK DEF Looks, CallsTyped
  <2>3. CASE Ends(u) \/ ReadBack(u)
    <3>1. call'[u] = NoCall
      BY <2>3 DEF Ends, ReadBack, CallsTyped
    <3> QED
      BY <3>1 DEF CallOK
  <2>4. CASE (\E ask \in Asks : Ask(u, ask)) \/ Read(u)
    BY <2>0, <2>4, AskMoves, ReadMoves DEF CallOK
  <2>5. CASE Submit(u)
    <3>1. call'[u] = NoCall \/ SentOK(call'[u], born)
      BY <2>5, SubmitMoves
    <3> QED
      BY <2>0, <3>1 DEF CallOK
  <2>6. CASE Land(u)
    BY <2>6, LandedOK DEF CallOK
  <2>7. CASE Confirm(u)
    BY <2>0, <2>7, ConfirmedOK DEF CallOK
  <2> QED
    BY <2>1, <2>2, <2>3, <2>4, <2>5, <2>6, <2>7, EachCall DEF Moves
<1>2. /\ call' = [u \in Callers |-> call'[u]]
      /\ captured' = [u \in Callers |-> captured'[u]]
  BY EachCall
<1> QED
  BY <1>1, <1>2 DEF CallsTyped

(***************************************************************************)
(* What is handed out is history.                                          *)
(***************************************************************************)

\* The witness of the node a call expects is what the call read.
LEMMA ExpectedWitness ==
    ASSUME NEW c, SentOK(c, born), NEW n, n.hash = c.node.hash,
           n.source = c.node.source, n.witness = c.node.witness
    PROVE  WitnessTrue(n)
<1> DEFINE ask == c.ask
           read == c.read
<1>1. /\ AskOK(ask) /\ DOMAIN read = DOMAIN ask.of /\ c.node = Expected(ask, read)
      /\ ReadOK(ask, read, born)
  BY DEF SentOK
<1> HIDE DEF ask, read
<1>2. CASE ask.kind \in {"Register", "Branch", "Batch"}
  <2>1. c.node.witness = Unknown
    BY <1>1, <1>2 DEF Expected, RegisterNode, BranchNode, BatchNode, Pending
  <2> QED
    BY <2>1 DEF WitnessTrue
<1>3. CASE ask.kind = "Account"
  <2>1. /\ c.node.witness = <<read[1]>> /\ c.node.source = AccountOrigin(ask.of[1])
        /\ c.node.hash = DeriveAccountMetadataHash(ask.of[1], read[1])
    BY <1>1, <1>3 DEF Expected, AccountNode, Pending
  <2>2. c.node.source.kind = "Account" /\ c.node.source.account = ask.of[1]
    BY <2>1 DEF AccountOrigin
  <2>3. c.node.hash = MetadataDigest(c.node.source.account, c.node.witness[1])
    BY <2>1, <2>2 DEF DeriveAccountMetadataHash, MetadataDigest
  <2> QED
    BY <2>2, <2>3 DEF WitnessTrue
<1>4. CASE ask.kind = "Pack"
  <2> DEFINE qs == [k \in DOMAIN ask.of |-> read[k]]
  <2>1. /\ c.node.witness = <<ask.of>> /\ c.node.source = PackOrigin
        /\ c.node.hash = AggregateHashOf(qs)
    BY <1>1, <1>4 DEF Expected, PackNode, Pending
  <2>2. AggregateHashOf(qs) = MembersHash(qs)
    BY DEF AggregateHashOf, AggregateHashDigest, AggregateMember, MembersHash, MembersDigest,
           Fingerprint
  <2>3. qs \in [DOMAIN ask.of -> born] /\ \A k \in DOMAIN qs : IdOf(qs[k]) = ask.of[k]
    BY <1>1, <1>4 DEF ReadOK
  <2> HIDE DEF qs
  <2>4. c.node.witness[1] = ask.of /\ c.node.source.kind # "Account"
    BY <2>1 DEF PackOrigin
  <2> QED
    BY <2>1, <2>2, <2>3, <2>4 DEF WitnessTrue
<1> QED
  BY <1>1, <1>2, <1>3, <1>4 DEF AskOK

\* What one read back hands out.
LEMMA ReadBackHands ==
    ASSUME BornShaped, CallsTyped, NEW u \in Callers, ReadBack(u),
           NEW n \in captured'[u] \ captured[u]
    PROVE  /\ SentOK(call[u], born) /\ call[u].phase = "confirmed"
           /\ <<SnapshotOf(n)>> \in call[u].banks
           /\ SnapshotOf(n) \in born /\ WitnessTrue(n)
<1> DEFINE c == call[u]
<1>1. SentOK(c, born) /\ c.phase = "confirmed"
  BY SentCall DEF CallsTyped, ReadBack, Sent
<1>2. PICK bank \in c.banks \ {<<>>} :
         /\ bank[1].hash = c.node.hash /\ bank[1].source = c.node.source
         /\ captured' = [captured EXCEPT ![u] = @ \cup {CapturedNode(u, bank[1])}]
  BY DEF ReadBack
<1>3. n = CapturedNode(u, bank[1])
  BY <1>2 DEF CallsTyped
<1>4. PICK q \in born : bank = <<q>>
  BY <1>1, <1>2 DEF SentOK, BanksOK
<1>5. q = SnapshotOf(q)
  BY <1>4 DEF BornShaped
<1>6. c.node = Pending(c.node.hash, c.node.source, c.node.witness)
  <2>1. c.node = Expected(c.ask, c.read)
    BY <1>1 DEF SentOK
  <2> QED
    BY <2>1 DEF Expected, RegisterNode, AccountNode, BranchNode, BatchNode, PackNode, Pending
<1>7. /\ n.hash = c.node.hash /\ n.source = c.node.source /\ n.witness = c.node.witness
      /\ n.created_at = q.created_at
  <2>1. n = [c.node EXCEPT !.created_at = q.created_at]
    BY <1>3, <1>4 DEF CapturedNode
  <2> HIDE DEF c
  <2> QED
    BY <1>6, <2>1 DEF Pending
<1>8. SnapshotOf(n) = q
  BY <1>2, <1>4, <1>5, <1>7 DEF SnapshotOf
<1>9. WitnessTrue(n)
  BY <1>1, <1>7, ExpectedWitness
<1> QED
  BY <1>1, <1>2, <1>4, <1>8, <1>9

\* A longer history witnesses no less.
LEMMA WitnessGrows ==
    ASSUME born \subseteq born', NEW n, WitnessTrue(n) PROVE WitnessTrue(n)'
<1>1. [DOMAIN n.witness[1] -> born] \subseteq [DOMAIN n.witness[1] -> born']
  OBVIOUS
<1> QED
  BY <1>1 DEF WitnessTrue

LEMMA StepHandsOutHistory ==
    ASSUME BornShaped, CallsTyped, CapturesGenuine, born \subseteq born',
           [CaptureNext]_captureVars
    PROVE  CapturesGenuine'
<1> SUFFICES ASSUME NEW u \in Callers, NEW n \in captured'[u]
             PROVE  SnapshotOf(n) \in born' /\ WitnessTrue(n)'
  BY DEF CapturesGenuine
<1>1. CASE n \in captured[u]
  BY <1>1, WitnessGrows DEF CapturesGenuine
<1>2. CASE n \notin captured[u]
  <2>1. ReadBack(u)
    <3>1. captured'[u] # captured[u]
      BY <1>2
    <3> QED
      BY <3>1, EachCall
         DEF Unmoved, Looks, Ends, Moves, Ask, Read, Submit, Land, Confirm
  <2> QED
    BY <1>2, <2>1, ReadBackHands, WitnessGrows
<1> QED
  BY <1>1, <1>2

(***************************************************************************)
(* A caller who keeps the initial vote keeps the record: what banks say    *)
(* since it landed is of it, and of no later record of its id.             *)
(***************************************************************************)
OfOwn(banks, landed) == \A b \in banks : b = <<>> \/ \E q \in landed : b = <<q>>

KeptOK(c, u, L) ==
    Sent(c) =>
        /\ c.phase = "confirmed" => c.landed # {}
        /\ c.landed # {} /\ c.kept =>
              /\ <<NodeId(c.node), u>> \in DOMAIN L.vote
              /\ SnapshotOf(L.hash[NodeId(c.node)]) \in c.landed
              /\ OfOwn(c.fresh, c.landed)
              /\ c.phase = "confirmed" => OfOwn(c.banks, c.landed)

CallsKept == \A u \in Callers : KeptOK(call[u], u, ledger)

\* What a bank says of a record in landed is of one in landed.
LEMMA BankOfOwn ==
    ASSUME NEW L, NEW id, NEW landed, SnapshotOf(L.hash[id]) \in landed
    PROVE  OfOwn({BankOf(L, id)}, landed)
BY DEF BankOf, OfOwn

LEMMA LandedMakes ==
    ASSUME Past, CallsTyped, NEW u \in Callers, Land(u)
    PROVE  LET c == call[u]
               id == NodeId(c.node)
           IN  /\ id = IdOf(FromLive(c.ask))
               /\ <<id, u>> \in DOMAIN ledger'.vote
               /\ Creations = {SnapshotOf(ledger'.hash[id])}
               /\ c.ask.kind \in {"Branch", "Batch", "Pack"} =>
                     \A k \in DOMAIN c.ask.of : Live(ledger, c.ask.of[k])
<1> DEFINE c == call[u]
           id == NodeId(c.node)
<1>1. SentOK(c, born)
  BY LandMoves
<1>2. /\ Made(u, FromLive(c.ask))
      /\ c.ask.kind \in {"Branch", "Batch", "Pack"} =>
            \A k \in DOMAIN c.ask.of : Live(ledger, c.ask.of[k])
  BY <1>1, Execution, CallersAssumption DEF SentOK, Land
<1>3. id \in DOMAIN ledger'.hash \ DOMAIN ledger.hash
  BY DEF Land, CreatedAt
<1> HIDE DEF c, id
<1>4. id = IdOf(FromLive(c.ask)) /\ <<id, u>> \in DOMAIN ledger'.vote
  BY <1>2, <1>3 DEF Made
<1>5. DOMAIN ledger'.hash \ DOMAIN ledger.hash = {id}
  BY <1>2, <1>3, <1>4 DEF Made
<1>6. Creations = {SnapshotOf(ledger'.hash[id])}
  BY <1>5 DEF Creations
<1> QED
  BY <1>2, <1>4, <1>6 DEF c, id

LEMMA LandedKept ==
    ASSUME Past, CallsTyped, NEW u \in Callers, Land(u)
    PROVE  KeptOK(call'[u], u, ledger')
<1> DEFINE c == call[u]
           id == NodeId(c.node)
           bank == BankOf(ledger', id)
           d == call'[u]
<1>1. d = [phase |-> "sent", ask |-> c.ask, read |-> c.read,
           node |-> c.node, landed |-> Creations, kept |-> c.kept,
           banks |-> c.banks \cup {bank}, fresh |-> {bank}]
  BY LandMoves, Zenon
<1>2. <<id, u>> \in DOMAIN ledger'.vote /\ SnapshotOf(ledger'.hash[id]) \in Creations
  BY LandedMakes
<1>3. OfOwn({bank}, Creations)
  BY <1>2, BankOfOwn
<1>4. /\ d.phase = "sent" /\ d.node = c.node /\ d.landed = Creations /\ d.fresh = {bank}
  <2> HIDE DEF c, bank, d
  <2> QED
    BY <1>1
<1> HIDE DEF c, bank, d
<1>5. KeptOK(d, u, ledger')
  BY <1>2, <1>3, <1>4 DEF KeptOK
<1> QED
  BY <1>5 DEF d

LEMMA LooksKept ==
    ASSUME Past, Past', Unreplaced(ledger, ledger'), CallsTyped, CallsKept,
           NEW u \in Callers, Looks(u)
    PROVE  KeptOK(call'[u], u, ledger')
<1> DEFINE c == call[u]
           d == call'[u]
           id == NodeId(c.node)
           bank == BankOf(ledger', id)
           kept == c.kept /\ (c.landed # {} => <<id, u>> \in DOMAIN ledger'.vote)
           fresh == IF c.landed # {} THEN c.fresh \cup {bank} ELSE {}
<1>0. KeptOK(c, u, ledger)
  BY DEF CallsKept
<1>1. CASE ~Sent(c)
  <2>1. d = c
    BY <1>1 DEF Looks, Watched, Sent
  <2> QED
    BY <1>1, <2>1 DEF KeptOK
<1>2. CASE Sent(c)
  <2>1. SentOK(c, born)
    BY <1>2, SentCall DEF CallsTyped
  <2>2. d = [phase |-> c.phase, ask |-> c.ask, read |-> c.read, node |-> c.node,
             landed |-> c.landed, kept |-> kept, banks |-> c.banks \cup {bank},
             fresh |-> fresh]
    BY <2>1, WatchedCall, Zenon DEF Looks
  <2>3. /\ d.phase = c.phase /\ d.node = c.node /\ d.landed = c.landed
        /\ d.banks = c.banks \cup {bank} /\ d.fresh = fresh
    <3> HIDE DEF c, bank, fresh, kept, d
    <3> QED
      BY <2>2
  <2>4. d.kept = kept
    <3> HIDE DEF c, bank, fresh, kept, d
    <3> QED
      BY <2>2
  <2>5. ASSUME d.landed # {}, d.kept
        PROVE  /\ <<id, u>> \in DOMAIN ledger'.vote
               /\ SnapshotOf(ledger'.hash[id]) \in d.landed
               /\ OfOwn(d.fresh, d.landed)
               /\ d.phase = "confirmed" => OfOwn(d.banks, d.landed)
    <3>1. c.landed # {} /\ c.kept /\ <<id, u>> \in DOMAIN ledger'.vote
      <4> HIDE DEF c, d, id
      <4> QED
        BY <2>3, <2>4, <2>5, Zenon
    <3>2. /\ <<id, u>> \in DOMAIN ledger.vote /\ SnapshotOf(ledger.hash[id]) \in c.landed
          /\ OfOwn(c.fresh, c.landed)
          /\ c.phase = "confirmed" => OfOwn(c.banks, c.landed)
      BY <1>0, <1>2, <3>1 DEF KeptOK
    <3>3. id \in DOMAIN ledger.hash
      BY <3>2, PastIsLedgerOK DEF LedgerOK, CountersOK
    <3>4. id \in DOMAIN ledger'.hash
      BY <3>1, NextLedgerOK DEF LedgerOK, CountersOK
    <3>5. SnapshotOf(ledger'.hash[id]) \in c.landed
      BY <3>2, <3>3, <3>4 DEF Unreplaced
    <3>6. OfOwn({bank}, c.landed)
      BY <3>5, BankOfOwn
    <3>7. fresh = c.fresh \cup {bank}
      BY <3>1
    <3> HIDE DEF c, d, bank, id, fresh
    <3> QED
      BY <2>3, <3>1, <3>2, <3>5, <3>6, <3>7 DEF OfOwn
  <2>6. d.phase = "confirmed" => d.landed # {}
    <3> HIDE DEF d
    <3> QED
      BY <1>0, <1>2, <2>3 DEF KeptOK
  <2>7. id = NodeId(d.node)
    <3> HIDE DEF d
    <3> QED
      BY <2>3
  <2> HIDE DEF c, d, bank, id, fresh, kept
  <2>8. KeptOK(d, u, ledger')
    BY <2>5, <2>6, <2>7, Zenon DEF KeptOK
  <2> QED
    BY <2>8 DEF d
<1> QED
  BY <1>1, <1>2

LEMMA StepKeepsKept ==
    ASSUME Past, Past', Unreplaced(ledger, ledger'), CallsTyped, CallsKept,
           [CaptureNext]_captureVars
    PROVE  CallsKept'
<1>1. ASSUME NEW u \in Callers PROVE KeptOK(call'[u], u, ledger')
  <2>0. KeptOK(call[u], u, ledger)
    BY DEF CallsKept
  <2>1. CASE Unmoved(u)
    BY <2>0, <2>1 DEF Unmoved, vars
  <2>2. CASE Ends(u) \/ ReadBack(u)
    <3>1. call'[u] = NoCall
      BY <2>2 DEF Ends, ReadBack, CallsTyped
    <3> QED
      BY <3>1 DEF KeptOK, NoCall, Sent
  <2>3. CASE (\E ask \in Asks : Ask(u, ask)) \/ Read(u)
    <3> DEFINE d == call'[u]
    <3>1. ReadingOK(d, born)
      BY <2>3, AskMoves, ReadMoves
    <3> HIDE DEF d
    <3>2. d.phase = "reading"
      BY <3>1 DEF ReadingOK
    <3>3. KeptOK(d, u, ledger')
      BY <3>2 DEF KeptOK, Sent
    <3> QED
      BY <3>3 DEF d
  <2>4. CASE Submit(u)
    BY <2>4, SubmitMoves DEF KeptOK, NoCall, Sent
  <2>5. CASE Confirm(u)
    <3> DEFINE c == call[u]
               d == call'[u]
    <3>1. /\ c.phase = "sent" /\ c.landed # {} /\ UNCHANGED ledger
          /\ d = [phase |-> "confirmed", ask |-> c.ask, read |-> c.read,
                  node |-> c.node, landed |-> c.landed, kept |-> c.kept,
                  banks |-> c.fresh, fresh |-> c.fresh]
      BY <2>5, ConfirmMoves, Zenon DEF Confirm, vars
    <3>2. /\ d.phase = "confirmed" /\ d.node = c.node /\ d.landed = c.landed
          /\ d.kept = c.kept /\ d.banks = c.fresh /\ d.fresh = c.fresh
      <4> HIDE DEF c, d
      <4> QED
        BY <3>1
    <3> QED
      BY <2>0, <3>1, <3>2 DEF KeptOK, Sent
  <2> QED
    BY <2>1, <2>2, <2>3, <2>4, <2>5, LooksKept, LandedKept, EachCall DEF Moves
<1> QED
  BY <1>1 DEF CallsKept

(***************************************************************************)
(* What lands is made of what was read: the id the client derived digests  *)
(* the id and the time of each record read.                                *)
(***************************************************************************)

\* The id and the time of a live record tell which record it is.
LEMMA SameRecord ==
    ASSUME Past, NEW id, Live(ledger, id), NEW q \in born, IdOf(q) = id,
           q.created_at = ledger.hash[id].created_at
    PROVE  BankOf(ledger, id) = <<q>>
<1> DEFINE now == SnapshotOf(ledger.hash[id])
<1>1. id \in DOMAIN ledger.hash /\ now \in born
  BY PastIsLedgerOK DEF Live
<1>2. IdOf(ledger.hash[id]) = id
  BY <1>1, PastIsLedgerOK DEF LedgerOK, RecordsOK
<1>3. /\ IdOf(now) = id /\ now = SnapshotOf(now)
      /\ now.created_at = ledger.hash[id].created_at
  BY <1>2 DEF SnapshotOf, IdOf
<1> HIDE DEF now
<1>4. Genuine(now, born, clock) /\ Genuine(q, born, clock) /\ clock \in Nat
  BY <1>1, InvIsLedgerOK DEF Past, HistoryOK
<1>5. q.source = now.source
  BY <1>3, <1>4, SameIdSameSource
<1>6. q.hash = now.hash
  BY <1>3 DEF IdOf, CanonicalId
<1>7. q = now
  BY <1>3, <1>5, <1>6, PastIsShaped DEF BornShaped, SnapshotOf
<1> QED
  BY <1>7 DEF BankOf, now

LEMMA LandingReads ==
    ASSUME Past, CallsTyped, NEW u \in Callers, Land(u)
    PROVE  LET ask == call[u].ask
               read == call[u].read
           IN  IF ask.kind = "Account" THEN version[ask.of[1]] = read[1]
               ELSE \A k \in DOMAIN read : BankOf(ledger, ask.of[k]) = <<read[k]>>
<1> DEFINE c == call[u]
           ask == c.ask
           read == c.read
           node == c.node
<1>1. /\ AskOK(ask) /\ ReadOK(ask, read, born) /\ DOMAIN read = DOMAIN ask.of
      /\ node = Expected(ask, read)
  BY LandMoves DEF SentOK
<1>2. NodeId(node) = IdOf(FromLive(ask))
  BY LandedMakes
<1>3. ask.kind \in {"Branch", "Batch", "Pack"} =>
         \A k \in DOMAIN ask.of : Live(ledger, ask.of[k])
  BY LandedMakes
<1> HIDE DEF c, ask, read, node
<1>4. node.hash = FromLive(ask).hash
  BY <1>2 DEF NodeId, CanonicalHashId, IdOf, CanonicalId
<1>5. ASSUME ask.kind # "Account", NEW k \in DOMAIN read,
             read[k].created_at = ledger.hash[ask.of[k]].created_at
      PROVE  BankOf(ledger, ask.of[k]) = <<read[k]>>
  <2>1. read[k] \in born /\ IdOf(read[k]) = ask.of[k]
    BY <1>1, <1>5 DEF ReadOK
  <2>2. ask.kind # "Register"
    BY <1>1, <1>5 DEF AskOK
  <2>3. Live(ledger, ask.of[k])
    BY <1>1, <1>3, <1>5, <2>2 DEF AskOK
  <2> QED
    BY <1>5, <2>1, <2>3, SameRecord
<1>6. CASE ask.kind = "Register"
  <2>1. DOMAIN read = {}
    BY <1>1, <1>6 DEF AskOK
  <2> QED
    BY <1>6, <2>1 DEF ask, read, c
<1>7. CASE ask.kind = "Account"
  <2>1. node.hash[3] = read[1]
    BY <1>1, <1>7 DEF Expected, AccountNode, Pending, DeriveAccountMetadataHash
  <2>2. FromLive(ask).hash[3] = version[ask.of[1]]
    BY <1>7 DEF FromLive, Now, MetadataDigest
  <2>3. version[ask.of[1]] = read[1]
    BY <1>4, <2>1, <2>2
  <2> QED
    BY <1>7, <2>3 DEF ask, read, c
<1>8. CASE ask.kind = "Branch"
  <2> DEFINE s == SnapshotOf(ledger.hash[ask.of[1]])
  <2>1. node.hash[4] = read[1].created_at
    BY <1>1, <1>8 DEF Expected, BranchNode, ParentMetadata, Pending, DeriveBranchHash
  <2>2. FromLive(ask).hash[4] = s.created_at
    BY <1>8 DEF FromLive, Child, Now, BranchHash, BranchDigest
  <2>3. read[1].created_at = ledger.hash[ask.of[1]].created_at
    BY <1>4, <2>1, <2>2 DEF SnapshotOf
  <2>4. DOMAIN read = {1}
    BY <1>1, <1>8 DEF AskOK
  <2>5. \A k \in DOMAIN read : BankOf(ledger, ask.of[k]) = <<read[k]>>
    BY <1>5, <1>8, <2>3, <2>4
  <2> QED
    BY <1>8, <2>5 DEF ask, read, c
<1>9. CASE ask.kind \in {"Batch", "Pack"}
  <2> DEFINE list == [k \in DOMAIN ask.of |-> read[k]]
             live == MemberSnapshots(ask.of)
  <2>1. node.hash = AggregateHashOf(list)
    BY <1>1, <1>9 DEF Expected, BatchNode, PackNode, Pending
  <2>2. FromLive(ask).hash = MembersHash(live)
    BY <1>9 DEF FromLive, Now
  <2>3. [k \in DOMAIN list |-> AggregateMember(list[k])]
           = [k \in DOMAIN live |-> Fingerprint(live[k])]
    <3> HIDE DEF list, live
    <3>1. /\ AggregateHashOf(list)[2] = [k \in DOMAIN list |-> AggregateMember(list[k])]
          /\ MembersHash(live)[2] = [k \in DOMAIN live |-> Fingerprint(live[k])]
      BY DEF AggregateHashOf, AggregateHashDigest, MembersHash, MembersDigest
    <3> QED
      BY <1>4, <2>1, <2>2, <3>1
  <2>4. DOMAIN list = DOMAIN ask.of /\ DOMAIN live = DOMAIN ask.of
    BY DEF MemberSnapshots
  <2>5. ASSUME NEW k \in DOMAIN ask.of
        PROVE  AggregateMember(list[k]) = Fingerprint(live[k])
    <3> DEFINE f == [m \in DOMAIN list |-> AggregateMember(list[m])]
               g == [m \in DOMAIN live |-> Fingerprint(live[m])]
    <3>1. f = g /\ f[k] = AggregateMember(list[k]) /\ g[k] = Fingerprint(live[k])
      <4> HIDE DEF list, live
      <4> QED
        BY <2>3, <2>4
    <3> QED
      BY <3>1
  <2>6. ASSUME NEW k \in DOMAIN read
        PROVE  read[k].created_at = ledger.hash[ask.of[k]].created_at
    <3>1. list[k] = read[k] /\ live[k] = SnapshotOf(ledger.hash[ask.of[k]])
      BY <1>1 DEF MemberSnapshots
    <3>2. AggregateMember(read[k]) = Fingerprint(SnapshotOf(ledger.hash[ask.of[k]]))
      <4> HIDE DEF list, live
      <4> QED
        BY <1>1, <2>5, <3>1
    <3>3. /\ AggregateMember(read[k]).created_at = read[k].created_at
          /\ Fingerprint(SnapshotOf(ledger.hash[ask.of[k]])).created_at
                = ledger.hash[ask.of[k]].created_at
      BY DEF AggregateMember, Fingerprint, SnapshotOf
    <3> QED
      BY <3>2, <3>3
  <2>7. \A k \in DOMAIN read : BankOf(ledger, ask.of[k]) = <<read[k]>>
    BY <1>5, <1>9, <2>6
  <2> QED
    BY <1>9, <2>7 DEF ask, read, c
<1> QED
  BY <1>1, <1>6, <1>7, <1>8, <1>9 DEF AskOK

\* Only the transaction of a call makes it one that landed.
LEMMA OnlyLandLands ==
    ASSUME CallsTyped, [CaptureNext]_captureVars, NEW u \in Callers,
           call[u].phase = "sent", call'[u].phase = "sent",
           call[u].landed = {}, call'[u].landed # {}
    PROVE  Land(u)
<1>1. ~Unmoved(u)
  BY DEF Unmoved
<1>2. ~Ends(u)
  BY DEF Ends, NoCall
<1>3. ~Looks(u)
  <2>1. ASSUME Looks(u) PROVE call'[u].landed = call[u].landed
    <3> DEFINE c == call[u]
               d == call'[u]
               bank == BankOf(ledger', NodeId(c.node))
               kept == c.kept /\ (c.landed # {} =>
                                     <<NodeId(c.node), u>> \in DOMAIN ledger'.vote)
               fresh == IF c.landed # {} THEN c.fresh \cup {bank} ELSE {}
    <3>1. SentOK(c, born)
      BY SentCall DEF CallsTyped, Sent
    <3>2. d = [phase |-> c.phase, ask |-> c.ask, read |-> c.read, node |-> c.node,
               landed |-> c.landed, kept |-> kept, banks |-> c.banks \cup {bank},
               fresh |-> fresh]
      BY <2>1, <3>1, WatchedCall, Zenon DEF Looks
    <3>3. d.landed = c.landed
      <4> HIDE DEF c, d, bank, kept, fresh
      <4> QED
        BY <3>2
    <3> QED
      BY <3>3
  <2> QED
    BY <2>1
<1>4. ~(\E ask \in Asks : Ask(u, ask)) /\ ~Read(u) /\ ~Submit(u) /\ ~ReadBack(u)
  BY DEF Ask, NoCall, Read, Submit, ReadBack
<1>5. ~Confirm(u)
  <2>1. ASSUME Confirm(u) PROVE call'[u].phase = "confirmed"
    BY <2>1, ConfirmMoves
  <2> QED
    BY <2>1
<1> QED
  BY <1>1, <1>2, <1>3, <1>4, <1>5, EachCall DEF Moves

(***************************************************************************)
(* The theorems.                                                           *)
(***************************************************************************)
CaptureInv == Past /\ CallsTyped /\ CapturesGenuine /\ CallsKept

LEMMA CaptureStarts == CaptureInit => CaptureInv
<1> SUFFICES ASSUME CaptureInit PROVE CaptureInv
  OBVIOUS
<1>1. Past
  <2>1. Init
    BY DEF CaptureInit
  <2>2. BornOK
    BY <2>1 DEF Init, BornOK
  <2> QED
    BY <2>1, <2>2, InitInv, InitHistory DEF Past
<1>2. CallsTyped /\ CapturesGenuine
  BY DEF CaptureInit, CallsTyped, CallOK, CapturesGenuine
<1>3. CallsKept
  BY DEF CaptureInit, CallsKept, KeptOK, NoCall, Sent
<1> QED
  BY <1>1, <1>2, <1>3 DEF CaptureInv

LEMMA CaptureStepKeeps ==
    ASSUME CaptureInv, [CaptureNext]_captureVars PROVE CaptureInv'
<1>1. Past /\ CallsTyped /\ CapturesGenuine /\ CallsKept /\ BornShaped
  BY PastIsShaped DEF CaptureInv
<1>2. Past' /\ born \subseteq born' /\ Unreplaced(ledger, ledger')
  BY <1>1, CaptureStepIsStep, StepKeepsPast
<1>3. CallsTyped'
  BY <1>1, <1>2, StepKeepsCalls
<1>4. CapturesGenuine'
  BY <1>1, <1>2, StepHandsOutHistory
<1>5. CallsKept'
  BY <1>1, <1>2, StepKeepsKept
<1> QED
  BY <1>2, <1>3, <1>4, <1>5 DEF CaptureInv

LEMMA CallsInOrder == CaptureSpec => []CaptureInv
BY CaptureStarts, CaptureStepKeeps, PTL DEF CaptureSpec

\* Every archive a capture hands out is of a record that was created with
\* that hash, source and timestamp, from what its witness says, however
\* stale the reads and whoever closed and made records again meanwhile
\* (sdk/client.ts, captureCreatedArchive).
THEOREM ArchivesAreHistory == CaptureSpec => []CapturesGenuine
<1>1. CaptureInv => CapturesGenuine
  BY DEF CaptureInv
<1> QED
  BY <1>1, CallsInOrder, PTL

\* A caller who keeps the initial vote until the capture is given the record
\* of their own transaction: the vote keeps the record open, and the record
\* keeps its address from every later incarnation.
THEOREM KeptVotesCapture == CaptureSpec => KeptVoteCapturesOwn
<1>1. ASSUME CaptureInv, [CaptureNext]_captureVars
      PROVE  [\A u \in Callers : \A n \in captured'[u] \ captured[u] :
                 call[u].kept => SnapshotOf(n) \in call[u].landed]_captureVars
  <2> SUFFICES ASSUME NEW u \in Callers, NEW n \in captured'[u] \ captured[u], call[u].kept
               PROVE  SnapshotOf(n) \in call[u].landed
    OBVIOUS
  <2>1. CallsTyped /\ CallsKept /\ BornShaped
    BY <1>1, PastIsShaped DEF CaptureInv
  <2>2. ReadBack(u)
    <3>1. captured'[u] # captured[u]
      OBVIOUS
    <3> QED
      BY <1>1, <2>1, <3>1, EachCall
         DEF Unmoved, Looks, Ends, Moves, Ask, Read, Submit, Land, Confirm
  <2>3. /\ call[u].phase = "confirmed" /\ <<SnapshotOf(n)>> \in call[u].banks
    BY <2>1, <2>2, ReadBackHands
  <2>4. OfOwn(call[u].banks, call[u].landed)
    BY <2>1, <2>3 DEF CallsKept, KeptOK, Sent
  <2> QED
    BY <2>3, <2>4 DEF OfOwn
<1> QED
  BY <1>1, CallsInOrder, PTL DEF CaptureSpec, KeptVoteCapturesOwn

\* When the transaction of a call lands, everything its record derives from
\* is as the call read it: what changed in between, or was closed and made
\* again, changes the address the record may be created at.
THEOREM DerivedFromWhatWasRead == CaptureSpec => LandsAsRead
<1>1. ASSUME CaptureInv, [CaptureNext]_captureVars
      PROVE  [\A u \in Callers :
                 call[u].phase = "sent" /\ call'[u].phase = "sent"
                 /\ call[u].landed = {} /\ call'[u].landed # {} =>
                     IF call[u].ask.kind = "Account"
                     THEN version[call[u].ask.of[1]] = call[u].read[1]
                     ELSE \A k \in DOMAIN call[u].read :
                             BankOf(ledger, call[u].ask.of[k])
                                = <<call[u].read[k]>>]_captureVars
  <2> SUFFICES ASSUME NEW u \in Callers,
                      call[u].phase = "sent", call'[u].phase = "sent",
                      call[u].landed = {}, call'[u].landed # {}
               PROVE  IF call[u].ask.kind = "Account"
                      THEN version[call[u].ask.of[1]] = call[u].read[1]
                      ELSE \A k \in DOMAIN call[u].read :
                              BankOf(ledger, call[u].ask.of[k]) = <<call[u].read[k]>>
    OBVIOUS
  <2>1. Past /\ CallsTyped
    BY <1>1 DEF CaptureInv
  <2>2. Land(u)
    BY <1>1, <2>1, OnlyLandLands
  <2> QED
    BY <2>1, <2>2, LandingReads
<1> QED
  BY <1>1, CallsInOrder, PTL DEF CaptureSpec, LandsAsRead
=============================================================================
