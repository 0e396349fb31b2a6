-------------------------- MODULE ReceiptLogProofs --------------------------
(***************************************************************************)
(* What ReceiptLog guarantees for every commit interval and any number of  *)
(* receipts, failures and restarts: types, the whole history under every   *)
(* root while the file is intact, and that the log with its contract       *)
(* implements AnchoredHistory whatever happens to the file.                *)
(***************************************************************************)
EXTENDS ReceiptLog, FiniteSetTheorems, SequenceTheorems, TLAPS

USE DEF LogConstants

\* A set of issued receipts has a natural number of members.
LEMMA CountIsNat ==
    ASSUME NEW n \in Nat, NEW r \in SUBSET (1..n)
    PROVE  Cardinality(r) \in Nat
<1>1. IsFiniteSet(1..n)
  BY FS_Interval
<1>2. IsFiniteSet(r)
  BY <1>1, FS_Subset
<1> QED
  BY <1>2, FS_CardinalityType

\* The receipts issued so far are as many as the last one's number.
LEMMA CountOfHistory ==
    ASSUME NEW n \in Nat
    PROVE  Cardinality(1..n) = n
BY FS_Interval

\* A commit of issued receipts stays one as more are issued.
LEMMA CommitsGrow ==
    ASSUME issued \in Nat, issued' \in Nat, issued <= issued'
    PROVE  Commits \subseteq Commits'
BY DEF Commits

\* The fields of a commit.
LEMMA CommitFields ==
    ASSUME issued \in Nat, NEW c \in Commits
    PROVE  c.root \subseteq 1..issued /\ c.count = Cardinality(c.root) /\ c.count \in Nat
<1>1. PICK r \in SUBSET (1..issued) : c = [root |-> r, count |-> Cardinality(r)]
  BY DEF Commits
<1>2. Cardinality(r) \in Nat
  BY CountIsNat
<1> QED
  BY <1>1, <1>2

\* commit() finds a count on the chain, or none.
LEMMA LatestCountIsNat ==
    ASSUME LogTypeOK
    PROVE  LatestCount \in Nat
<1>1. CASE commitments = <<>>
  BY <1>1 DEF LatestCount
<1>2. CASE commitments # <<>>
  <2>1. commitments[Len(commitments)] \in Commits
    BY <1>2, LenProperties, ElementOfSeq, EmptySeq DEF LogTypeOK
  <2> QED
    BY <1>2, <2>1, CommitFields DEF LatestCount, LogTypeOK
<1> QED
  BY <1>1, <1>2

\* What a process may have sent is a sequence of commits.
LEMMA MaySendTypes ==
    ASSUME LogTypeOK, MaySend
    PROVE  pending' \in Seq(Commits)
<1>1. \/ pending' = pending
      \/ pending' = Append(pending, call)
  BY DEF MaySend
<1>2. pending \in Seq(Commits) /\ call \in Commits
  BY DEF LogTypeOK
<1>3. Append(pending, call) \in Seq(Commits)
  BY ONLY <1>2, AppendProperties
<1> QED
  BY ONLY <1>1, <1>2, <1>3

\* A first start has nothing anywhere.
LEMMA LogInitTypes == LogInit => LogTypeOK
<1> SUFFICES ASSUME LogInit PROVE LogTypeOK
  OBVIOUS
<1>1. NoCall \in Commits
  <2>1. Cardinality({}) = 0
    BY FS_EmptySet
  <2> QED
    BY <2>1 DEF LogInit, NoCall, Commits
<1> QED
  BY <1>1, EmptySeq DEF LogInit, LogTypeOK, NoCall

\* publishReceipt keeps the types: the new receipt is the last issued.
LEMMA PublishTypes ==
    ASSUME LogTypeOK, PublishReceipt
    PROVE  LogTypeOK'
<1>1. issued' \in Nat /\ issued' = issued + 1
  BY DEF LogTypeOK, PublishReceipt
<1>2. leaves' \subseteq 1..issued'
  BY <1>1 DEF LogTypeOK, PublishReceipt
<1>3. file' \subseteq 1..issued' /\ tail' \in 0..issued' /\ torn' \in Nat /\ intact' \in BOOLEAN
      /\ failed' \in Nat
  <2>1. CASE WrittenWhole(issued + 1)
    BY <1>1, <2>1 DEF LogTypeOK, WrittenWhole
  <2>2. CASE WrittenTorn(issued + 1)
    <3>0. torn \in Nat /\ failed \in Nat
      BY DEF LogTypeOK
    <3>a. torn' = torn + 1 /\ failed' = failed + 1
      BY <2>2, Zenon DEF WrittenTorn, Fail
    <3>b. intact' \in BOOLEAN
      BY <2>2, Zenon DEF WrittenTorn
    <3>1. torn' \in Nat /\ intact' \in BOOLEAN /\ failed' \in Nat
      BY <3>0, <3>a, <3>b
    <3>2. issued \in Nat /\ file \subseteq 1..issued /\ tail \in 0..issued
      BY DEF LogTypeOK
    <3>3. CASE UNCHANGED <<file, tail>>
      BY <1>1, <3>1, <3>2, <3>3
    <3>4. CASE file' = file \ {tail} /\ tail' = issued + 1
      BY <1>1, <3>1, <3>2, <3>4
    <3>5. CASE file' = file \cup {issued + 1} /\ tail' = issued + 1
      BY <1>1, <3>1, <3>2, <3>5
    <3> QED
      BY <2>2, <3>3, <3>4, <3>5 DEF WrittenTorn
  <2> QED
    BY <2>1, <2>2 DEF PublishReceipt
<1>4. Commits \subseteq Commits'
  BY <1>1, CommitsGrow DEF LogTypeOK
<1>5. call' \in Commits'
  <2>1. CommitCall(leaves') \in Commits'
    BY <1>2 DEF CommitCall, Commits
  <2> QED
    BY <1>4, <2>1 DEF LogTypeOK, PublishReceipt, MaybeCommit
<1>6. pending' \in Seq(Commits') /\ commitments' \in Seq(Commits')
  BY <1>4, SeqMonotonic DEF LogTypeOK, PublishReceipt, onChain
<1> QED
  BY <1>1, <1>2, <1>3, <1>5, <1>6 DEF LogTypeOK, PublishReceipt, onChain

\* Every step keeps the types.
LEMMA LogTypeStep == LogTypeOK /\ [LogNext]_logVars => LogTypeOK'
<1> SUFFICES ASSUME LogTypeOK, [LogNext]_logVars PROVE LogTypeOK'
  OBVIOUS
<1> USE DEF LogTypeOK, onDisk, inMemory, onChain
<1>1. CASE PublishReceipt
  BY <1>1, PublishTypes
<1>0. ASSUME UNCHANGED issued PROVE Commits' = Commits
  BY <1>0 DEF Commits
<1>n. ASSUME UNCHANGED issued PROVE NoCall \in Commits'
  BY <1>n, FS_EmptySet DEF Commits, NoCall
<1>2. CASE CommitSubmitted
  <2>1. Committed(call) \in Nat
    BY CommitFields DEF Committed, Commits
  <2>2. pending' \in Seq(Commits) /\ lastCommittedCount' \in Nat
    <3>1. Append(pending, call) \in Seq(Commits)
      BY AppendProperties
    <3>2. \/ pending' = Append(pending, call) /\ lastCommittedCount' = Committed(call)
          \/ pending' = pending /\ lastCommittedCount' = lastCommittedCount
      BY <1>2 DEF CommitSubmitted
    <3> QED
      BY <2>1, <3>1, <3>2
  <2>3. call' \in Commits
    BY <1>0, <1>n, <1>2 DEF CommitSubmitted
  <2>4. UNCHANGED <<issued, onDisk, leaves, sync, boot, commitments, keyIsAuctioneer, intact, failed>>
    BY <1>2 DEF CommitSubmitted
  <2> QED
    BY <1>0, <2>2, <2>3, <2>4
<1>3. CASE CommitFails
  BY <1>0, <1>n, <1>3, MaySendTypes DEF CommitFails, Fail
<1>4. CASE CommitLands
  <2>1. Head(pending) \in Commits /\ Tail(pending) \in Seq(Commits)
    BY <1>4, HeadTailProperties DEF CommitLands
  <2>2. commitments' \in Seq(Commits)
    BY <1>4, <2>1, AppendProperties DEF CommitLands
  <2> QED
    BY <1>0, <1>4, <2>1, <2>2 DEF CommitLands
<1>5. CASE KeyRevoked
  BY <1>0, <1>5 DEF KeyRevoked
<1>6. CASE SyncReads
  <2>1. sync' \in [stage: {"reading", "arriving", "done"}, count: Nat]
    BY <1>6, LatestCountIsNat DEF SyncReads, Synced
  <2> QED
    BY <1>0, <1>6, <2>1 DEF SyncReads
<1>7. CASE SyncArrives
  BY <1>0, <1>7 DEF SyncArrives, Synced
<1>8. CASE SyncFails
  BY <1>0, <1>8 DEF SyncFails, Synced, Fail
<1>9. CASE Restart
  <2>1. leaves' \subseteq 1..issued /\ boot' \in {"restored", "unread"} /\ intact' \in BOOLEAN
    BY <1>9 DEF Restart, Hydrated
  <2>2. pending' \in Seq(Commits)
    BY <1>9, MaySendTypes DEF Restart
  <2> QED
    BY <1>0, <1>n, <1>9, <2>1, <2>2 DEF Restart, Fail
<1>10. CASE UNCHANGED logVars
  BY <1>0, <1>10 DEF logVars
<1> QED
  BY <1>1, <1>2, <1>3, <1>4, <1>5, <1>6, <1>7, <1>8, <1>9, <1>10 DEF LogNext

\* The log's state keeps its types; a commit always carries the number of its receipts.
THEOREM LogTypes == LogSpec => []LogTypeOK
<1>1. LogInit => LogTypeOK
  BY LogInitTypes
<1>2. LogTypeOK /\ [LogNext]_logVars => LogTypeOK'
  BY LogTypeStep
<1> QED
  BY <1>1, <1>2, PTL DEF LogSpec

-----------------------------------------------------------------------------

\* A root over everything up to its count.
FullRoot(c) == c.root = 1..c.count

\* While the file was always written and read, memory and file hold the whole history,
\* and so does every commit on its way.
WholeEverywhere ==
    intact =>
        /\ leaves = 1..issued
        /\ file = 1..issued
        /\ tail = 0
        /\ FullRoot(call)
        /\ \A i \in DOMAIN pending : FullRoot(pending[i])
        /\ \A i \in DOMAIN commitments : FullRoot(commitments[i])

\* Appending keeps what every member has.
LEMMA AppendAll ==
    ASSUME NEW S, NEW s \in Seq(S), NEW c \in S, FullRoot(c),
           \A i \in DOMAIN s : FullRoot(s[i])
    PROVE  \A i \in DOMAIN Append(s, c) : FullRoot(Append(s, c)[i])
<1> SUFFICES ASSUME NEW i \in DOMAIN Append(s, c) PROVE FullRoot(Append(s, c)[i])
  OBVIOUS
<1>1. Append(s, c) \in Seq(S) /\ Len(Append(s, c)) = Len(s) + 1
      /\ \A j \in 1..Len(s) : Append(s, c)[j] = s[j]
      /\ Append(s, c)[Len(s) + 1] = c
  BY AppendProperties
<1>2. i \in 1..Len(s) + 1 /\ DOMAIN s = 1..Len(s) /\ Len(s) \in Nat
  BY <1>1, LenProperties
<1>3. CASE i = Len(s) + 1
  BY <1>1, <1>3
<1>4. CASE i # Len(s) + 1
  <2>1. i \in 1..Len(s)
    BY <1>2, <1>4
  <2> QED
    BY <1>1, <1>2, <2>1
<1> QED
  BY <1>3, <1>4

\* What the process may have sent is over the whole history, if what it was sending is.
LEMMA MaySendWhole ==
    ASSUME LogTypeOK, WholeEverywhere, MaySend, intact
    PROVE  \A i \in DOMAIN pending' : FullRoot(pending'[i])
<1>1. \/ pending' = pending
      \/ pending' = Append(pending, call)
  BY DEF MaySend
<1> QED
  BY <1>1, AppendAll DEF LogTypeOK, WholeEverywhere

\* A commit that has nothing to send is over nothing.
LEMMA NoCallIsFull == FullRoot(NoCall)
BY DEF FullRoot, NoCall

\* A receipt that is written whole extends the whole history, and a commit of it is full.
LEMMA PublishWhole ==
    ASSUME LogTypeOK, WholeEverywhere, PublishReceipt, intact'
    PROVE  WholeEverywhere'
<1>1. WrittenWhole(issued + 1) /\ intact
  BY DEF PublishReceipt, WrittenWhole, WrittenTorn
<1>2. issued \in Nat /\ issued' = issued + 1
  BY DEF LogTypeOK, PublishReceipt
<1>3. leaves' = 1..issued' /\ file' = 1..issued' /\ tail' = 0
  BY <1>1, <1>2 DEF WholeEverywhere, PublishReceipt, WrittenWhole
<1>4. FullRoot(call')
  <2>1. Cardinality(1..issued') = issued'
    BY <1>2, CountOfHistory
  <2>2. FullRoot(CommitCall(leaves'))
    BY <1>3, <2>1 DEF FullRoot, CommitCall
  <2> QED
    BY <1>1, <2>2 DEF WholeEverywhere, PublishReceipt, MaybeCommit
<1> QED
  BY <1>1, <1>3, <1>4 DEF WholeEverywhere, PublishReceipt, onChain

\* Every step keeps the whole history everywhere, unless the file is damaged in it.
LEMMA WholeStep == LogTypeOK /\ WholeEverywhere /\ [LogNext]_logVars => WholeEverywhere'
<1> SUFFICES ASSUME LogTypeOK, WholeEverywhere, [LogNext]_logVars, intact'
             PROVE  WholeEverywhere'
  BY DEF WholeEverywhere
<1>0. intact
  BY DEF LogNext, logVars, onDisk, inMemory, onChain, PublishReceipt, WrittenWhole, WrittenTorn,
         CommitSubmitted, CommitFails, CommitLands, KeyRevoked, SyncReads, SyncArrives,
         SyncFails, Restart
<1> USE DEF WholeEverywhere, onDisk, inMemory, onChain
<1>1. CASE PublishReceipt
  BY <1>1, PublishWhole
<1>2. CASE CommitSubmitted
  <2>1. \A i \in DOMAIN pending' : FullRoot(pending'[i])
    BY <1>0, <1>2, AppendAll DEF CommitSubmitted, LogTypeOK
  <2> QED
    BY <1>0, <1>2, <2>1, NoCallIsFull DEF CommitSubmitted
<1>3. CASE CommitFails
  BY <1>0, <1>3, MaySendWhole, NoCallIsFull DEF CommitFails
<1>4. CASE CommitLands
  <2>1. pending \in Seq(Commits) /\ pending # <<>>
    BY <1>4 DEF CommitLands, LogTypeOK
  <2>2. Head(pending) \in Commits /\ Tail(pending) \in Seq(Commits)
        /\ Len(Tail(pending)) = Len(pending) - 1
        /\ \A i \in 1..Len(Tail(pending)) : Tail(pending)[i] = pending[i + 1]
        /\ Head(pending) = pending[1]
    BY <2>1, HeadTailProperties
  <2>3. Len(pending) \in Nat \ {0} /\ DOMAIN pending = 1..Len(pending)
    BY <2>1, LenProperties, EmptySeq
  <2>4. FullRoot(Head(pending))
    BY <1>0, <2>2, <2>3
  <2>5. \A i \in DOMAIN Tail(pending) : FullRoot(Tail(pending)[i])
    <3>1. DOMAIN Tail(pending) = 1..Len(Tail(pending))
      BY <2>2, LenProperties
    <3>2. \A i \in 1..Len(Tail(pending)) : i + 1 \in DOMAIN pending
      BY <2>2, <2>3
    <3> QED
      BY <1>0, <2>2, <3>1, <3>2
  <2>6. \A i \in DOMAIN commitments' : FullRoot(commitments'[i])
    BY <1>0, <1>4, <2>2, <2>4, AppendAll DEF CommitLands, LogTypeOK
  <2> QED
    BY <1>0, <1>4, <2>5, <2>6 DEF CommitLands
<1>5. CASE KeyRevoked
  BY <1>0, <1>5 DEF KeyRevoked
<1>6. CASE SyncReads
  BY <1>0, <1>6 DEF SyncReads
<1>7. CASE SyncArrives
  BY <1>0, <1>7 DEF SyncArrives
<1>8. CASE SyncFails
  BY <1>0, <1>8 DEF SyncFails
<1>9. CASE Restart
  <2>1. leaves' = file
    BY <1>9 DEF Restart, Hydrated
  <2> QED
    BY <1>0, <1>9, <2>1, MaySendWhole, NoCallIsFull DEF Restart
<1>10. CASE UNCHANGED logVars
  BY <1>0, <1>10 DEF logVars
<1> QED
  BY <1>1, <1>2, <1>3, <1>4, <1>5, <1>6, <1>7, <1>8, <1>9, <1>10 DEF LogNext

\* As long as the file was always written and read, every commitment fixes the whole
\* history up to its count.
THEOREM WholeHistoryAnchored == LogSpec => []WholeHistory
<1>1. LogInit => WholeEverywhere
  BY NoCallIsFull DEF LogInit, WholeEverywhere
<1>2. LogTypeOK /\ WholeEverywhere /\ [LogNext]_logVars => WholeEverywhere'
  BY WholeStep
<1>3. WholeEverywhere => WholeHistory
  BY DEF WholeEverywhere, WholeHistory, FullRoot
<1> QED
  BY <1>1, <1>2, <1>3, LogTypes, PTL DEF LogSpec

-----------------------------------------------------------------------------

\* Every step issues one receipt, adds one correctly counted commitment, or neither.
LEMMA HistoryStep ==
    LogTypeOK /\ [LogNext]_logVars => [History!HistoryNext]_(History!historyVars)
<1> SUFFICES ASSUME LogTypeOK, [LogNext]_logVars
             PROVE  History!HistoryNext \/ UNCHANGED <<issued, commitments>>
  BY DEF History!historyVars
<1>1. CASE PublishReceipt
  BY <1>1 DEF PublishReceipt, onChain, History!HistoryNext, History!Issue
<1>2. CASE CommitLands
  <2>1. CASE ~Committable(Head(pending))
    BY <1>2, <2>1 DEF CommitLands
  <2>2. CASE Committable(Head(pending))
    <3> DEFINE c == Head(pending)
    <3>1. c \in Commits
      BY <1>2, HeadTailProperties DEF CommitLands, LogTypeOK
    <3>2. PICK r \in SUBSET (1..issued) : c = [root |-> r, count |-> Cardinality(r)]
      BY <3>1 DEF Commits
    <3>n. History!Cardinality(r) = Cardinality(r)
      BY DEF Cardinality, History!Cardinality
    <3>3. History!Cardinality(r) >= History!LatestCount
      BY <2>2, <3>2, <3>n DEF Committable, LatestCount, History!LatestCount
    <3>4. commitments' = Append(commitments, [root |-> r, count |-> History!Cardinality(r)])
      BY <1>2, <2>2, <3>2, <3>n DEF CommitLands
    <3>5. issued' = issued
      BY <1>2 DEF CommitLands
    <3> QED
      BY <3>3, <3>4, <3>5 DEF History!HistoryNext, History!Anchor
  <2> QED
    BY <2>1, <2>2
<1>3. CASE CommitSubmitted
  BY <1>3 DEF CommitSubmitted
<1>4. CASE CommitFails
  BY <1>4 DEF CommitFails
<1>5. CASE KeyRevoked
  BY <1>5 DEF KeyRevoked
<1>6. CASE SyncReads \/ SyncArrives \/ SyncFails
  BY <1>6 DEF SyncReads, SyncArrives, SyncFails, onChain
<1>7. CASE Restart
  BY <1>7 DEF Restart
<1>8. CASE UNCHANGED logVars
  BY <1>8 DEF logVars, onChain
<1> QED
  BY <1>1, <1>2, <1>3, <1>4, <1>5, <1>6, <1>7, <1>8 DEF LogNext

\* The log with its contract implements AnchoredHistory, whatever is torn, lost, late
\* or restarted.
THEOREM LogKeepsHistory == LogSpec => KeepsHistory
<1>1. LogInit => History!HistoryInit
  BY DEF LogInit, History!HistoryInit
<1>2. LogTypeOK /\ [LogNext]_logVars => [History!HistoryNext]_(History!historyVars)
  BY HistoryStep
<1> QED
  BY <1>1, <1>2, LogTypes, PTL DEF LogSpec, KeepsHistory, History!HistorySpec

-----------------------------------------------------------------------------
(* What torn writes cost *)

\* What the line without a newline will still cost: the write that runs into it, and the
\* receipt on it if it could be read so far.
Owed == IF tail = 0 THEN 0 ELSE IF tail \in file THEN 2 ELSE 1

\* Every torn write has paid for the receipts that are missing, and for what is owed.
LossPaid ==
    /\ Cardinality((1..issued) \ file) + Owed <= 2 * torn
    /\ LossBounded

\* The receipts that are missing from a set of issued ones are finitely many.
LEMMA MissingIsFinite ==
    ASSUME NEW n \in Nat, NEW r
    PROVE  IsFiniteSet((1..n) \ r) /\ Cardinality((1..n) \ r) \in Nat
<1>1. IsFiniteSet(1..n)
  BY FS_Interval
<1>2. IsFiniteSet((1..n) \ r)
  BY <1>1, FS_Subset
<1> QED
  BY <1>2, FS_CardinalityType

\* The new receipt is missing from a set it was not added to, and from no other.
LEMMA OneMoreIssued ==
    ASSUME NEW n \in Nat, NEW r \in SUBSET (1..n)
    PROVE  /\ Cardinality((1..(n + 1)) \ r) = Cardinality((1..n) \ r) + 1
           /\ Cardinality((1..(n + 1)) \ (r \cup {n + 1})) = Cardinality((1..n) \ r)
<1>1. (1..(n + 1)) \ r = ((1..n) \ r) \cup {n + 1} /\ n + 1 \notin (1..n) \ r
  OBVIOUS
<1>2. (1..(n + 1)) \ (r \cup {n + 1}) = (1..n) \ r
  OBVIOUS
<1> QED
  BY <1>1, <1>2, MissingIsFinite, FS_AddElement

\* Dropping a receipt from the file makes at most that one more missing.
LEMMA OneDropped ==
    ASSUME NEW n \in Nat, NEW r \in SUBSET (1..n), NEW t \in 0..n
    PROVE  Cardinality((1..n) \ (r \ {t}))
             = Cardinality((1..n) \ r) + (IF t \in r THEN 1 ELSE 0)
<1>1. CASE t \in r
  <2>1. (1..n) \ (r \ {t}) = ((1..n) \ r) \cup {t} /\ t \notin (1..n) \ r
    BY <1>1
  <2> QED
    BY <1>1, <2>1, MissingIsFinite, FS_AddElement
<1>2. CASE t \notin r
  <2>1. r \ {t} = r
    BY <1>2
  <2>2. Cardinality((1..n) \ r) \in Nat
    BY MissingIsFinite
  <2> QED
    BY <1>2, <2>1, <2>2
<1> QED
  BY <1>1, <1>2

\* A write pays for what it makes unreadable.
LEMMA PublishPaid ==
    ASSUME LogTypeOK, LossPaid, PublishReceipt
    PROVE  LossPaid'
<1> DEFINE lost == Cardinality((1..issued) \ file)
           drop == IF tail \in file THEN 1 ELSE 0
           m == issued + 1
<1>0. /\ issued \in Nat /\ file \in SUBSET (1..issued) /\ tail \in 0..issued /\ torn \in Nat
      /\ leaves \in SUBSET (1..issued)
      /\ issued' = m /\ leaves' = leaves \cup {m} /\ boot' = boot
      /\ WrittenWhole(m) \/ WrittenTorn(m)
      /\ lost + Owed <= 2 * torn
  BY DEF LogTypeOK, LossPaid, PublishReceipt
<1>1. lost \in Nat /\ Owed \in Nat /\ (tail = 0 => Owed = 0) /\ (tail # 0 => Owed = 1 + drop)
      /\ m \notin file /\ 0 \notin file
  <2>1. lost \in Nat
    BY <1>0, MissingIsFinite
  <2>2. m \notin file /\ 0 \notin file
    BY <1>0
  <2> HIDE DEF lost, m
  <2> QED
    BY <2>1, <2>2 DEF Owed
<1>2. /\ Cardinality((1..m) \ file) = lost + 1
      /\ Cardinality((1..m) \ (file \cup {m})) = lost
      /\ Cardinality((1..m) \ (file \ {tail})) = lost + drop + 1
  <2>1. (file \ {tail}) \in SUBSET (1..issued)
    BY <1>0
  <2>2. Cardinality((1..issued) \ (file \ {tail})) = lost + drop
    BY <1>0, OneDropped
  <2> QED
    BY <1>0, <2>1, <2>2, OneMoreIssued
<1>3. Cardinality((1..m) \ leaves') = Cardinality((1..issued) \ leaves)
  BY <1>0, OneMoreIssued
<1> HIDE DEF lost, drop
<1>4. drop \in {0, 1}
  BY DEF drop
<1>5. torn' \in Nat /\ torn' >= torn
  BY <1>0 DEF WrittenWhole, WrittenTorn
<1>6. LossBounded'
  <2>1. Cardinality((1..issued) \ leaves) \in Nat
    BY <1>0, MissingIsFinite
  <2> QED
    BY <1>0, <1>3, <1>5, <2>1 DEF LossPaid, LossBounded
<1>7. CASE WrittenWhole(m)
  <2>1. torn' = torn /\ tail' = 0 /\ Owed' = 0
    BY <1>7 DEF WrittenWhole, Owed
  <2>2. CASE tail = 0
    <3>1. file' = file \cup {m}
      BY <1>7, <2>2 DEF WrittenWhole
    <3> QED
      BY <1>0, <1>1, <1>2, <1>6, <2>1, <2>2, <3>1 DEF LossPaid
  <2>3. CASE tail # 0
    <3>1. file' = file \ {tail}
      BY <1>7, <2>3 DEF WrittenWhole
    <3> QED
      BY <1>0, <1>1, <1>2, <1>4, <1>6, <2>1, <2>3, <3>1 DEF LossPaid
  <2> QED
    BY <2>2, <2>3
<1>8. CASE WrittenTorn(m)
  <2>1. torn' = torn + 1
    BY <1>8 DEF WrittenTorn
  <2>2. CASE UNCHANGED <<file, tail>>
    <3>1. Owed' = Owed
      BY <2>2 DEF Owed
    <3> QED
      BY <1>0, <1>1, <1>2, <1>6, <2>1, <2>2, <3>1 DEF LossPaid
  <2>3. CASE file' = file \ {tail} /\ tail' = m
    <3>1. Owed' = 1
      BY <1>0, <1>1, <2>3 DEF Owed
    <3>2. tail = 0 => drop = 0
      BY <1>1 DEF drop
    <3> QED
      BY <1>0, <1>1, <1>2, <1>4, <1>6, <2>1, <2>3, <3>1, <3>2 DEF LossPaid
  <2>4. CASE tail = 0 /\ file' = file \cup {m} /\ tail' = m
    <3>1. Owed' = 2
      BY <1>0, <2>4 DEF Owed
    <3> QED
      BY <1>0, <1>1, <1>2, <1>6, <2>1, <2>4, <3>1 DEF LossPaid
  <2> QED
    BY <1>8, <2>2, <2>3, <2>4 DEF WrittenTorn
<1> QED
  BY <1>0, <1>7, <1>8

\* Only a write changes the file, and a restart remembers what is in it.
LEMMA PaidStep == LogTypeOK /\ LossPaid /\ [LogNext]_logVars => LossPaid'
<1> SUFFICES ASSUME LogTypeOK, LossPaid, [LogNext]_logVars PROVE LossPaid'
  OBVIOUS
<1>1. CASE PublishReceipt
  BY <1>1, PublishPaid
<1>2. CASE Restart
  <2>1. /\ UNCHANGED <<issued, file, tail, torn>>
        /\ leaves' = file \/ boot' = "unread"
    BY <1>2 DEF Restart, Hydrated, onDisk
  <2>2. Owed' = Owed /\ Owed \in Nat /\ Cardinality((1..issued) \ file) \in Nat /\ torn \in Nat
    BY <2>1, MissingIsFinite DEF Owed, LogTypeOK
  <2>3. Cardinality((1..issued) \ file) <= 2 * torn
    BY <2>2 DEF LossPaid
  <2> QED
    BY <2>1, <2>2, <2>3 DEF LossPaid, LossBounded
<1>3. CASE UNCHANGED <<issued, file, tail, torn, leaves, boot>>
  BY <1>3 DEF LossPaid, LossBounded, Owed
<1> QED
  BY <1>1, <1>2, <1>3 DEF LogNext, logVars, onDisk, inMemory, CommitSubmitted, CommitFails,
     CommitLands, KeyRevoked, SyncReads, SyncArrives, SyncFails

\* A failed write costs at most two receipts at the next restart, however many writes fail,
\* in whatever way and in whatever order with whole ones: its own, and the one whose line
\* runs into the part that was written (hydrate skips unreadable lines).
THEOREM LossIsBounded == LogSpec => []LossBounded
<1>1. LogInit => LossPaid
  <2> SUFFICES ASSUME LogInit PROVE LossPaid
    OBVIOUS
  <2>1. (1..issued) \ file = {} /\ (1..issued) \ leaves = {} /\ tail = 0 /\ torn = 0
    BY DEF LogInit
  <2>2. Cardinality((1..issued) \ file) = 0 /\ Cardinality((1..issued) \ leaves) = 0
    BY <2>1, FS_EmptySet
  <2>3. Owed = 0 /\ 2 * torn = 0
    BY <2>1 DEF Owed
  <2> QED
    BY <2>2, <2>3 DEF LossPaid, LossBounded
<1>2. LogTypeOK /\ LossPaid /\ [LogNext]_logVars => LossPaid'
  BY PaidStep
<1>3. LossPaid => LossBounded
  BY DEF LossPaid
<1> QED
  BY <1>1, <1>2, <1>3, LogTypes, PTL DEF LogSpec

-----------------------------------------------------------------------------
(* What is called anchored *)

\* A commitment, or a commit on its way, counts n receipts or more.
Committing(n) ==
    \/ n = 0
    \/ \E i \in DOMAIN commitments : commitments[i].count >= n
    \/ \E i \in DOMAIN pending : pending[i].count >= n

\* While the key commits, what the process takes for anchored was sent, and what it read
\* from the chain is on the chain.
AnchoredIsSent ==
    /\ keyIsAuctioneer => Committing(lastCommittedCount)
    /\ sync.stage = "arriving" => \E i \in DOMAIN commitments : commitments[i].count >= sync.count

\* What was sent or committed stays so when more is sent.
LEMMA StillCommitting ==
    ASSUME LogTypeOK, NEW n \in Nat, Committing(n), UNCHANGED commitments,
           pending' = pending \/ pending' = Append(pending, call)
    PROVE  Committing(n)'
<1>1. CASE pending' = pending
  BY <1>1 DEF Committing
<1>2. CASE pending' = Append(pending, call)
  <2>1. Len(pending) \in Nat /\ DOMAIN pending = 1..Len(pending)
        /\ DOMAIN pending' = 1..(Len(pending) + 1)
        /\ \A i \in 1..Len(pending) : pending'[i] = pending[i]
    BY <1>2, AppendProperties, LenProperties DEF LogTypeOK
  <2>2. ASSUME NEW i \in DOMAIN pending, pending[i].count >= n
        PROVE  i \in DOMAIN pending' /\ pending'[i].count >= n
    BY <2>1, <2>2
  <2> QED
    BY <2>2 DEF Committing
<1> QED
  BY <1>1, <1>2

\* A commit that is executed is on the chain, or the chain counts more already.
LEMMA LandingCommits ==
    ASSUME LogTypeOK, AnchoredIsSent, CommitLands
    PROVE  AnchoredIsSent'
<1>0. /\ pending \in Seq(Commits) /\ pending # <<>> /\ pending' = Tail(pending)
      /\ commitments \in Seq(Commits) /\ issued \in Nat /\ lastCommittedCount \in Nat
      /\ UNCHANGED <<lastCommittedCount, sync, keyIsAuctioneer>>
  BY DEF LogTypeOK, CommitLands, inMemory
<1>1. /\ Len(pending) \in Nat \ {0} /\ DOMAIN pending = 1..Len(pending)
      /\ Head(pending) = pending[1] /\ Head(pending) \in Commits
      /\ Tail(pending) \in Seq(Commits) /\ Len(Tail(pending)) = Len(pending) - 1
      /\ \A i \in 1..Len(Tail(pending)) : Tail(pending)[i] = pending[i + 1]
  BY <1>0, HeadTailProperties, LenProperties, EmptySeq
<1>2. /\ Len(commitments) \in Nat /\ DOMAIN commitments = 1..Len(commitments)
      /\ \A i \in DOMAIN commitments : commitments[i].count \in Nat
  <2>1. Len(commitments) \in Nat /\ DOMAIN commitments = 1..Len(commitments)
    BY <1>0, LenProperties
  <2>2. \A i \in DOMAIN commitments : commitments[i] \in Commits
    BY <1>0, <2>1, ElementOfSeq
  <2> QED
    BY <1>0, <2>1, <2>2, CommitFields
<1>3. /\ commitments' = commitments \/ commitments' = Append(commitments, Head(pending))
      /\ DOMAIN commitments \subseteq DOMAIN commitments'
      /\ \A i \in DOMAIN commitments : commitments'[i] = commitments[i]
  <2>1. commitments' = commitments \/ commitments' = Append(commitments, Head(pending))
    BY DEF CommitLands
  <2>2. CASE commitments' = Append(commitments, Head(pending))
    <3>1. /\ Len(commitments') = Len(commitments) + 1 /\ DOMAIN commitments' = 1..Len(commitments')
          /\ \A i \in 1..Len(commitments) : commitments'[i] = commitments[i]
      BY <1>0, <1>1, <2>2, AppendProperties, LenProperties
    <3> QED
      BY <2>2, <3>1, <1>2
  <2> QED
    BY <2>1, <2>2
<1>4. sync'.stage = "arriving" => \E i \in DOMAIN commitments' : commitments'[i].count >= sync'.count
  BY <1>0, <1>3 DEF AnchoredIsSent
<1>5. ASSUME keyIsAuctioneer
      PROVE  Committing(lastCommittedCount)'
  <2> DEFINE n == lastCommittedCount
  <2>1. CASE n = 0 \/ \E i \in DOMAIN commitments : commitments[i].count >= n
    BY <2>1, <1>0, <1>3 DEF Committing
  <2>2. ASSUME NEW i \in DOMAIN pending, pending[i].count >= n
        PROVE  Committing(lastCommittedCount)'
    <3>1. CASE i # 1
      <4>1. i - 1 \in DOMAIN pending' /\ pending'[i - 1] = pending[i]
        <5>1. i - 1 \in 1..Len(Tail(pending)) /\ (i - 1) + 1 = i
          BY <3>1, <1>1
        <5>2. DOMAIN Tail(pending) = 1..Len(Tail(pending))
          BY <1>1, LenProperties
        <5> QED
          BY <5>1, <5>2, <1>0, <1>1
      <4> QED
        BY <4>1, <2>2, <1>0 DEF Committing
    <3>2. CASE i = 1
      <4> DEFINE c == Head(pending)
      <4>1. c.count >= n /\ c.count \in Nat
        BY <3>2, <2>2, <1>0, <1>1, CommitFields
      <4>2. CASE Committable(c)
        <5>1. commitments' = Append(commitments, c)
          BY <4>2 DEF CommitLands
        <5>2. /\ Len(commitments) + 1 \in DOMAIN commitments'
              /\ commitments'[Len(commitments) + 1] = c
          <6>1. /\ commitments' \in Seq(Commits) /\ Len(commitments') = Len(commitments) + 1
                /\ commitments'[Len(commitments) + 1] = c
            BY <5>1, <1>0, <1>1, AppendProperties
          <6>2. DOMAIN commitments' = 1..Len(commitments')
            BY <6>1, LenProperties
          <6> QED
            BY <6>1, <6>2, <1>2
        <5> QED
          BY <5>2, <4>1, <1>0 DEF Committing
      <4>3. CASE ~Committable(c)
        <5>1. ~(c.count >= LatestCount) /\ LatestCount \in Nat
          BY <4>3, <1>5, LatestCountIsNat DEF Committable
        <5>2. commitments # <<>> /\ LatestCount = commitments[Len(commitments)].count
          BY <5>1, <4>1 DEF LatestCount
        <5>3. Len(commitments) \in DOMAIN commitments
          BY <5>2, <1>0, <1>2, EmptySeq
        <5>4. commitments[Len(commitments)].count >= n
          BY <5>1, <5>2, <4>1, <1>0
        <5> QED
          BY <5>3, <5>4, <1>0, <1>3 DEF Committing
      <4> QED
        BY <4>2, <4>3
    <3> QED
      BY <3>1, <3>2
  <2>3. Committing(n)
    BY <1>5 DEF AnchoredIsSent
  <2> QED
    BY <2>1, <2>2, <2>3 DEF Committing
<1> QED
  BY <1>0, <1>4, <1>5 DEF AnchoredIsSent

\* Every step keeps what is taken for anchored among what was sent.
LEMMA SentStep == LogTypeOK /\ AnchoredIsSent /\ [LogNext]_logVars => AnchoredIsSent'
<1> SUFFICES ASSUME LogTypeOK, AnchoredIsSent, [LogNext]_logVars PROVE AnchoredIsSent'
  OBVIOUS
<1>0. lastCommittedCount \in Nat /\ sync.count \in Nat /\ issued \in Nat /\ call \in Commits
      /\ call.count \in Nat /\ pending \in Seq(Commits) /\ commitments \in Seq(Commits)
  BY CommitFields DEF LogTypeOK
<1>1. CASE CommitLands
  BY <1>1, LandingCommits
<1>2. CASE CommitSubmitted
  <2>1. UNCHANGED <<sync, commitments, keyIsAuctioneer>>
    BY <1>2 DEF CommitSubmitted
  <2>2. CASE Committable(call)
    <3>1. pending' = Append(pending, call) /\ lastCommittedCount' = call.count
      BY <1>2, <2>2 DEF CommitSubmitted, Committed
    <3>2. Len(pending) + 1 \in DOMAIN pending' /\ pending'[Len(pending) + 1] = call
      BY <3>1, <1>0, AppendProperties, LenProperties
    <3> QED
      BY <2>1, <3>1, <3>2, <1>0 DEF AnchoredIsSent, Committing
  <2>3. CASE ~Committable(call)
    BY <2>1, <2>3, <1>2 DEF CommitSubmitted, AnchoredIsSent, Committing
  <2> QED
    BY <2>2, <2>3
<1>3. CASE CommitFails
  <2>1. UNCHANGED <<sync, commitments, keyIsAuctioneer, lastCommittedCount>>
        /\ (pending' = pending \/ pending' = Append(pending, call))
    BY <1>3 DEF CommitFails, MaySend
  <2> QED
    BY <2>1, <1>0, StillCommitting DEF AnchoredIsSent, Committing
<1>4. CASE SyncReads
  <2>1. UNCHANGED <<lastCommittedCount, commitments, pending, keyIsAuctioneer>>
    BY <1>4 DEF SyncReads, onChain
  <2>2. CASE commitments = <<>>
    BY <1>4, <2>1, <2>2 DEF SyncReads, Synced, AnchoredIsSent, Committing
  <2>3. CASE commitments # <<>>
    <3>1. sync'.count = commitments[Len(commitments)].count /\ LatestCount \in Nat
      BY <1>4, <2>3, LatestCountIsNat DEF SyncReads, LatestCount
    <3>2. Len(commitments) \in DOMAIN commitments
      BY <2>3, <1>0, EmptySeq, LenProperties
    <3>3. commitments[Len(commitments)].count >= sync'.count
      BY <3>1, <2>3 DEF LatestCount
    <3> QED
      BY <2>1, <3>2, <3>3 DEF AnchoredIsSent, Committing
  <2> QED
    BY <2>2, <2>3
<1>5. CASE SyncArrives
  BY <1>5 DEF SyncArrives, onChain, Synced, AnchoredIsSent, Committing
<1>6. CASE SyncFails
  BY <1>6 DEF SyncFails, onChain, Synced, AnchoredIsSent, Committing
<1>7. CASE Restart
  BY <1>7 DEF Restart, AnchoredIsSent, Committing
<1>8. CASE KeyRevoked
  BY <1>8 DEF KeyRevoked, inMemory, AnchoredIsSent, Committing
<1>9. CASE PublishReceipt
  BY <1>9 DEF PublishReceipt, onChain, AnchoredIsSent, Committing
<1>10. CASE UNCHANGED logVars
  BY <1>10 DEF logVars, onChain, inMemory, AnchoredIsSent, Committing
<1> QED
  BY <1>1, <1>2, <1>3, <1>4, <1>5, <1>6, <1>7, <1>8, <1>9, <1>10 DEF LogNext

\* While the key commits and the file was always written and read, the receipts taken for
\* anchored are under a root on the chain once nothing is in flight, however answers,
\* retries and restarts interleave (receipts.ts:216-282).
THEOREM AnchoredIsAnchored == LogSpec => []AnchoredCountWhenIntact
<1>1. LogInit => AnchoredIsSent
  BY DEF LogInit, AnchoredIsSent, Committing
<1>2. LogTypeOK /\ AnchoredIsSent /\ [LogNext]_logVars => AnchoredIsSent'
  BY SentStep
<1>3. LogTypeOK /\ WholeEverywhere /\ AnchoredIsSent => AnchoredCountWhenIntact
  <2> SUFFICES ASSUME LogTypeOK, WholeEverywhere, AnchoredIsSent, intact, keyIsAuctioneer,
                      pending = <<>>, lastCommittedCount # 0
               PROVE  \E i \in DOMAIN commitments :
                         Prefix(lastCommittedCount) \subseteq commitments[i].root
    BY DEF AnchoredCountWhenIntact, AnchoredCount
  <2>1. PICK i \in DOMAIN commitments : commitments[i].count >= lastCommittedCount
    BY DEF AnchoredIsSent, Committing
  <2>2. leaves = 1..issued /\ commitments[i].root = 1..commitments[i].count /\ issued \in Nat
        /\ lastCommittedCount \in Nat
    BY DEF WholeEverywhere, FullRoot, LogTypeOK
  <2>3. commitments[i].count \in Nat
    <3>1. commitments[i] \in Commits
      BY LenProperties, ElementOfSeq DEF LogTypeOK
    <3> QED
      BY <3>1, <2>2, CommitFields
  <2>4. ASSUME NEW m \in Prefix(lastCommittedCount)
        PROVE  m \in commitments[i].root
    <3>1. m \in 1..issued /\ Cardinality({k \in leaves : k <= m}) <= lastCommittedCount
      BY <2>2 DEF Prefix
    <3>2. {k \in leaves : k <= m} = 1..m /\ m \in Nat
      BY <2>2, <3>1
    <3>3. m <= lastCommittedCount
      BY <3>1, <3>2, CountOfHistory
    <3> QED
      BY <2>1, <2>2, <2>3, <3>1, <3>3
  <2> QED
    BY <2>4
<1>4. LogInit => WholeEverywhere
  BY NoCallIsFull DEF LogInit, WholeEverywhere
<1>5. LogTypeOK /\ WholeEverywhere /\ [LogNext]_logVars => WholeEverywhere'
  BY WholeStep
<1> QED
  BY <1>1, <1>2, <1>3, <1>4, <1>5, LogTypes, PTL DEF LogSpec
=============================================================================
