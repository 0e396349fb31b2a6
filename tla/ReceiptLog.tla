----------------------------- MODULE ReceiptLog -----------------------------
(***************************************************************************)
(* The receipt log of the auction, apps/auction/src/receipts.ts, with the  *)
(* contract that anchors it, contracts/src/OrdoReceiptLog.sol.             *)
(*                                                                         *)
(* Receipts live in three places: in memory (leaves), in an append-only    *)
(* file that a restart reads back, and under Merkle roots on the chain.    *)
(* Every one of them keeps receipts in the order of issue, so a receipt is *)
(* its issue number, a list of receipts is a set of numbers, and a root is *)
(* the set it was built over: hashes do not collide.                       *)
(*                                                                         *)
(* An action is a stretch of the process between two awaits, a transaction *)
(* executing, or a restart.  The process commits with the auctioneer key.  *)
(***************************************************************************)
EXTENDS Integers, Sequences, FiniteSets

CONSTANTS
    CommitEvery,      \* ORDO_RECEIPT_COMMIT_EVERY
    MaxReceipts,      \* bound: receipts issued
    Failures,         \* bound: restarts, failed writes and reads, RPC failures
    Revocations       \* bound: times the contract's auctioneer becomes another key

ASSUME LogConstants ==
    /\ CommitEvery \in Nat \ {0}
    /\ MaxReceipts \in Nat
    /\ Failures \in Nat
    /\ Revocations \in Nat

VARIABLES
    issued,           \* receipts signed by any process so far
    leaves,           \* receipts the process remembers
    file,             \* receipts on a line of the file that parses
    tail,             \* the receipt whose line lacks its newline, 0 if every line has ended
    lastCommittedCount,
    call,             \* the commit being submitted, NoCall if committing is false
    sync,             \* syncAnchorState: [stage, count]
    pending,          \* commits sent and not executed, in nonce order
    commitments,      \* OrdoReceiptLog.commitments
    keyIsAuctioneer,  \* OrdoSettlement.auctioneer() is the service's key
    boot,             \* whether this process read the file when it started
    torn,             \* writes that failed so far
    intact,           \* no write and no read of the file has failed so far
    failed            \* failures so far

onDisk == <<file, tail, torn>>
inMemory == <<leaves, lastCommittedCount, call, sync, boot>>
onChain == <<pending, commitments, keyIsAuctioneer>>
logVars == <<issued, onDisk, inMemory, onChain, intact, failed>>

History == INSTANCE AnchoredHistory

NoCall == [root |-> {}, count |-> 0]
Synced == [stage |-> "done", count |-> 0]

Fail ==
    /\ failed < Failures
    /\ failed' = failed + 1

-----------------------------------------------------------------------------
(* publishReceipt *)

\* remember, then appendFileSync; a line that follows one without a newline runs into
\* it and neither can be parsed.
WrittenWhole(m) ==
    /\ file' = IF tail = 0 THEN file \cup {m} ELSE file \ {tail}
    /\ tail' = 0
    /\ UNCHANGED <<torn, intact, failed>>

\* The write fails, or the process dies in it, with nothing, a part, or all but the
\* newline written.
WrittenTorn(m) ==
    /\ Fail
    /\ torn' = torn + 1
    /\ intact' = FALSE
    /\ \/ UNCHANGED <<file, tail>>
       \/ file' = file \ {tail} /\ tail' = m
       \/ tail = 0 /\ file' = file \cup {m} /\ tail' = m

CommitCall_Bug(remembered) ==
    [root |-> remembered, count |-> lastCommittedCount + CommitEvery]
CommitCall(remembered) == [root |-> remembered, count |-> Cardinality(remembered)]

\* maybeCommitRoot up to its first await.  The refusal that follows the second guard
\* in the code, for a log shorter than what is anchored, is implied by that guard.
MaybeCommit(remembered) ==
    call' = IF call = NoCall /\ Cardinality(remembered) - lastCommittedCount >= CommitEvery
            THEN CommitCall(remembered)
            ELSE call

PublishReceipt ==
    LET m == issued + 1
    IN  /\ issued < MaxReceipts
        /\ issued' = m
        /\ leaves' = leaves \cup {m}
        /\ WrittenWhole(m) \/ WrittenTorn(m)
        /\ MaybeCommit(leaves')
        /\ UNCHANGED <<lastCommittedCount, sync, boot, onChain>>

-----------------------------------------------------------------------------
(* OrdoReceiptLog.commit *)

LatestCount == IF commitments = <<>> THEN 0 ELSE commitments[Len(commitments)].count

Committable_Bug(c) == keyIsAuctioneer
Committable(c) == keyIsAuctioneer /\ c.count >= LatestCount

\* The next commit in nonce order is executed, or reverts.
CommitLands ==
    /\ pending # <<>>
    /\ pending' = Tail(pending)
    /\ commitments' = IF Committable(Head(pending))
                      THEN Append(commitments, Head(pending)) ELSE commitments
    /\ UNCHANGED <<issued, onDisk, inMemory, keyIsAuctioneer, intact, failed>>

\* OrdoSettlement.setAuctioneer names another key.
KeyRevoked ==
    /\ Revocations > 0
    /\ keyIsAuctioneer
    /\ keyIsAuctioneer' = FALSE
    /\ UNCHANGED <<issued, onDisk, inMemory, pending, commitments, intact, failed>>

-----------------------------------------------------------------------------
(* The rest of maybeCommitRoot, and syncAnchorState *)

\* What lastCommittedCount becomes: the count that was sent, not the current one.
Committed_Bug(c) == Cardinality(leaves)
Committed(c) == c.count

\* writeContract resolves with a hash, or rejects what would revert on the latest
\* block.  The hash alone moves lastCommittedCount.
CommitSubmitted ==
    /\ call # NoCall
    /\ call' = NoCall
    /\ IF Committable(call)
       THEN /\ pending' = Append(pending, call)
            /\ lastCommittedCount' = Committed(call)
       ELSE UNCHANGED <<pending, lastCommittedCount>>
    /\ UNCHANGED <<issued, onDisk, leaves, sync, boot, commitments, keyIsAuctioneer, intact, failed>>

\* A failed call may have been sent.
MaySend ==
    \/ UNCHANGED pending
    \/ call # NoCall /\ Committable(call) /\ pending' = Append(pending, call)

CommitFails ==
    /\ call # NoCall
    /\ Fail
    /\ MaySend
    /\ call' = NoCall
    /\ UNCHANGED <<issued, onDisk, leaves, lastCommittedCount, sync, boot, commitments,
                   keyIsAuctioneer, intact>>

\* The chain answers total() and latest().
SyncReads ==
    /\ sync.stage = "reading"
    /\ sync' = IF commitments = <<>> THEN Synced
               ELSE [stage |-> "arriving", count |-> LatestCount]
    /\ UNCHANGED <<issued, onDisk, leaves, lastCommittedCount, call, boot, onChain, intact, failed>>

\* The answer arrives, whatever was committed meanwhile.
SyncArrives ==
    /\ sync.stage = "arriving"
    /\ lastCommittedCount' = sync.count
    /\ sync' = Synced
    /\ UNCHANGED <<issued, onDisk, leaves, call, boot, onChain, intact, failed>>

SyncFails ==
    /\ sync.stage # "done"
    /\ Fail
    /\ sync' = Synced
    /\ UNCHANGED <<issued, onDisk, leaves, lastCommittedCount, call, boot, onChain, intact>>

-----------------------------------------------------------------------------
(* Restart *)

\* hydrate skips a line that does not parse.
Hydrated_Bug == {m \in file : \E k \in file : k > m}
Hydrated == file

\* The process dies and starts again: hydrate reads the file, or takes a file it
\* cannot read for a new one, and syncAnchorState begins.
Restart ==
    /\ Fail
    /\ \/ leaves' = Hydrated /\ boot' = "restored" /\ UNCHANGED intact
       \/ leaves' = {} /\ boot' = "unread" /\ intact' = FALSE
    /\ lastCommittedCount' = 0
    /\ MaySend
    /\ call' = NoCall
    /\ sync' = [stage |-> "reading", count |-> 0]
    /\ UNCHANGED <<issued, onDisk, commitments, keyIsAuctioneer>>

-----------------------------------------------------------------------------

LogInit ==
    /\ issued = 0
    /\ leaves = {}
    /\ file = {}
    /\ tail = 0
    /\ lastCommittedCount = 0
    /\ call = NoCall
    /\ sync = [stage |-> "reading", count |-> 0]
    /\ pending = <<>>
    /\ commitments = <<>>
    /\ keyIsAuctioneer = TRUE
    /\ boot = "restored"
    /\ torn = 0
    /\ intact = TRUE
    /\ failed = 0

LogNext ==
    \/ PublishReceipt
    \/ CommitSubmitted
    \/ CommitFails
    \/ CommitLands
    \/ KeyRevoked
    \/ SyncReads
    \/ SyncArrives
    \/ SyncFails
    \/ Restart

LogSpec == LogInit /\ [][LogNext]_logVars

-----------------------------------------------------------------------------
(* Properties *)

Commits == {[root |-> r, count |-> Cardinality(r)] : r \in SUBSET (1..issued)}

\* The log has its types; every commit carries the number of receipts under its root
\* (maybeCommitRoot builds both from the same snapshot).
LogTypeOK ==
    /\ issued \in Nat
    /\ leaves \subseteq 1..issued
    /\ file \subseteq 1..issued
    /\ tail \in 0..issued
    /\ lastCommittedCount \in Nat
    /\ call \in Commits
    /\ sync \in [stage: {"reading", "arriving", "done"}, count: Nat]
    /\ pending \in Seq(Commits)
    /\ commitments \in Seq(Commits)
    /\ keyIsAuctioneer \in BOOLEAN
    /\ boot \in {"restored", "unread"}
    /\ torn \in Nat
    /\ intact \in BOOLEAN
    /\ failed \in Nat

\* The log and the contract together keep the promise of AnchoredHistory: whatever is
\* torn, lost or restarted, a commitment is to receipts that were issued, carries their
\* number, and never counts less than the one before ("a commitment covering fewer of
\* them than the last one is the log being rewritten", OrdoReceiptLog.sol).
KeepsHistory == History!HistorySpec

\* As long as the file was always written and read, every commitment fixes the whole
\* history up to its count: no restart, late answer or retry anchors another one
\* ("committing the Merkle root of every receipt issued fixes the whole history").
WholeHistory ==
    intact => \A i \in DOMAIN commitments : commitments[i].root = 1..commitments[i].count

\* A failed write costs at most two receipts at the next restart: its own, and the one
\* whose line runs into the part that was written (hydrate skips unreadable lines).
LossBounded ==
    boot = "restored" => Cardinality((1..issued) \ leaves) <= 2 * torn

\* The first n receipts of the log.
Prefix(n) == {m \in leaves : Cardinality({k \in leaves : k <= m}) <= n}

\* "anchoredCount is the prefix already on-chain, so the gap between it and count is
\* exactly what is not yet immutable" (receipts.ts:296), once nothing is in flight.
AnchoredCount ==
    pending = <<>> =>
        \/ lastCommittedCount = 0
        \/ \E i \in DOMAIN commitments : Prefix(lastCommittedCount) \subseteq commitments[i].root

\* The same holds while the key commits and the file was always written and read,
\* however answers, retries and restarts interleave.
AnchoredCountWhenIntact == intact /\ keyIsAuctioneer => AnchoredCount
=============================================================================
