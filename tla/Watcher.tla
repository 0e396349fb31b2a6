------------------------------ MODULE Watcher ------------------------------
(***************************************************************************)
(* The indexer, apps/watcher/src: main.ts (the live loop and its           *)
(* checkpoint) and v4.ts (the walk over the blocks before it), writing     *)
(* the store of packages/store.                                            *)
(*                                                                         *)
(* The live loop reads the head, processes the blocks up to it in chunks   *)
(* of concurrent calls, and saves where it is.  One call that throws ends  *)
(* the chunk; the others run on while the loop retries.  The V4 walk runs  *)
(* in the background from its own checkpoint to the loop's first block;    *)
(* from then on the loop moves that checkpoint too.  An action is the code *)
(* between two awaits; the process may die in the middle of one.           *)
(***************************************************************************)
EXTENDS Candles

CONSTANTS
    Concurrency,      \* ORDO_CONCURRENCY
    MaxBatch,         \* ORDO_MAX_BATCH
    SaveEvery,        \* blocks between checkpoints inside a pass
    MaxGap,           \* how far behind the head a checkpoint is still resumed
    Backfill,         \* ORDO_BACKFILL
    MaxSpan,          \* the widest window of the walk
    MaxHead,          \* bound: blocks the chain produces
    Failures          \* bound: refused reads, failed writes and crashes

ASSUME WatcherConstants ==
    /\ {Concurrency, MaxBatch, SaveEvery, MaxGap, MaxSpan, MaxHead} \subseteq Nat \ {0}
    /\ {Backfill, Failures} \subseteq Nat
    /\ Blocks = 1..MaxHead

VARIABLES
    head,             \* the chain's newest block
    candles,          \* table candles: [Minutes -> candle]
    taped,            \* blocks whose swaps are in the candles (and the trades)
    pools,            \* table v4_pools: blocks whose Initialize events are in it
    indexed,          \* blocks whose processing came to its end
    checkpoint,       \* checkpoint.json: the next block, 0 if missing or torn
    scanned,          \* meta v4:initScannedTo
    loop,             \* [up, next, target, upTo, width, saved], the live loop
    waiting,          \* blocks of the chunk whose call has not returned
    strays,           \* [Blocks -> Nat], calls left over from chunks that failed
    walk,             \* [from, until, caught], the V4 walk; from = 0 when it is over
    since,            \* history: where the loop last began without a checkpoint
    nulls,            \* history: blocks that a node answered null for
    short,            \* history: blocks that a node left out of a window of the walk
    failed            \* failures so far

tape == <<candles, taped>>
store == <<tape, pools, indexed>>
disk == <<checkpoint, scanned>>
process == <<loop, waiting, strays, walk>>
vars == <<head, store, disk, process, since, nulls, short, failed>>

Down == [up |-> FALSE, next |-> 0, target |-> 0, upTo |-> 0, width |-> Concurrency, saved |-> 0]
NoStrays == [b \in Blocks |-> 0]
Walked == [from |-> 0, until |-> 0, caught |-> FALSE]

Fail ==
    /\ failed < Failures
    /\ failed' = failed + 1

-----------------------------------------------------------------------------
(* processBlock *)

Tape(b) ==
    /\ candles' = CandlesWith(candles, b)
    /\ taped' = taped \cup {b}

\* All of it; that the tape cannot be written is caught.
Processed(b) ==
    /\ \/ Tape(b) /\ UNCHANGED failed
       \/ Fail /\ UNCHANGED tape
    /\ pools' = pools \cup {b}
    /\ indexed' = indexed \cup {b}
    /\ UNCHANGED <<nulls, short>>

\* The node that was asked does not have the block.
AnsweredNull(b) ==
    /\ Fail
    /\ nulls' = nulls \cup {b}
    /\ UNCHANGED <<store, short>>

\* A read is refused, or a write fails behind the ones before it.
CutShort(b) ==
    /\ \/ UNCHANGED <<tape, pools>>
       \/ Tape(b) /\ UNCHANGED pools
       \/ Tape(b) /\ pools' = pools \cup {b}
    /\ UNCHANGED <<indexed, nulls, short>>

Returns(b) == Processed(b) \/ AnsweredNull(b)
Throws(b) == Fail /\ CutShort(b)

-----------------------------------------------------------------------------
(* The live loop *)

\* Resume from the checkpoint, unless it is too far behind the head.
Start ==
    /\ ~loop.up
    /\ \E h \in 1..head :
          LET resumed == checkpoint # 0 /\ h - checkpoint < MaxGap
              next == IF resumed THEN checkpoint ELSE h - Backfill
              caught == scanned >= next - 1
          IN  /\ next > 0
              /\ loop' = [Down EXCEPT !.up = TRUE, !.next = next, !.saved = next]
              /\ walk' = IF caught THEN [Walked EXCEPT !.caught = TRUE]
                         ELSE [from |-> scanned + 1, until |-> next - 1, caught |-> FALSE]
              /\ since' = IF resumed THEN since ELSE next
    /\ UNCHANGED <<head, store, disk, waiting, strays, nulls, short, failed>>

\* The loop has nothing to do at head h.
CaughtUp_Bug(h) == loop.next >= h
CaughtUp(h) == loop.next > h

\* eth_blockNumber, of a node that may lag.
FetchHead ==
    /\ loop.up
    /\ loop.target = 0
    /\ \E h \in 1..head :
          /\ ~CaughtUp(h)
          /\ loop' = [loop EXCEPT !.target = Lower(h, loop.next + MaxBatch - 1)]
    /\ UNCHANGED <<head, store, disk, waiting, strays, walk, since, nulls, short, failed>>

BeginChunk ==
    LET last == Lower(loop.target, loop.next + loop.width - 1)
    IN  /\ loop.up
        /\ loop.upTo = 0
        /\ loop.next <= loop.target
        /\ loop' = [loop EXCEPT !.upTo = last]
        /\ waiting' = loop.next..last
        /\ UNCHANGED <<head, store, disk, strays, walk, since, nulls, short, failed>>

BlockReturns(b) ==
    /\ b \in waiting
    /\ Returns(b)
    /\ waiting' = waiting \ {b}
    /\ UNCHANGED <<head, disk, loop, strays, walk, since>>

\* The catch of the loop: the pass starts over, at half the concurrency.
Retrying_Bug(l) ==
    [l EXCEPT !.next = IF l.upTo > 0 THEN l.upTo + 1 ELSE @,
              !.target = 0, !.upTo = 0, !.width = Higher(1, @ \div 2)]
Retrying(l) == [l EXCEPT !.target = 0, !.upTo = 0, !.width = Higher(1, @ \div 2)]

\* Promise.all rejects; the other calls of the chunk go on.
BlockThrows(b) ==
    /\ b \in waiting
    /\ Throws(b)
    /\ waiting' = {}
    /\ strays' = [c \in Blocks |-> strays[c] + (IF c \in waiting \ {b} THEN 1 ELSE 0)]
    /\ loop' = Retrying(loop)
    /\ UNCHANGED <<head, disk, walk, since>>

StrayEnds(b) ==
    /\ strays[b] > 0
    /\ Returns(b) \/ Throws(b)
    /\ strays' = [strays EXCEPT ![b] = @ - 1]
    /\ UNCHANGED <<head, disk, loop, waiting, walk, since>>

\* What is in memory is gone.
Dies ==
    /\ loop' = Down
    /\ waiting' = {}
    /\ strays' = NoStrays
    /\ walk' = Walked

\* commit(): once the walk has met the loop, the loop moves its checkpoint too.
ScannedAt_Bug(next) == next - 1
ScannedAt(next) == IF walk.caught THEN next - 1 ELSE scanned

\* commit() with the loop at l.  The file is written in place: a write that breaks off
\* leaves it torn, and a process that dies may have written it and not the other.
Commit(l) ==
    \/ /\ checkpoint' = l.next
       /\ scanned' = ScannedAt(l.next)
       /\ loop' = [l EXCEPT !.saved = l.next]
       /\ UNCHANGED <<waiting, strays, walk, failed>>
    \/ /\ Fail
       /\ checkpoint' \in {0, l.next}
       /\ \/ loop' = Retrying(l) /\ UNCHANGED <<waiting, strays, walk>>
          \/ Dies
       /\ UNCHANGED scanned

\* The concurrency recovers after enough chunks.
FinishChunk ==
    /\ loop.upTo > 0
    /\ waiting = {}
    /\ \E width \in {loop.width, Lower(loop.width + 1, Concurrency)} :
          LET l == [loop EXCEPT !.next = loop.upTo + 1, !.upTo = 0, !.width = width]
          IN  IF l.next - l.saved >= SaveEvery
              THEN Commit(l)
              ELSE loop' = l /\ UNCHANGED <<disk, waiting, strays, walk, failed>>
    /\ UNCHANGED <<head, store, since, nulls, short>>

FinishPass ==
    /\ loop.target > 0
    /\ loop.upTo = 0
    /\ loop.next > loop.target
    /\ Commit([loop EXCEPT !.target = 0])
    /\ UNCHANGED <<head, store, since, nulls, short>>

-----------------------------------------------------------------------------
(* The V4 walk *)

\* One eth_getLogs window, as wide as the provider allows.  A node that is behind answers
\* with the logs of the blocks it has, and the window counts as walked.
WalkWindow ==
    /\ walk.from \in 1..walk.until
    /\ \E to \in walk.from..Lower(walk.until, walk.from + MaxSpan - 1) :
          /\ \/ /\ pools' = pools \cup (walk.from..to)
                /\ UNCHANGED <<short, failed>>
             \/ \E first \in walk.from..to :
                   /\ Fail
                   /\ pools' = pools \cup (walk.from..first - 1)
                   /\ short' = short \cup (first..to)
          /\ scanned' = to
          /\ walk' = [walk EXCEPT !.from = to + 1]
    /\ UNCHANGED <<head, tape, indexed, checkpoint, loop, waiting, strays, since, nulls>>

WalkEnds ==
    /\ walk.from > walk.until
    /\ walk' = [Walked EXCEPT !.caught = TRUE]
    /\ UNCHANGED <<head, store, disk, loop, waiting, strays, since, nulls, short, failed>>

\* Too many refusals, or the store throws: the walk is left to the next start.
WalkGivesUp ==
    /\ walk.from > 0
    /\ Fail
    /\ walk' = Walked
    /\ UNCHANGED <<head, store, disk, loop, waiting, strays, since, nulls, short>>

-----------------------------------------------------------------------------
(* The environment *)

BlockProduced ==
    /\ head < MaxHead
    /\ head' = head + 1
    /\ UNCHANGED <<store, disk, process, since, nulls, short, failed>>

\* The process dies, perhaps in the middle of a block or of a window of the walk.
Crash ==
    /\ loop.up
    /\ Fail
    /\ Dies
    /\ \/ UNCHANGED <<store, nulls, short>>
       \/ \E b \in waiting \cup {c \in Blocks : strays[c] > 0} : CutShort(b)
       \/ /\ walk.from \in 1..walk.until
          /\ pools' = pools \cup {walk.from}
          /\ UNCHANGED <<tape, indexed, nulls, short>>
    /\ UNCHANGED <<head, disk, since>>

-----------------------------------------------------------------------------

Init ==
    /\ head \in Blocks
    /\ candles = [m \in Minutes |-> NoCandle]
    /\ taped = {} /\ pools = {} /\ indexed = {}
    /\ checkpoint = 0 /\ scanned = 0
    /\ loop = Down /\ waiting = {} /\ strays = NoStrays /\ walk = Walked
    /\ since = 0 /\ nulls = {} /\ short = {} /\ failed = 0

Loop ==
    \/ Start
    \/ FetchHead
    \/ BeginChunk
    \/ \E b \in Blocks : BlockReturns(b) \/ BlockThrows(b) \/ StrayEnds(b)
    \/ FinishChunk
    \/ FinishPass

Next == Loop \/ WalkWindow \/ WalkEnds \/ WalkGivesUp \/ BlockProduced \/ Crash

\* The supervisor restarts the process, its promises settle, and nodes answer.
Fairness ==
    /\ WF_vars(Start) /\ WF_vars(FetchHead) /\ WF_vars(BeginChunk)
    /\ \A b \in Blocks : WF_vars(BlockReturns(b))
    /\ WF_vars(FinishChunk) /\ WF_vars(FinishPass)

Spec == Init /\ [][Next]_vars /\ Fairness

-----------------------------------------------------------------------------
(* Properties *)

\* "All or nothing: a partial chunk would advance the checkpoint past a block that was
\* never indexed" (main.ts:247-249): what lies between the last start without a
\* checkpoint and the one on disk has been processed to its end, or a node denied it.
IndexComplete == \A b \in since..checkpoint - 1 : b \in indexed \cup nulls

\* "The watcher has to see every Initialize ever emitted" (v4.ts:10): every block up to
\* the V4 checkpoint, which the walk and the live loop move in turns, has its pools in
\* the store, or a node denied it or answered for less than it was asked.
PoolsComplete == \A b \in 1..scanned : b \in pools \cup nulls \cup short

\* "Open/close are guarded by block bounds rather than arrival order" (store:662-663): in
\* whatever order blocks are processed, retried by a chunk, finished by a stray call of
\* a failed one or replayed after a crash, a candle is that of its blocks.
CandlesExact == \A m \in Minutes : IsCandleOf(candles[m], Traded(taped, m))

\* "Not a slow indexer ... an indexer that never arrives" (main.ts:16-17): whatever fails,
\* the loop gets past the head, again and again.
CatchesUp == []<>(loop.up /\ loop.next > head)
=============================================================================
