--------------------------- MODULE WatcherProofs ---------------------------
(***************************************************************************)
(* What the indexer keeps for every concurrency, batch, window and number  *)
(* of failures: no block is passed over by the live loop's checkpoint, and *)
(* none of its pools by the V4 checkpoint, which two tasks move; and the   *)
(* candles are those of the blocks written, for any prices and any order.  *)
(***************************************************************************)
EXTENDS Watcher, SumTheorems, TLAPS

-----------------------------------------------------------------------------
(* The invariant *)

\* What has been processed to its end, and what has its pools in the store, up to blocks
\* that a node denied.
Indexed(b) == b \in indexed \cup nulls
Pooled(b) == b \in pools \cup nulls \cup short

Loops ==
    [up: BOOLEAN, next: Nat, target: Nat, upTo: Nat, width: Nat \ {0}, saved: Nat]

\* The numbers that the loop and the walk compute with.
Numbers ==
    /\ head \in Nat /\ checkpoint \in Nat /\ scanned \in Nat /\ since \in Nat
    /\ loop \in Loops
    /\ walk \in [from: Nat, until: Nat, caught: BOOLEAN]

\* All that the loop is past is processed, and of the chunk all that it does not wait for.
LoopIndexed ==
    /\ loop.up => \A b \in since..loop.next - 1 : Indexed(b)
    /\ loop.target > 0 => loop.up
    /\ loop.upTo > 0 => loop.up /\ \A b \in loop.next..loop.upTo : b \in waiting \/ Indexed(b)

\* The walk begins where the V4 checkpoint is and ends where the loop began; once they
\* have met, the pools of all that the loop is past are there.
WalkMeetsLoop ==
    /\ walk.from > 0 => /\ loop.up /\ ~walk.caught
                        /\ scanned = walk.from - 1
                        /\ \A b \in walk.until + 1..loop.next - 1 : Pooled(b)
    /\ walk.caught => loop.up /\ \A b \in 1..loop.next - 1 : Pooled(b)

WatcherInv ==
    /\ Numbers
    /\ indexed \subseteq pools
    /\ IndexComplete
    /\ LoopIndexed
    /\ PoolsComplete
    /\ WalkMeetsLoop

\* ORDO_BACKFILL does not reach behind a checkpoint that is too old to resume.
BackfillIsShort == Backfill <= MaxGap

-----------------------------------------------------------------------------

\* The constants are numbers, most of them positive.
LEMMA Parameters ==
    /\ Concurrency \in Nat \ {0} /\ MaxBatch \in Nat \ {0} /\ MaxGap \in Nat \ {0}
    /\ MaxHead \in Nat \ {0} /\ Backfill \in Nat /\ Blocks = 1..MaxHead
BY WatcherConstants

\* Nothing is indexed and nothing claimed.
LEMMA WatcherInitially == Init => WatcherInv
BY Parameters
   DEF Init, Loops, WatcherInv, Numbers, IndexComplete, LoopIndexed, PoolsComplete, WalkMeetsLoop,
       Down, Walked, Indexed, Pooled

\* Blocks leave neither index.
StoreGrows ==
    /\ indexed \subseteq indexed'
    /\ pools \subseteq pools'
    /\ nulls \subseteq nulls'
    /\ short \subseteq short'
    /\ indexed' \subseteq pools'

\* A call that returns has processed its block, or was denied it.
LEMMA ReturnsGrow ==
    ASSUME WatcherInv, NEW b, Returns(b)
    PROVE  StoreGrows /\ Indexed(b)'
BY DEF WatcherInv, Returns, Processed, AnsweredNull, store, tape, StoreGrows, Indexed

\* A call that fails may have written some of it.
LEMMA CutShortGrows ==
    ASSUME WatcherInv, NEW b, CutShort(b)
    PROVE  StoreGrows
BY DEF WatcherInv, CutShort, tape, StoreGrows

\* What holds of a growing store while the loop and the walk stand.
LEMMA GrowthKeeps ==
    ASSUME WatcherInv, StoreGrows, UNCHANGED <<head, disk, loop, walk, since>>,
           loop.upTo > 0 => \A b \in loop.next..loop.upTo : b \in waiting => b \in waiting' \/ Indexed(b)'
    PROVE  WatcherInv'
<1>1. \A b : (Indexed(b) => Indexed(b)') /\ (Pooled(b) => Pooled(b)')
  BY DEF StoreGrows, Indexed, Pooled
<1>2. Numbers' /\ (indexed \subseteq pools)'
  BY DEF WatcherInv, Numbers, StoreGrows, disk
<1>3. IndexComplete' /\ PoolsComplete'
  BY DEF WatcherInv, IndexComplete, PoolsComplete, StoreGrows, disk
<1>4. LoopIndexed'
  BY <1>1 DEF WatcherInv, LoopIndexed
<1>5. WalkMeetsLoop'
  BY <1>1 DEF WatcherInv, WalkMeetsLoop, disk
<1> QED
  BY <1>2, <1>3, <1>4, <1>5 DEF WatcherInv
-----------------------------------------------------------------------------
(* The live loop *)

\* A checkpoint that is resumed continues what was complete; otherwise a new stretch
\* begins, past the old checkpoint.
LEMMA StartKeeps ==
    ASSUME WatcherInv, BackfillIsShort, Start
    PROVE  WatcherInv'
<1> DEFINE resumed(h) == checkpoint # 0 /\ h - checkpoint < MaxGap
           begin(h) == IF resumed(h) THEN checkpoint ELSE h - Backfill
<1>1. PICK h \in 1..head :
        /\ begin(h) > 0
        /\ loop' = [Down EXCEPT !.up = TRUE, !.next = begin(h), !.saved = begin(h)]
        /\ walk' = IF scanned >= begin(h) - 1 THEN [Walked EXCEPT !.caught = TRUE]
                   ELSE [from |-> scanned + 1, until |-> begin(h) - 1, caught |-> FALSE]
        /\ since' = IF resumed(h) THEN since ELSE begin(h)
  BY DEF Start
<1>2. /\ Concurrency \in Nat /\ MaxGap \in Nat /\ Backfill \in Nat
      /\ head \in Nat /\ checkpoint \in Nat /\ scanned \in Nat /\ since \in Nat /\ h \in Nat
      /\ Backfill <= MaxGap
      /\ begin(h) \in Nat
  BY <1>1, Parameters DEF WatcherInv, Numbers, BackfillIsShort
<1>3. UNCHANGED <<head, store, disk, waiting, strays, nulls, short, failed>>
  BY DEF Start
<1>4. ~resumed(h) => checkpoint <= begin(h)
  BY <1>2
<1>5. resumed(h) => begin(h) = checkpoint
  OBVIOUS
<1> HIDE DEF resumed, begin
<1>6. loop' = [up |-> TRUE, next |-> begin(h), target |-> 0, upTo |-> 0,
               width |-> Concurrency, saved |-> begin(h)]
  BY <1>1 DEF Down
<1>7. Numbers'
  <2>1. walk' \in [from: Nat, until: Nat, caught: BOOLEAN]
    <3>1. CASE scanned >= begin(h) - 1
      BY <1>1, <3>1 DEF Walked
    <3>2. CASE ~(scanned >= begin(h) - 1)
      <4>1. scanned + 1 \in Nat /\ begin(h) - 1 \in Nat
        BY <1>1, <1>2
      <4>2. walk' = [from |-> scanned + 1, until |-> begin(h) - 1, caught |-> FALSE]
        BY <1>1, <3>2
      <4> QED
        BY <4>1, <4>2
    <3> QED
      BY <3>1, <3>2
  <2>2. since' \in Nat
    BY <1>1, <1>2
  <2>3. loop' \in Loops
    BY <1>2, <1>6, Parameters DEF Loops
  <2> QED
    BY <1>2, <1>3, <2>1, <2>2, <2>3 DEF Numbers, disk
<1>8. (indexed \subseteq pools)' /\ PoolsComplete'
  BY <1>3 DEF WatcherInv, PoolsComplete, store, disk
<1>9. IndexComplete'
  BY <1>1, <1>2, <1>3, <1>4 DEF WatcherInv, IndexComplete, store, disk
<1>10. LoopIndexed'
  <2>1. \A b \in since..checkpoint - 1 : Indexed(b)'
    BY <1>3 DEF WatcherInv, IndexComplete, Indexed, store
  <2>2. \A b \in since'..begin(h) - 1 : Indexed(b)'
    BY <1>1, <1>2, <1>5, <2>1
  <2> QED
    BY <1>6, <2>2 DEF LoopIndexed
<1>11. WalkMeetsLoop'
  BY <1>1, <1>2, <1>3, <1>6 DEF WatcherInv, PoolsComplete, WalkMeetsLoop, Pooled, Walked, store, disk
<1> QED
  BY <1>7, <1>8, <1>9, <1>10, <1>11 DEF WatcherInv

\* The target and the chunk are ahead of what is done.
LEMMA ReadingAheadKeeps ==
    ASSUME WatcherInv, FetchHead \/ BeginChunk
    PROVE  WatcherInv'
<1>1. CASE FetchHead
  <2>1. PICK h \in 1..head : loop' = [loop EXCEPT !.target = Lower(h, loop.next + MaxBatch - 1)]
    BY <1>1 DEF FetchHead
  <2>2. Lower(h, loop.next + MaxBatch - 1) \in Nat
    BY Parameters DEF Lower, WatcherInv, Numbers, Loops
  <2> QED
    BY <1>1, <2>1, <2>2 DEF FetchHead, WatcherInv, Numbers, Loops, IndexComplete, PoolsComplete,
                            LoopIndexed, WalkMeetsLoop, Indexed, Pooled, store, disk
<1>2. CASE BeginChunk
  <2> DEFINE last == Lower(loop.target, loop.next + loop.width - 1)
  <2>1. loop' = [loop EXCEPT !.upTo = last] /\ waiting' = loop.next..last /\ loop.up
    BY <1>2 DEF BeginChunk
  <2>2. last \in Nat
    BY <1>2 DEF BeginChunk, Lower, WatcherInv, Numbers, Loops
  <2> HIDE DEF last
  <2> QED
    BY <1>2, <2>1, <2>2 DEF BeginChunk, WatcherInv, Numbers, Loops, IndexComplete, PoolsComplete,
                            LoopIndexed, WalkMeetsLoop, Indexed, Pooled, store, disk
<1> QED
  BY <1>1, <1>2

\* The pass starts over from where the loop is.
LEMMA RetryingIsNoStep ==
    ASSUME NEW l \in Loops
    PROVE  /\ Retrying(l) \in Loops
           /\ Retrying(l).up = l.up /\ Retrying(l).next = l.next
           /\ Retrying(l).target = 0 /\ Retrying(l).upTo = 0
<1>1. l.width \div 2 \in Nat
  BY DEF Loops
<1>2. Higher(1, l.width \div 2) \in Nat \ {0}
  BY <1>1 DEF Higher
<1>3. \A w \in Nat \ {0} :
        LET r == [l EXCEPT !.target = 0, !.upTo = 0, !.width = w]
        IN  r \in Loops /\ r.up = l.up /\ r.next = l.next /\ r.target = 0 /\ r.upTo = 0
  BY DEF Loops
<1> QED
  BY <1>2, <1>3 DEF Retrying

\* One call of the chunk ends it; nothing is taken for done.
LEMMA ThrowKeeps ==
    ASSUME WatcherInv, NEW b, BlockThrows(b)
    PROVE  WatcherInv'
<1>1. StoreGrows
  BY CutShortGrows DEF BlockThrows, Throws
<1>2. /\ loop' \in Loops
      /\ loop'.up = loop.up /\ loop'.next = loop.next /\ loop'.target = 0 /\ loop'.upTo = 0
  BY RetryingIsNoStep DEF BlockThrows, WatcherInv, Numbers
<1>3. UNCHANGED <<head, disk, walk, since>>
  BY DEF BlockThrows
<1>4. \A c : (Indexed(c) => Indexed(c)') /\ (Pooled(c) => Pooled(c)')
  BY <1>1 DEF StoreGrows, Indexed, Pooled
<1>5. Numbers' /\ (indexed \subseteq pools)'
  BY <1>1, <1>2, <1>3 DEF WatcherInv, Numbers, StoreGrows, disk
<1>6. IndexComplete' /\ PoolsComplete'
  BY <1>1, <1>3 DEF WatcherInv, IndexComplete, PoolsComplete, StoreGrows, disk
<1>7. LoopIndexed' /\ WalkMeetsLoop'
  BY <1>2, <1>3, <1>4 DEF WatcherInv, LoopIndexed, WalkMeetsLoop, disk
<1> QED
  BY <1>5, <1>6, <1>7 DEF WatcherInv

\* A process that is down knows nothing; what is on disk stays true.
LEMMA DeathKeeps ==
    ASSUME WatcherInv, Dies, StoreGrows, UNCHANGED <<head, scanned, since>>,
           checkpoint' \in Nat,
           \A b \in since..checkpoint' - 1 : Indexed(b)
    PROVE  WatcherInv'
<1>1. Numbers' /\ (indexed \subseteq pools)'
  BY Parameters DEF WatcherInv, Numbers, Loops, Dies, Down, Walked, StoreGrows
<1>2. IndexComplete' /\ PoolsComplete'
  BY DEF WatcherInv, IndexComplete, PoolsComplete, StoreGrows, Indexed
<1>3. LoopIndexed' /\ WalkMeetsLoop'
  BY DEF LoopIndexed, WalkMeetsLoop, Dies, Down, Walked
<1> QED
  BY <1>1, <1>2, <1>3 DEF WatcherInv

\* Where the loop may be committed: all before l.next is done.
LEMMA CommitKeeps ==
    ASSUME WatcherInv,
           NEW l \in Loops,
           l.up, l.upTo = 0,
           \A b \in since..l.next - 1 : Indexed(b),
           walk.from > 0 => \A b \in walk.until + 1..l.next - 1 : Pooled(b),
           walk.caught => l.next > 0 /\ \A b \in 1..l.next - 1 : Pooled(b),
           loop.up, Commit(l), UNCHANGED <<head, store, since, nulls, short>>
    PROVE  WatcherInv'
<1> USE DEF Loops
<1>a. /\ head \in Nat /\ checkpoint \in Nat /\ scanned \in Nat /\ since \in Nat
      /\ walk \in [from: Nat, until: Nat, caught: BOOLEAN]
      /\ l.next \in Nat
      /\ head' = head /\ since' = since /\ indexed' = indexed /\ pools' = pools /\ nulls' = nulls /\ short' = short
  BY DEF WatcherInv, Numbers, store
<1>b. checkpoint' \in {0, l.next} =>
        checkpoint' \in Nat /\ \A b \in since..checkpoint' - 1 : Indexed(b)
  <2>1. ASSUME checkpoint' = 0 PROVE \A b \in since..checkpoint' - 1 : FALSE
    BY <1>a, <2>1
  <2> QED
    BY <1>a, <2>1
<1>1. CASE /\ checkpoint' = l.next
           /\ scanned' = ScannedAt(l.next)
           /\ loop' = [l EXCEPT !.saved = l.next]
           /\ UNCHANGED <<waiting, strays, walk, failed>>
  <2>1. scanned' \in Nat
    BY <1>1, <1>a DEF ScannedAt
  <2>2. Numbers' /\ (indexed \subseteq pools)'
    BY <1>a, <1>1, <2>1 DEF WatcherInv, Numbers
  <2>3. IndexComplete' /\ LoopIndexed'
    BY <1>1 DEF IndexComplete, LoopIndexed, Indexed, store
  <2>4. PoolsComplete'
    BY <1>1 DEF ScannedAt, WatcherInv, PoolsComplete, Pooled, store
  <2>5. WalkMeetsLoop'
    BY <1>1 DEF ScannedAt, WatcherInv, WalkMeetsLoop, Pooled, store
  <2> QED
    BY <2>2, <2>3, <2>4, <2>5 DEF WatcherInv
<1>2. CASE checkpoint' \in {0, l.next} /\ loop' = Retrying(l) /\ UNCHANGED <<waiting, strays, walk, scanned>>
  <2>1. /\ loop' \in Loops
        /\ loop'.up = l.up /\ loop'.next = l.next /\ loop'.target = 0 /\ loop'.upTo = 0
    BY <1>2, RetryingIsNoStep
  <2>2. Numbers' /\ (indexed \subseteq pools)'
    BY <1>a, <1>b, <1>2, <2>1 DEF WatcherInv, Numbers
  <2>3. IndexComplete' /\ LoopIndexed'
    <3>1. \A b \in since..l.next - 1 : Indexed(b)'
      BY DEF Indexed, store
    <3>2. \A b \in since'..checkpoint' - 1 : Indexed(b)'
      BY <1>a, <1>b, <1>2 DEF Indexed
    <3> QED
      BY <2>1, <3>1, <3>2 DEF IndexComplete, LoopIndexed, Indexed
  <2>4. PoolsComplete' /\ WalkMeetsLoop'
    BY <1>2, <2>1 DEF WatcherInv, PoolsComplete, WalkMeetsLoop, Pooled, store
  <2> QED
    BY <2>2, <2>3, <2>4 DEF WatcherInv
<1>3. CASE checkpoint' \in {0, l.next} /\ Dies /\ UNCHANGED scanned
  <2>1. StoreGrows
    BY DEF WatcherInv, StoreGrows, store
  <2>2. checkpoint' \in Nat /\ \A b \in since..checkpoint' - 1 : Indexed(b)
    BY <1>3, <1>b
  <2> QED
    BY <1>3, <2>1, <2>2, DeathKeeps
<1> QED
  BY <1>1, <1>2, <1>3 DEF Commit

\* The checkpoint moves only behind blocks that are done: none of the chunk is out.
LEMMA ChunkKeeps ==
    ASSUME WatcherInv, FinishChunk
    PROVE  WatcherInv'
<1>1. PICK width \in {loop.width, Lower(loop.width + 1, Concurrency)} :
        LET l == [loop EXCEPT !.next = loop.upTo + 1, !.upTo = 0, !.width = width]
        IN  IF l.next - l.saved >= SaveEvery
            THEN Commit(l)
            ELSE loop' = l /\ UNCHANGED <<disk, waiting, strays, walk, failed>>
  BY DEF FinishChunk
<1> DEFINE l == [loop EXCEPT !.next = loop.upTo + 1, !.upTo = 0, !.width = width]
<1>2. width \in Nat \ {0}
  BY Parameters DEF WatcherInv, Numbers, Loops, Lower
<1>3. l \in Loops /\ l.upTo = 0 /\ l.next = loop.upTo + 1 /\ l.up = loop.up
  <2>1. loop \in Loops /\ loop.upTo + 1 \in Nat
    BY DEF WatcherInv, Numbers, Loops
  <2>2. \A n \in Nat : LET r == [loop EXCEPT !.next = n, !.upTo = 0, !.width = width]
                        IN  r \in Loops /\ r.upTo = 0 /\ r.next = n /\ r.up = loop.up
    BY <1>2, <2>1 DEF Loops
  <2> QED
    BY <2>1, <2>2
<1>4. loop.up /\ loop.upTo > 0 /\ UNCHANGED <<head, store, since, nulls, short>>
  BY DEF FinishChunk, WatcherInv, LoopIndexed
<1>5. \A b \in loop.next..loop.upTo : Indexed(b)
  BY <1>4 DEF FinishChunk, WatcherInv, LoopIndexed
<1>6. loop.next \in Nat /\ loop.upTo \in Nat /\ since \in Nat /\ walk.until \in Nat
  BY DEF WatcherInv, Numbers, Loops
<1>7. \A b \in since..l.next - 1 : Indexed(b)
  BY <1>3, <1>4, <1>5, <1>6 DEF WatcherInv, LoopIndexed
<1>8. \A b : Indexed(b) => Pooled(b)
  BY DEF WatcherInv, Indexed, Pooled
<1>9. walk.from > 0 => \A b \in walk.until + 1..l.next - 1 : Pooled(b)
  BY <1>3, <1>5, <1>6, <1>8 DEF WatcherInv, WalkMeetsLoop
<1>10. walk.caught => l.next > 0 /\ \A b \in 1..l.next - 1 : Pooled(b)
  BY <1>3, <1>5, <1>6, <1>8 DEF WatcherInv, WalkMeetsLoop
<1> HIDE DEF l
<1>11. CASE Commit(l)
  BY <1>3, <1>4, <1>7, <1>9, <1>10, <1>11, CommitKeeps
<1>12. CASE loop' = l /\ UNCHANGED <<disk, waiting, strays, walk, failed>>
  <2>1. Numbers' /\ (indexed \subseteq pools)' /\ IndexComplete' /\ PoolsComplete'
    BY <1>3, <1>4, <1>12 DEF WatcherInv, Numbers, IndexComplete, PoolsComplete, disk, store
  <2>2. LoopIndexed'
    <3>1. \A b \in since'..l.next - 1 : Indexed(b)'
      BY <1>4, <1>7 DEF Indexed, store
    <3>2. loop' = l /\ l.upTo = 0 /\ l.up
      BY <1>3, <1>4, <1>12
    <3> QED
      BY <3>1, <3>2 DEF LoopIndexed
  <2>3. WalkMeetsLoop'
    BY <1>3, <1>4, <1>9, <1>10, <1>12 DEF WatcherInv, WalkMeetsLoop, Pooled, disk, store
  <2> QED
    BY <2>1, <2>2, <2>3 DEF WatcherInv
<1> QED
  BY <1>1, <1>11, <1>12 DEF l

\* The end of a pass commits what its chunks have indexed.
LEMMA PassKeeps ==
    ASSUME WatcherInv, FinishPass
    PROVE  WatcherInv'
<1> DEFINE l == [loop EXCEPT !.target = 0]
<1>1. Commit(l) /\ UNCHANGED <<head, store, since, nulls, short>> /\ loop.next > loop.target /\ loop.upTo = 0
  BY DEF FinishPass
<1>2. l \in Loops /\ l.upTo = 0 /\ l.next = loop.next /\ l.up = loop.up
  BY <1>1 DEF WatcherInv, Numbers, Loops
<1>3. loop.up /\ loop.next > 0
  BY DEF FinishPass, WatcherInv, Numbers, Loops, LoopIndexed
<1> QED
  BY <1>1, <1>2, <1>3, CommitKeeps DEF WatcherInv, LoopIndexed, WalkMeetsLoop

-----------------------------------------------------------------------------
(* The walk, the chain and the crash *)

\* A call of the chunk that has returned is done.
LEMMA BlockKeeps ==
    ASSUME WatcherInv, NEW b, BlockReturns(b) \/ StrayEnds(b)
    PROVE  WatcherInv'
<1>1. StoreGrows
  BY ReturnsGrow, CutShortGrows DEF BlockReturns, StrayEnds, Throws
<1>2. UNCHANGED <<head, disk, loop, walk, since>>
  BY DEF BlockReturns, StrayEnds
<1>3. \A c : c \in waiting => c \in waiting' \/ Indexed(c)'
  BY ReturnsGrow DEF BlockReturns, StrayEnds
<1> QED
  BY <1>1, <1>2, <1>3, GrowthKeeps

\* The pools of a window, as far as the node answers, are stored before the checkpoint
\* moves past it.
LEMMA WindowKeeps ==
    ASSUME WatcherInv, WalkWindow
    PROVE  WatcherInv'
<1>1. walk.from \in Nat /\ walk.until \in Nat /\ walk.from > 0 /\ loop.next \in Nat /\ MaxSpan \in Nat
  BY WatcherConstants DEF WatcherInv, Numbers, Loops, WalkWindow
<1>2. PICK to \in walk.from..Lower(walk.until, walk.from + MaxSpan - 1) :
        /\ \/ pools' = pools \cup (walk.from..to) /\ short' = short
           \/ \E first \in walk.from..to : /\ pools' = pools \cup (walk.from..first - 1)
                                           /\ short' = short \cup (first..to)
        /\ scanned' = to
        /\ walk' = [walk EXCEPT !.from = to + 1]
  BY DEF WalkWindow
<1>3. to \in Nat /\ walk.from <= to
  BY <1>1, <1>2
<1>4. UNCHANGED <<head, tape, indexed, checkpoint, loop, waiting, strays, since, nulls>>
  BY DEF WalkWindow
<1>5. /\ walk' \in [from: Nat, until: Nat, caught: BOOLEAN]
      /\ walk'.from = to + 1 /\ walk'.until = walk.until /\ walk'.caught = walk.caught
  <2>1. to + 1 \in Nat
    BY <1>3
  <2>2. \A n \in Nat : LET w == [walk EXCEPT !.from = n]
                        IN  /\ w \in [from: Nat, until: Nat, caught: BOOLEAN]
                            /\ w.from = n /\ w.until = walk.until /\ w.caught = walk.caught
    BY DEF WatcherInv, Numbers
  <2> QED
    BY <1>2, <2>1, <2>2
<1>6. Numbers' /\ (indexed \subseteq pools)'
  BY <1>2, <1>3, <1>4, <1>5 DEF WatcherInv, Numbers
<1>7. IndexComplete' /\ LoopIndexed'
  BY <1>4 DEF WatcherInv, IndexComplete, LoopIndexed, Indexed
<1>8. (\A b : Pooled(b) => Pooled(b)') /\ \A b \in walk.from..to : Pooled(b)'
  BY <1>1, <1>2, <1>3, <1>4 DEF Pooled
<1>9. PoolsComplete'
  <2>1. \A b \in 1..walk.from - 1 : Pooled(b)
    BY <1>1 DEF WatcherInv, PoolsComplete, WalkMeetsLoop, Pooled
  <2> QED
    BY <1>1, <1>2, <1>3, <1>8, <2>1 DEF PoolsComplete, Pooled
<1>10. WalkMeetsLoop'
  <2>1. loop.up /\ ~walk.caught /\ \A b \in walk.until + 1..loop.next - 1 : Pooled(b)
    BY <1>1 DEF WatcherInv, WalkMeetsLoop
  <2>2. loop' = loop /\ scanned' = walk'.from - 1
    BY <1>2, <1>3, <1>4, <1>5
  <2> QED
    BY <1>5, <1>8, <2>1, <2>2 DEF WalkMeetsLoop
<1> QED
  BY <1>6, <1>7, <1>9, <1>10 DEF WatcherInv

\* When it ends, the walk has met the loop.
LEMMA WalkKeeps ==
    ASSUME WatcherInv, WalkEnds \/ WalkGivesUp
    PROVE  WatcherInv'
<1>1. UNCHANGED <<head, store, disk, loop, waiting, strays, since, nulls, short>>
  BY DEF WalkEnds, WalkGivesUp
<1>2. walk.from \in Nat /\ walk.until \in Nat /\ loop.next \in Nat /\ walk.from > 0 /\ scanned = walk.from - 1
  BY DEF WatcherInv, Numbers, Loops, WalkMeetsLoop, WalkEnds, WalkGivesUp
<1>3. walk' = [Walked EXCEPT !.caught = TRUE] \/ walk' = Walked
  BY DEF WalkEnds, WalkGivesUp
<1>4. Numbers' /\ (indexed \subseteq pools)' /\ IndexComplete' /\ PoolsComplete' /\ LoopIndexed'
  <2>1. Numbers'
    <3>1. Walked \in [from: Nat, until: Nat, caught: BOOLEAN]
      BY DEF Walked
    <3>2. [Walked EXCEPT !.caught = TRUE] \in [from: Nat, until: Nat, caught: BOOLEAN]
      BY <3>1
    <3> QED
      BY <1>1, <1>3, <3>1, <3>2 DEF WatcherInv, Numbers, disk
  <2>2. (indexed \subseteq pools)' /\ IndexComplete' /\ PoolsComplete'
    BY <1>1 DEF WatcherInv, IndexComplete, PoolsComplete, store, disk
  <2>3. LoopIndexed'
    BY <1>1 DEF WatcherInv, LoopIndexed, Indexed, store
  <2> QED
    BY <2>1, <2>2, <2>3
<1>5. CASE WalkGivesUp
  BY <1>4, <1>5 DEF WalkGivesUp, WalkMeetsLoop, Walked, WatcherInv
<1>6. CASE WalkEnds
  <2>1. loop.up /\ \A b \in 1..loop.next - 1 : Pooled(b)
    BY <1>2, <1>6 DEF WalkEnds, WatcherInv, WalkMeetsLoop, PoolsComplete, Pooled
  <2>2. walk'.from = 0 /\ walk'.caught
    BY <1>6 DEF WalkEnds, Walked
  <2> QED
    BY <1>1, <1>4, <2>1, <2>2 DEF WatcherInv, WalkMeetsLoop, Pooled, store, disk
<1> QED
  BY <1>5, <1>6

\* The chain grows at its end.
LEMMA ChainKeeps ==
    ASSUME WatcherInv, BlockProduced
    PROVE  WatcherInv'
<1>1. head' \in Nat /\ UNCHANGED <<store, disk, process, since, nulls, short>>
  BY DEF BlockProduced, WatcherInv, Numbers
<1> QED
  BY <1>1 DEF WatcherInv, Numbers, IndexComplete, LoopIndexed, PoolsComplete, WalkMeetsLoop,
              Indexed, Pooled, store, disk, process

\* A crash leaves what was written.
LEMMA CrashKeeps ==
    ASSUME WatcherInv, Crash
    PROVE  WatcherInv'
<1>1. StoreGrows
  <2>1. CASE UNCHANGED <<store, nulls, short>>
    BY <2>1 DEF StoreGrows, WatcherInv, store
  <2>2. CASE \E b \in waiting \cup {c \in Blocks : strays[c] > 0} : CutShort(b)
    BY <2>2, CutShortGrows
  <2>3. CASE pools' = pools \cup {walk.from} /\ UNCHANGED <<tape, indexed, nulls, short>>
    BY <2>3 DEF StoreGrows, WatcherInv
  <2> QED
    BY <2>1, <2>2, <2>3 DEF Crash
<1>2. Dies /\ UNCHANGED <<head, disk, since>>
  BY DEF Crash
<1>3. checkpoint' \in Nat /\ scanned' = scanned /\ \A b \in since..checkpoint' - 1 : Indexed(b)
  BY <1>2 DEF WatcherInv, Numbers, IndexComplete, Indexed, disk
<1> QED
  BY <1>1, <1>2, <1>3, DeathKeeps

-----------------------------------------------------------------------------

\* Every step keeps the two indexes.
LEMMA WatcherKeeps ==
    ASSUME BackfillIsShort, WatcherInv, [Next]_vars
    PROVE  WatcherInv'
<1>1. CASE Loop
  BY <1>1, StartKeeps, ReadingAheadKeeps, BlockKeeps, ThrowKeeps, ChunkKeeps, PassKeeps DEF Loop
<1>2. CASE UNCHANGED vars
  BY <1>2 DEF vars, disk, process, store, WatcherInv, Numbers, IndexComplete, LoopIndexed,
              PoolsComplete, WalkMeetsLoop, Indexed, Pooled
<1> QED
  BY <1>1, <1>2, WindowKeeps, WalkKeeps, ChainKeeps, CrashKeeps DEF Next

\* The checkpoint never passes a block that was not processed to its end, whichever calls
\* of a chunk fail or outlive it and wherever the process dies (main.ts:231-296).
THEOREM IndexIsComplete ==
    ASSUME BackfillIsShort
    PROVE  Spec => []IndexComplete
<1>1. Init => WatcherInv
  BY WatcherInitially
<1>2. WatcherInv /\ [Next]_vars => WatcherInv'
  BY WatcherKeeps
<1>3. WatcherInv => IndexComplete
  BY DEF WatcherInv
<1> QED
  BY <1>1, <1>2, <1>3, PTL DEF Spec

\* The V4 checkpoint never passes a block whose pools are not in the store, though the
\* walk and the live loop move it in turns (main.ts:227-233, v4.ts:104-161).
THEOREM PoolsAreComplete ==
    ASSUME BackfillIsShort
    PROVE  Spec => []PoolsComplete
<1>1. Init => WatcherInv
  BY WatcherInitially
<1>2. WatcherInv /\ [Next]_vars => WatcherInv'
  BY WatcherKeeps
<1>3. WatcherInv => PoolsComplete
  BY DEF WatcherInv
<1> QED
  BY <1>1, <1>2, <1>3, PTL DEF Spec

-----------------------------------------------------------------------------
(* The group of a block *)

Candle == [first: Nat, last: Nat, open: Nat, close: Nat, high: Nat, low: Nat]

\* c has the highest and the lowest price of V.
Spans(c, V) ==
    /\ c.high \in V /\ c.low \in V
    /\ \A v \in V : c.low <= v /\ v <= c.high

\* c is the group of the first n points of b.
GroupOf(b, n, c) ==
    /\ c \in Candle
    /\ c.first = b /\ c.last = b
    /\ c.open \in {Prices[b][i] : i \in 1..n}
    /\ c.close = Prices[b][n]
    /\ Spans(c, {Prices[b][i] : i \in 1..n})

\* What the recursive function in Group says of the first n points.
FirstPoint(b) ==
    LET p == Prices[b][1]
    IN  [first |-> b, last |-> b, open |-> p, close |-> p, high |-> p, low |-> p]
GroupStep(b, n, h) == IF n = 1 THEN FirstPoint(b) ELSE WithPoint(b, h[n - 1], Prices[b][n])

\* The recursive function in Group exists: one for n points extends to one point more.
LEMMA GroupsExist ==
    ASSUME NEW b, NEW n \in Nat
    PROVE  \E h : h = [k \in 1..n |-> GroupStep(b, k, h)]
<1> DEFINE For(k) == \E h : h = [j \in 1..k |-> GroupStep(b, j, h)]
<1>1. ASSUME NEW k \in Nat, k # 0 => For(k - 1)
      PROVE  For(k)
  <2>1. PICK g : k # 0 => g = [j \in 1..(k - 1) |-> GroupStep(b, j, g)]
    BY <1>1
  <2>2. PICK h : h = [j \in 1..k |-> GroupStep(b, j, g)]
    OBVIOUS
  <2>3. ASSUME NEW j \in 1..k
        PROVE  GroupStep(b, j, g) = GroupStep(b, j, h)
    <3>1. CASE j = 1
      BY <3>1 DEF GroupStep
    <3>2. CASE j # 1
      <4>1. PICK i : i = j - 1
        OBVIOUS
      <4>2. k # 0 /\ i \in 1..(k - 1) /\ i \in 1..k
        BY <3>2, <4>1
      <4>3. g[i] = GroupStep(b, i, g) /\ h[i] = GroupStep(b, i, g)
        <5>1. g = [l \in 1..(k - 1) |-> GroupStep(b, l, g)]
          BY <2>1, <4>2
        <5>2. g[i] = GroupStep(b, i, g)
          BY <4>2, <5>1
        <5> QED
          BY <2>2, <4>2, <5>2
      <4> QED
        BY <4>1, <4>3 DEF GroupStep
    <3> QED
      BY <3>1, <3>2
  <2>4. h = [j \in 1..k |-> GroupStep(b, j, h)]
    BY <2>2, <2>3
  <2> QED
    BY <2>4
<1> HIDE DEF For
<1>2. ASSUME {k \in Nat : ~For(k)} # {}
      PROVE  FALSE
  <2>1. PICK T : T = {k \in Nat : ~For(k)}
    OBVIOUS
  <2>2. PICK k \in T : \A m \in T : k <= m
    BY <1>2, <2>1, LeastNatural
  <2>3. k # 0 => For(k - 1)
    BY <2>1, <2>2
  <2> QED
    BY <1>1, <2>1, <2>2, <2>3
<1>3. For(n)
  BY <1>2
<1> QED
  BY <1>3 DEF For

\* A point that joins a group of n makes it one of n + 1.
LEMMA PointJoins ==
    ASSUME NEW b \in Blocks, NEW n \in Nat, n + 1 \in DOMAIN Prices[b], n # 0,
           NEW g, GroupOf(b, n, g)
    PROVE  GroupOf(b, n + 1, WithPoint(b, g, Prices[b][n + 1]))
<1>1. PICK v : v = Prices[b][n + 1]
  OBVIOUS
<1>2. v \in Nat /\ b \in Nat
  <2>1. Prices[b] \in Seq(Nat)
    BY CandleConstants
  <2> QED
    BY <1>1, <2>1, CandleConstants
<1>3. PICK c : c = WithPoint(b, g, v)
  OBVIOUS
<1>4. g \in Candle /\ g.first = b /\ g.last = b
  BY DEF GroupOf
<1>5. /\ c \in Candle
      /\ c.first = b /\ c.last = b /\ c.open = v /\ c.close = v
      /\ c.high = Higher(g.high, v) /\ c.low = Lower(g.low, v)
  <2>1. PICK h \in Nat, l \in Nat : h = Higher(g.high, v) /\ l = Lower(g.low, v)
    BY <1>2, <1>4 DEF Candle, Higher, Lower
  <2>2. b <= g.first /\ b >= g.last /\ Lower(g.first, b) = b /\ Higher(g.last, b) = b
    BY <1>2, <1>4 DEF Higher, Lower
  <2>3. c = [g EXCEPT !.high = h, !.low = l, !.open = v, !.first = b, !.close = v, !.last = b]
    BY <1>3, <2>1, <2>2 DEF WithPoint
  <2> QED
    BY <1>2, <1>4, <2>1, <2>3 DEF Candle
<1>6. PICK V : V = {Prices[b][i] : i \in 1..n}
  OBVIOUS
<1>7. {Prices[b][i] : i \in 1..(n + 1)} = V \cup {v}
  <2>1. 1..(n + 1) = (1..n) \cup {n + 1}
    OBVIOUS
  <2> QED
    BY <1>1, <1>6, <2>1
<1>8. V \subseteq Nat
  <2>1. Prices[b] \in Seq(Nat) /\ \A i \in 1..n : i \in DOMAIN Prices[b]
    BY CandleConstants
  <2> QED
    BY <1>6, <2>1
<1>9. Spans(c, V \cup {v})
  <2>1. Spans(g, V)
    BY <1>6 DEF GroupOf
  <2>2. g.high \in Nat /\ g.low \in Nat
    BY <1>4 DEF Candle
  <2> QED
    BY <1>2, <1>5, <1>8, <2>1, <2>2 DEF Spans, Higher, Lower
<1> QED
  BY <1>1, <1>3, <1>5, <1>7, <1>9 DEF GroupOf

\* So the group of a block that trades is of all its points.
LEMMA GroupIsOfAll ==
    ASSUME NEW b \in Blocks, Prices[b] # <<>>
    PROVE  GroupOf(b, Len(Prices[b]), Group(b))
<1>1. Prices[b] \in Seq(Nat) /\ b \in Nat
  BY CandleConstants
<1>2. PICK n \in Nat : n = Len(Prices[b]) /\ n # 0
  BY <1>1
<1>3. DOMAIN Prices[b] = 1..n /\ \A i \in 1..n : Prices[b][i] \in Nat
  BY <1>1, <1>2
<1> DEFINE joined == CHOOSE h : h = [k \in 1..n |-> GroupStep(b, k, h)]
<1>4. joined = [k \in 1..n |-> GroupStep(b, k, joined)]
  BY GroupsExist
<1>5. Group(b) = joined[n]
  BY <1>2 DEF Group, GroupStep, FirstPoint
<1> HIDE DEF joined
<1>6. \A k \in 1..n : joined[k] = GroupStep(b, k, joined)
  BY <1>4
<1>7. GroupOf(b, 1, joined[1])
  <2>1. joined[1] = FirstPoint(b) /\ Prices[b][1] \in Nat
    BY <1>2, <1>3, <1>6 DEF GroupStep
  <2>2. {Prices[b][i] : i \in 1..1} = {Prices[b][1]}
    OBVIOUS
  <2> QED
    BY <1>1, <2>1, <2>2 DEF GroupOf, FirstPoint, Candle, Spans
<1>8. PICK T : T = {k \in Nat : k \in 1..n /\ ~GroupOf(b, k, joined[k])}
  OBVIOUS
<1>9. ASSUME T # {}
      PROVE  FALSE
  <2>1. PICK k \in T : \A m \in T : k <= m
    BY <1>8, <1>9, LeastNatural
  <2>2. k \in 1..n /\ k # 1 /\ ~GroupOf(b, k, joined[k])
    BY <1>7, <1>8, <2>1
  <2>3. PICK j \in Nat : k = j + 1 /\ j # 0 /\ j \in 1..n /\ j = k - 1
    BY <2>2
  <2>4. GroupOf(b, j, joined[j])
    BY <1>8, <2>1, <2>3
  <2>5. joined[k] = WithPoint(b, joined[j], Prices[b][k])
    BY <1>6, <2>2, <2>3 DEF GroupStep
  <2> QED
    BY <1>3, <2>2, <2>3, <2>4, <2>5, PointJoins
<1>10. GroupOf(b, n, joined[n])
  BY <1>2, <1>8, <1>9
<1> QED
  BY <1>2, <1>5, <1>10

-----------------------------------------------------------------------------
(* The candle of a minute *)

\* What IsCandleOf says of blocks that traded, by the bounds of each and not by a choice.
CandleOf(c, B) ==
    /\ c \in Candle
    /\ c.first \in B /\ c.last \in B
    /\ \A b \in B : c.first <= b /\ b <= c.last
    /\ c.open \in Range(Prices[c.first])
    /\ c.close = Prices[c.last][Len(Prices[c.last])]
    /\ Spans(c, PricesOf(B))

\* The prices of blocks are numbers.
LEMMA PricesAreNumbers ==
    ASSUME NEW B, B \subseteq Blocks
    PROVE  PricesOf(B) \subseteq Nat
<1>1. ASSUME NEW b \in B
      PROVE  Range(Prices[b]) \subseteq Nat
  <2>1. Prices[b] \in Seq(Nat)
    BY CandleConstants
  <2> QED
    BY <2>1 DEF Range
<1> QED
  BY <1>1 DEF PricesOf

\* The bounds are the least and the greatest.
LEMMA BoundsAreExact ==
    ASSUME NEW B, B \subseteq Blocks, NEW c, CandleOf(c, B)
    PROVE  IsCandleOf(c, B)
<1>1. B \subseteq Nat /\ PricesOf(B) \subseteq Nat
  BY CandleConstants, PricesAreNumbers
<1>2. ASSUME NEW S, S \subseteq Nat, NEW x \in S
      PROVE  /\ (\A y \in S : x <= y) => x = Min(S)
             /\ (\A y \in S : y <= x) => x = Max(S)
  <2>1. ASSUME \A y \in S : x <= y
        PROVE  x = Min(S)
    <3>1. PICK m : m = Min(S)
      OBVIOUS
    <3>2. m \in S /\ \A y \in S : m <= y
      BY <1>2, <2>1, <3>1 DEF Min
    <3>3. x <= m /\ m <= x /\ x \in Nat /\ m \in Nat
      BY <1>2, <2>1, <3>2
    <3> QED
      BY <3>1, <3>3
  <2>2. ASSUME \A y \in S : y <= x
        PROVE  x = Max(S)
    <3>1. PICK m : m = Max(S)
      OBVIOUS
    <3>2. \A y \in S : x >= y
      BY <1>2, <2>2
    <3>3. m \in S /\ \A y \in S : m >= y
      BY <1>2, <3>1, <3>2 DEF Max
    <3>4. x >= m /\ m >= x /\ x \in Nat /\ m \in Nat
      BY <1>2, <3>2, <3>3
    <3> QED
      BY <3>1, <3>4
  <2> QED
    BY <2>1, <2>2
<1>3. c.first = Min(B) /\ c.last = Max(B)
  BY <1>1, <1>2 DEF CandleOf
<1>4. c.high = Max(PricesOf(B)) /\ c.low = Min(PricesOf(B))
  BY <1>1, <1>2 DEF CandleOf, Spans
<1> QED
  BY <1>3, <1>4 DEF CandleOf, IsCandleOf

\* The candle of a block alone.
LEMMA GroupIsCandle ==
    ASSUME NEW b \in Blocks, Prices[b] # <<>>
    PROVE  CandleOf(Group(b), {b})
<1>1. PICK g : g = Group(b)
  OBVIOUS
<1>2. PICK n \in Nat : n = Len(Prices[b]) /\ DOMAIN Prices[b] = 1..n
  BY CandleConstants
<1>3. GroupOf(b, n, g)
  BY <1>1, <1>2, GroupIsOfAll
<1>4. {Prices[b][i] : i \in 1..n} = Range(Prices[b])
  BY <1>2 DEF Range
<1>5. PricesOf({b}) = Range(Prices[b])
  BY DEF PricesOf
<1>6. b \in Nat
  BY CandleConstants
<1>7. g \in Candle /\ g.first = b /\ g.last = b /\ g.close = Prices[b][n]
  BY <1>3 DEF GroupOf
<1>8. g.open \in Range(Prices[b]) /\ Spans(g, PricesOf({b}))
  BY <1>3, <1>4, <1>5 DEF GroupOf
<1> QED
  BY <1>1, <1>2, <1>6, <1>7, <1>8 DEF CandleOf

\* Its upsert makes a candle one of a block more, whether it comes before, between or
\* behind the others, and changes nothing of note when it is one of them.
LEMMA UpsertJoins ==
    ASSUME NEW B, B \subseteq Blocks, NEW c, CandleOf(c, B), c # NoCandle,
           NEW b \in Blocks, NEW g, CandleOf(g, {b})
    PROVE  CandleOf(Upserted(c, g), B \cup {b})
<1>1. B \subseteq Nat /\ b \in Nat
  BY CandleConstants
<1>2. PICK d : d = Upserted(c, g)
  OBVIOUS
<1>3. /\ d.open = IF g.first < c.first THEN g.open ELSE c.open
      /\ d.close = IF g.last > c.last THEN g.close ELSE c.close
      /\ d.high = Higher(c.high, g.high) /\ d.low = Lower(c.low, g.low)
      /\ d.first = Lower(c.first, g.first) /\ d.last = Higher(c.last, g.last)
      /\ d = [open |-> d.open, close |-> d.close, high |-> d.high, low |-> d.low,
              first |-> d.first, last |-> d.last]
  BY <1>2 DEF Upserted
<1>4. c \in Candle /\ g \in Candle /\ g.first = b /\ g.last = b
  BY DEF CandleOf
<1>5. d.first \in Nat /\ d.last \in Nat /\ d.open \in Nat /\ d.close \in Nat /\ d.high \in Nat /\ d.low \in Nat
  BY <1>3, <1>4 DEF Candle, Higher, Lower
<1>6. d \in Candle
  BY <1>3, <1>5 DEF Candle
<1>7. /\ c.first \in B /\ c.last \in B
      /\ \A x \in B : c.first <= x /\ x <= c.last
      /\ c.open \in Range(Prices[c.first]) /\ c.close = Prices[c.last][Len(Prices[c.last])]
      /\ g.open \in Range(Prices[b]) /\ g.close = Prices[b][Len(Prices[b])]
  BY <1>4 DEF CandleOf
<1>8. /\ d.first = IF b < c.first THEN b ELSE c.first
      /\ d.last = IF b > c.last THEN b ELSE c.last
      /\ d.open = IF b < c.first THEN g.open ELSE c.open
      /\ d.close = IF b > c.last THEN g.close ELSE c.close
  BY <1>1, <1>3, <1>4, <1>7 DEF Higher, Lower
<1>9. /\ d.first \in B \cup {b} /\ d.last \in B \cup {b}
      /\ \A x \in B \cup {b} : d.first <= x /\ x <= d.last
  <2>1. ASSUME NEW x \in B \cup {b}
        PROVE  d.first <= x /\ x <= d.last
    BY <1>1, <1>7, <1>8
  <2> QED
    BY <1>7, <1>8, <2>1
<1>10. d.open \in Range(Prices[d.first]) /\ d.close = Prices[d.last][Len(Prices[d.last])]
  <2>1. CASE b < c.first
    <3>1. ~(b > c.last)
      BY <1>1, <1>7, <2>1
    <3> QED
      BY <1>7, <1>8, <2>1, <3>1
  <2>2. CASE ~(b < c.first)
    <3>1. d.first = c.first /\ d.open = c.open
      BY <1>8, <2>2
    <3> QED
      BY <1>7, <1>8, <3>1
  <2> QED
    BY <2>1, <2>2
<1>11. Spans(d, PricesOf(B \cup {b}))
  <2>1. PricesOf(B \cup {b}) = PricesOf(B) \cup PricesOf({b})
    BY DEF PricesOf
  <2>2. PICK V, W : V = PricesOf(B) /\ W = PricesOf({b})
    OBVIOUS
  <2>3. V \subseteq Nat /\ W \subseteq Nat
    BY <2>2, PricesAreNumbers
  <2>4. Spans(c, V) /\ Spans(g, W)
    BY <2>2 DEF CandleOf
  <2>5. c.high \in Nat /\ c.low \in Nat /\ g.high \in Nat /\ g.low \in Nat
    BY <1>4 DEF Candle
  <2>6. Spans(d, V \cup W)
    BY <1>3, <2>3, <2>4, <2>5 DEF Spans, Higher, Lower
  <2> QED
    BY <2>1, <2>2, <2>6
<1> QED
  BY <1>2, <1>6, <1>9, <1>10, <1>11 DEF CandleOf

-----------------------------------------------------------------------------
(* The table *)

\* The loop runs over blocks of the chain.
LoopOnChain ==
    /\ head \in 0..MaxHead /\ checkpoint \in Nat
    /\ loop \in Loops
    /\ loop.up => loop.next > 0
    /\ loop.target <= MaxHead
    /\ waiting \subseteq Blocks

\* Every candle is that of its blocks.
TapeKept ==
    /\ taped \subseteq Blocks
    /\ DOMAIN candles = Minutes
    /\ \A m \in Minutes : IF Traded(taped, m) = {} THEN candles[m] = NoCandle
                          ELSE CandleOf(candles[m], Traded(taped, m))

TapeInv == LoopOnChain /\ TapeKept

\* The table is empty, and the loop not yet started.
LEMMA TapeInitially == Init => TapeInv
BY Parameters DEF Init, TapeInv, LoopOnChain, TapeKept, Loops, Down, Traded

\* processBlock's write to the tape.
LEMMA TapeJoins ==
    ASSUME TapeKept, NEW b \in Blocks, Tape(b)
    PROVE  TapeKept'
<1>1. taped' = taped \cup {b} /\ taped \subseteq Blocks
  BY DEF TapeKept, Tape
<1>2. DOMAIN candles' = Minutes
  BY DEF TapeKept, Tape, CandlesWith
<1>3. ASSUME NEW m \in Minutes
      PROVE  IF Traded(taped', m) = {} THEN candles'[m] = NoCandle
             ELSE CandleOf(candles'[m], Traded(taped', m))
  <2>1. CASE m = MinuteOf[b] /\ Prices[b] # <<>>
    <3>1. Traded(taped', m) = Traded(taped, m) \cup {b}
      BY <1>1, <2>1 DEF Traded
    <3>2. candles'[m] = Upserted(candles[m], Group(b))
      BY <2>1 DEF TapeKept, Tape, CandlesWith
    <3>3. CandleOf(Group(b), {b})
      BY <2>1, GroupIsCandle
    <3>4. CASE Traded(taped, m) = {}
      BY <3>1, <3>2, <3>3, <3>4 DEF TapeKept, Upserted
    <3>5. CASE Traded(taped, m) # {}
      <4>1. CandleOf(candles[m], Traded(taped, m)) /\ Traded(taped, m) \subseteq Blocks
        BY <1>1, <3>5 DEF TapeKept, Traded
      <4>2. candles[m] # NoCandle
        BY <4>1, Parameters DEF CandleOf, NoCandle
      <4>3. PICK c, g : c = candles[m] /\ g = Group(b)
        OBVIOUS
      <4> QED
        BY <3>1, <3>2, <3>3, <4>1, <4>2, <4>3, UpsertJoins
    <3> QED
      BY <3>4, <3>5
  <2>2. CASE ~(m = MinuteOf[b] /\ Prices[b] # <<>>)
    <3>1. Traded(taped', m) = Traded(taped, m)
      BY <1>1, <2>2 DEF Traded
    <3>2. candles'[m] = candles[m]
      BY <2>2 DEF TapeKept, Tape, CandlesWith
    <3> QED
      BY <3>1, <3>2 DEF TapeKept
  <2> QED
    BY <2>1, <2>2
<1>4. taped' \subseteq Blocks
  BY <1>1
<1> QED
  BY <1>2, <1>3, <1>4 DEF TapeKept

\* Whatever a call of processBlock comes to, or does before it dies.
LEMMA CallsKeepTape ==
    ASSUME TapeKept, NEW b \in Blocks, Returns(b) \/ CutShort(b)
    PROVE  TapeKept'
<1>1. Tape(b) \/ UNCHANGED tape
  BY DEF Returns, Processed, AnsweredNull, CutShort, store
<1>2. CASE UNCHANGED tape
  BY <1>2 DEF TapeKept, tape
<1> QED
  BY <1>1, <1>2, TapeJoins

\* The loop's numbers after a step of it that does not touch the tape.
LEMMA LoopMoves ==
    ASSUME LoopOnChain, UNCHANGED head, checkpoint' \in Nat,
           NEW l, l \in Loops, l.up => l.next > 0, l.target <= MaxHead,
           loop' = l, waiting' \subseteq Blocks
    PROVE  LoopOnChain'
BY DEF LoopOnChain

\* The loop is down.
LEMMA DownIsLoop == Down \in Loops /\ ~Down.up /\ Down.target <= MaxHead /\ Down.next = 0
BY Parameters DEF Down, Loops

\* After a failure the loop is where it was.
LEMMA RetryingIsLoop ==
    ASSUME NEW l \in Loops
    PROVE  /\ Retrying(l) \in Loops
           /\ Retrying(l).up = l.up /\ Retrying(l).next = l.next /\ Retrying(l).target = 0
<1>1. PICK w \in Nat \ {0} : w = Higher(1, l.width \div 2)
  BY DEF Loops, Higher
<1>2. PICK k : k = [l EXCEPT !.target = 0, !.upTo = 0, !.width = w]
  OBVIOUS
<1>3. k = [up |-> l.up, next |-> l.next, target |-> 0, upTo |-> 0, width |-> w, saved |-> l.saved]
  BY <1>2 DEF Loops
<1>4. l.up \in BOOLEAN /\ l.next \in Nat /\ l.saved \in Nat
  BY DEF Loops
<1>5. k \in Loops /\ k.up = l.up /\ k.next = l.next /\ k.target = 0
  BY <1>3, <1>4 DEF Loops
<1> QED
  BY <1>1, <1>2, <1>5 DEF Retrying

\* commit() leaves the loop at l, or retrying from there, or down.
LEMMA CommitKeepsLoop ==
    ASSUME LoopOnChain, UNCHANGED head, NEW l \in Loops, l.up => l.next > 0, l.target <= MaxHead,
           Commit(l)
    PROVE  LoopOnChain'
<1>1. l.next \in Nat
  BY DEF Loops
<1>2. CASE checkpoint' = l.next /\ loop' = [l EXCEPT !.saved = l.next] /\ UNCHANGED waiting
  <2>1. PICK k : k = [l EXCEPT !.saved = l.next]
    OBVIOUS
  <2>2. k \in Loops /\ k.up = l.up /\ k.next = l.next /\ k.target = l.target
    BY <2>1 DEF Loops
  <2> QED
    BY <1>1, <1>2, <2>1, <2>2, LoopMoves DEF LoopOnChain
<1>3. CASE checkpoint' \in {0, l.next} /\ loop' = Retrying(l) /\ UNCHANGED waiting
  <2>1. 0 <= MaxHead
    BY Parameters
  <2>2. PICK k : k = Retrying(l)
    OBVIOUS
  <2>3. k \in Loops /\ k.up = l.up /\ k.next = l.next /\ k.target <= MaxHead
    BY <2>1, <2>2, RetryingIsLoop
  <2> QED
    BY <1>1, <1>3, <2>2, <2>3, LoopMoves DEF LoopOnChain
<1>4. CASE checkpoint' \in {0, l.next} /\ Dies
  <2>1. loop' = Down /\ waiting' = {}
    BY <1>4 DEF Dies
  <2> QED
    BY <1>1, <1>4, <2>1, DownIsLoop, LoopMoves
<1> QED
  BY <1>2, <1>3, <1>4 DEF Commit

\* The steps of the loop between its calls.
LEMMA LoopKeepsTape ==
    ASSUME TapeInv, Start \/ FetchHead \/ BeginChunk \/ FinishChunk \/ FinishPass
    PROVE  TapeInv'
<1>1. UNCHANGED <<head, tape>>
  BY DEF Start, FetchHead, BeginChunk, FinishChunk, FinishPass, store
<1>2. TapeKept'
  BY <1>1 DEF TapeInv, TapeKept, tape
<1>3. /\ loop \in Loops /\ (loop.up => loop.next > 0) /\ loop.target <= MaxHead
      /\ head \in 0..MaxHead /\ checkpoint \in Nat /\ waiting \subseteq Blocks
  BY DEF TapeInv, LoopOnChain
<1>4. CASE Start
  <2>1. PICK next : /\ next = checkpoint \/ \E h \in 1..head : next = h - Backfill
                    /\ next > 0
                    /\ loop' = [Down EXCEPT !.up = TRUE, !.next = next, !.saved = next]
    BY <1>4 DEF Start
  <2>2. next \in Nat
    BY <1>3, <2>1, Parameters
  <2>3. PICK l : l = [Down EXCEPT !.up = TRUE, !.next = next, !.saved = next]
    OBVIOUS
  <2>4. l \in Loops /\ l.next = next /\ l.target <= MaxHead
    <3>1. l = [up |-> TRUE, next |-> next, target |-> 0, upTo |-> 0, width |-> Concurrency, saved |-> next]
      BY <2>3 DEF Down
    <3> QED
      BY <2>2, <3>1, Parameters DEF Loops
  <2>5. checkpoint' = checkpoint /\ waiting' = waiting
    BY <1>4 DEF Start, disk
  <2> QED
    BY <1>1, <1>2, <1>3, <2>1, <2>3, <2>4, <2>5, LoopMoves DEF TapeInv
<1>5. CASE FetchHead
  <2>1. PICK h \in 1..head : loop' = [loop EXCEPT !.target = Lower(h, loop.next + MaxBatch - 1)]
    BY <1>5 DEF FetchHead
  <2>2. PICK t \in Nat : t = Lower(h, loop.next + MaxBatch - 1) /\ t <= MaxHead
    BY <1>3, Parameters DEF Loops, Lower
  <2>3. PICK l : l = [loop EXCEPT !.target = t]
    OBVIOUS
  <2>4. l \in Loops /\ l.up = loop.up /\ l.next = loop.next /\ l.target <= MaxHead
    BY <1>3, <2>2, <2>3 DEF Loops
  <2>5. checkpoint' = checkpoint /\ waiting' = waiting /\ loop' = l
    BY <1>5, <2>1, <2>2, <2>3 DEF FetchHead, disk
  <2> QED
    BY <1>1, <1>2, <1>3, <2>4, <2>5, LoopMoves DEF TapeInv
<1>6. CASE BeginChunk
  <2>1. PICK last : last = Lower(loop.target, loop.next + loop.width - 1)
    OBVIOUS
  <2>2. /\ loop.up /\ loop.next <= loop.target
        /\ loop' = [loop EXCEPT !.upTo = last] /\ waiting' = loop.next..last
        /\ checkpoint' = checkpoint
    BY <1>6, <2>1 DEF BeginChunk, disk
  <2>3. last \in Nat /\ last <= MaxHead
    BY <1>3, <2>1, <2>2, Parameters DEF Loops, Lower
  <2>4. waiting' \subseteq Blocks
    BY <1>3, <2>2, <2>3, Parameters DEF Loops
  <2>5. PICK l : l = [loop EXCEPT !.upTo = last]
    OBVIOUS
  <2>6. l \in Loops /\ l.up = loop.up /\ l.next = loop.next /\ l.target = loop.target
    BY <1>3, <2>3, <2>5 DEF Loops
  <2> QED
    BY <1>1, <1>2, <1>3, <2>2, <2>4, <2>5, <2>6, LoopMoves DEF TapeInv
<1>7. CASE FinishChunk
  <2>1. PICK width \in {loop.width, Lower(loop.width + 1, Concurrency)} :
          LET l == [loop EXCEPT !.next = loop.upTo + 1, !.upTo = 0, !.width = width]
          IN  IF l.next - l.saved >= SaveEvery
              THEN Commit(l)
              ELSE loop' = l /\ UNCHANGED <<disk, waiting, strays, walk, failed>>
    BY <1>7 DEF FinishChunk
  <2>2. width \in Nat \ {0} /\ loop.upTo + 1 \in Nat \ {0}
    BY <1>3, <2>1, Parameters DEF Loops, Lower
  <2>3. PICK l : l = [loop EXCEPT !.next = loop.upTo + 1, !.upTo = 0, !.width = width]
    OBVIOUS
  <2>4. l \in Loops /\ l.next > 0 /\ l.target = loop.target
    <3>1. l = [up |-> loop.up, next |-> loop.upTo + 1, target |-> loop.target, upTo |-> 0,
               width |-> width, saved |-> loop.saved]
      BY <1>3, <2>3 DEF Loops
    <3>2. loop.up \in BOOLEAN /\ loop.target \in Nat /\ loop.saved \in Nat
      BY <1>3 DEF Loops
    <3> QED
      BY <2>2, <3>1, <3>2 DEF Loops
  <2>5. Commit(l) \/ (loop' = l /\ UNCHANGED <<disk, waiting>>)
    BY <2>1, <2>3
  <2>6. LoopOnChain'
    BY <1>1, <1>3, <2>4, <2>5, CommitKeepsLoop, LoopMoves DEF TapeInv, disk
  <2> QED
    BY <1>2, <2>6 DEF TapeInv
<1>8. CASE FinishPass
  <2>1. PICK l : l = [loop EXCEPT !.target = 0]
    OBVIOUS
  <2>2. l \in Loops /\ l.up = loop.up /\ l.next = loop.next /\ l.target <= MaxHead
    BY <1>3, <2>1, Parameters DEF Loops
  <2>3. Commit(l)
    BY <1>8, <2>1 DEF FinishPass
  <2> QED
    BY <1>1, <1>2, <1>3, <2>2, <2>3, CommitKeepsLoop DEF TapeInv
<1> QED
  BY <1>4, <1>5, <1>6, <1>7, <1>8

\* The end of a call, in its chunk or astray.
LEMMA CallsKeep ==
    ASSUME TapeInv, NEW b \in Blocks, BlockReturns(b) \/ BlockThrows(b) \/ StrayEnds(b)
    PROVE  TapeInv'
<1>1. UNCHANGED <<head, checkpoint>> /\ (loop' = loop \/ loop' = Retrying(loop)) /\ waiting' \subseteq waiting
  BY DEF BlockReturns, BlockThrows, StrayEnds, disk
<1>2. TapeKept'
  BY CallsKeepTape DEF TapeInv, BlockReturns, BlockThrows, StrayEnds, Throws
<1>3. /\ loop \in Loops /\ (loop.up => loop.next > 0) /\ loop.target <= MaxHead
      /\ checkpoint \in Nat /\ waiting \subseteq Blocks
  BY DEF TapeInv, LoopOnChain
<1>4. PICK l : l = loop'
  OBVIOUS
<1>5. l \in Loops /\ l.up = loop.up /\ l.next = loop.next /\ l.target <= MaxHead
  BY <1>1, <1>3, <1>4, RetryingIsLoop, Parameters
<1> QED
  BY <1>1, <1>2, <1>3, <1>4, <1>5, LoopMoves DEF TapeInv

\* A crash leaves at most one more block in the tape.
LEMMA CrashKeepsTape ==
    ASSUME TapeInv, Crash
    PROVE  TapeInv'
<1>1. loop' = Down /\ waiting' = {} /\ UNCHANGED <<head, checkpoint>>
  BY DEF Crash, Dies, disk
<1>2. UNCHANGED tape \/ \E b \in Blocks : CutShort(b)
  BY DEF Crash, store, TapeInv, LoopOnChain
<1>3. TapeKept'
  <2>1. CASE UNCHANGED tape
    BY <2>1 DEF TapeInv, TapeKept, tape
  <2> QED
    BY <1>2, <2>1, CallsKeepTape DEF TapeInv
<1> QED
  BY <1>1, <1>3, DownIsLoop, LoopMoves DEF TapeInv, LoopOnChain

\* Every step keeps the candles.
LEMMA TapeKeeps == TapeInv /\ [Next]_vars => TapeInv'
<1> SUFFICES ASSUME TapeInv, [Next]_vars
             PROVE  TapeInv'
  OBVIOUS
<1>1. CASE Loop
  BY <1>1, LoopKeepsTape, CallsKeep DEF Loop
<1>2. CASE WalkWindow \/ WalkEnds \/ WalkGivesUp \/ UNCHANGED vars
  <2>1. UNCHANGED <<head, candles, taped, checkpoint, loop, waiting>>
    BY <1>2 DEF WalkWindow, WalkEnds, WalkGivesUp, vars, store, tape, disk, process
  <2> QED
    BY <2>1 DEF TapeInv, LoopOnChain, TapeKept
<1>3. CASE BlockProduced
  <2>1. UNCHANGED <<candles, taped, checkpoint, loop, waiting>> /\ head < MaxHead /\ head' = head + 1
    BY <1>3 DEF BlockProduced, store, tape, disk, process
  <2>2. head' \in 0..MaxHead
    BY <2>1, Parameters DEF TapeInv, LoopOnChain
  <2> QED
    BY <2>1, <2>2 DEF TapeInv, LoopOnChain, TapeKept
<1>4. CASE Crash
  BY <1>4, CrashKeepsTape
<1> QED
  BY <1>1, <1>2, <1>3, <1>4 DEF Next

\* In whatever order blocks are processed, retried, finished by a stray call or replayed
\* after a crash, a candle has the bounds, close, high and low of its blocks, each counted
\* once, and opens at a price of the first (upsertCandles, store/src/index.ts:667-719).
THEOREM CandlesAreExact == Spec => []CandlesExact
<1>1. Init => TapeInv
  BY TapeInitially
<1>2. TapeInv /\ [Next]_vars => TapeInv'
  BY TapeKeeps
<1>3. TapeInv => CandlesExact
  <2> SUFFICES ASSUME TapeInv, NEW m \in Minutes
               PROVE  IsCandleOf(candles[m], Traded(taped, m))
    BY DEF CandlesExact
  <2>1. CASE Traded(taped, m) = {}
    BY <2>1 DEF TapeInv, TapeKept, IsCandleOf
  <2>2. CASE Traded(taped, m) # {}
    <3>1. PICK B, c : B = Traded(taped, m) /\ c = candles[m]
      OBVIOUS
    <3>2. B \subseteq Blocks /\ CandleOf(c, B)
      BY <2>2, <3>1 DEF TapeInv, TapeKept, Traded
    <3> QED
      BY <3>1, <3>2, BoundsAreExact
  <2> QED
    BY <2>1, <2>2
<1> QED
  BY <1>1, <1>2, <1>3, PTL DEF Spec
=============================================================================
