------------------------------ MODULE Candles ------------------------------
(***************************************************************************)
(* The minute candles of one pool, packages/store/src/index.ts             *)
(* (upsertCandles).  The watcher adds the swaps of one block at a time, in *)
(* any order of blocks and some blocks again; a candle keeps the first and *)
(* the last block it has seen to tell where it opens and closes.           *)
(***************************************************************************)
EXTENDS Integers, Sequences, FiniteSetsExt

CONSTANTS
    Blocks,           \* block numbers
    Prices,           \* [Blocks -> Seq(Nat)], the pool's swap prices in a block
    MinuteOf          \* [Blocks -> bucket]

ASSUME CandleConstants ==
    /\ Blocks \subseteq Nat
    /\ Prices \in [Blocks -> Seq(Nat)]
    /\ DOMAIN MinuteOf = Blocks

Minutes == Range(MinuteOf)

NoCandle == [first |-> 0, last |-> 0, open |-> 0, close |-> 0, high |-> 0, low |-> 0]

Higher(a, b) == IF a > b THEN a ELSE b
Lower(a, b) == IF a < b THEN a ELSE b

\* One point joins the group of its block and minute.
WithPoint(b, g, price) ==
    [g EXCEPT !.high = Higher(@, price),
              !.low = Lower(@, price),
              !.open = IF b <= g.first THEN price ELSE @,
              !.first = Lower(@, b),
              !.close = IF b >= g.last THEN price ELSE @,
              !.last = Higher(@, b)]

\* The group of a block's points, in the order of its logs.
Group(b) ==
    LET p == Prices[b][1]
        start == [first |-> b, last |-> b, open |-> p, close |-> p, high |-> p, low |-> p]
        joined[n \in 1..Len(Prices[b])] ==
            IF n = 1 THEN start ELSE WithPoint(b, joined[n - 1], Prices[b][n])
    IN  joined[Len(Prices[b])]

\* INSERT ... ON CONFLICT(pool, bucket) DO UPDATE.  A definition named ..._Bug is a
\* mistake that the next one could contain.
Upserted_Bug(c, g) ==
    IF c = NoCandle THEN g
    ELSE [open |-> IF g.first < c.first THEN g.open ELSE c.open,
          close |-> g.close,
          high |-> Higher(c.high, g.high), low |-> Lower(c.low, g.low),
          first |-> Lower(c.first, g.first), last |-> Higher(c.last, g.last)]
Upserted(c, g) ==
    IF c = NoCandle THEN g
    ELSE [open |-> IF g.first < c.first THEN g.open ELSE c.open,
          close |-> IF g.last > c.last THEN g.close ELSE c.close,
          high |-> Higher(c.high, g.high), low |-> Lower(c.low, g.low),
          first |-> Lower(c.first, g.first), last |-> Higher(c.last, g.last)]

\* upsertCandles with the points of block b.
CandlesWith(candles, b) ==
    IF Prices[b] = <<>> THEN candles
    ELSE [candles EXCEPT ![MinuteOf[b]] = Upserted(@, Group(b))]

-----------------------------------------------------------------------------
(* What a candle of these blocks should be *)

Traded(blocks, m) == {b \in blocks : MinuteOf[b] = m /\ Prices[b] # <<>>}
PricesOf(blocks) == UNION {Range(Prices[b]) : b \in blocks}

\* Block bounds, close, high and low are those of the blocks, each counted once and in
\* order; the open is a price of the first of them.
IsCandleOf(c, blocks) ==
    IF blocks = {} THEN c = NoCandle
    ELSE /\ c.first = Min(blocks)
         /\ c.last = Max(blocks)
         /\ c.open \in Range(Prices[c.first])
         /\ c.close = Prices[c.last][Len(Prices[c.last])]
         /\ c.high = Max(PricesOf(blocks))
         /\ c.low = Min(PricesOf(blocks))
=============================================================================
