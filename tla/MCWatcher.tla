----------------------------- MODULE MCWatcher -----------------------------
(* A small chain for Watcher: see watcher.cfg. *)
EXTENDS Watcher

\* Swaps move the price up and down within a block; one block has none.
MCPrices == <<<<2>>, <<3, 1>>, <<>>, <<1, 2>>>>
MCMinutes == <<1, 1, 2, 2>>
=============================================================================
