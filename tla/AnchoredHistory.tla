--------------------------- MODULE AnchoredHistory ---------------------------
(***************************************************************************)
(* What anchoring promises about the receipts of the auction: receipts are *)
(* issued one after the other and are never taken back, and commitments    *)
(* are only added, each to issued receipts, correctly counted, and none    *)
(* counting less than the one before it.  A receipt is its issue number.   *)
(***************************************************************************)
EXTENDS Integers, Sequences, FiniteSets

VARIABLES
    issued,           \* Nat: receipts issued so far are 1..issued
    commitments       \* sequence of [root, count]; a root is the set it was built over

historyVars == <<issued, commitments>>

LatestCount == IF commitments = <<>> THEN 0 ELSE commitments[Len(commitments)].count

HistoryInit == issued = 0 /\ commitments = <<>>

Issue ==
    /\ issued' = issued + 1
    /\ UNCHANGED commitments

Anchor ==
    /\ \E root \in SUBSET (1..issued) :
          /\ Cardinality(root) >= LatestCount
          /\ commitments' = Append(commitments, [root |-> root, count |-> Cardinality(root)])
    /\ UNCHANGED issued

HistoryNext == Issue \/ Anchor

HistorySpec == HistoryInit /\ [][HistoryNext]_historyVars
=============================================================================
