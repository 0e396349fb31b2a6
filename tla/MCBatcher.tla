------------------------------ MODULE MCBatcher ------------------------------
(* Small instances of Batcher: a signed and a deposited order of one pair. *)
EXTENDS Batcher

CONSTANTS o1, o2, r1, r2

MCKey == [o \in Orders |-> o]
MCPairOf == [o \in Orders |-> "ab"]
MCValidTo == [o \in Orders |-> 2]
=============================================================================
