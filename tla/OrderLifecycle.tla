--------------------------- MODULE OrderLifecycle ---------------------------
(***************************************************************************)
(* What OrdoBatch promises about an order, whatever prices and routes the  *)
(* solver picks: it is filled at most once, in time, and never together    *)
(* with another order of the same owner and nonce; a deposit leaves escrow *)
(* with the fill of its order, or back to its owner once the order can no  *)
(* longer be filled.  OrdoBatch implements this specification; Batcher,    *)
(* the service that sends the settlements, runs over it.                   *)
(***************************************************************************)
CONSTANTS
    Orders,
    Key              \* [Orders -> owner and nonce]: orders with one key exclude each other

VARIABLES
    outcome,         \* [Orders -> "open", "filled" or "void"]; void: its key is used
    escrow,          \* [Orders -> BOOLEAN]: a deposit is held for it
    late             \* [Orders -> BOOLEAN]: block.timestamp is past its validTo

lifecycleVars == <<outcome, escrow, late>>

\* What the outcomes are once the orders of S are filled and their keys used.
Closed(keys, S) ==
    [o \in Orders |-> IF o \in S THEN "filled"
                      ELSE IF outcome[o] = "open" /\ Key[o] \in keys THEN "void"
                      ELSE outcome[o]]

Fillable(S) ==
    /\ \A o \in S : outcome[o] = "open" /\ ~late[o]
    /\ \A o, p \in S : Key[o] = Key[p] => o = p

Fill(S) ==
    /\ Fillable(S)
    /\ outcome' = Closed({Key[o] : o \in S}, S)
    /\ escrow' = [o \in Orders |-> escrow[o] /\ o \notin S]
    /\ late' = late

Cancel(k) ==
    /\ outcome' = Closed({k}, {})
    /\ UNCHANGED <<escrow, late>>

Deposit(o) ==
    /\ outcome[o] = "open"
    /\ ~late[o]
    /\ ~escrow[o]
    /\ escrow' = [escrow EXCEPT ![o] = TRUE]
    /\ UNCHANGED <<outcome, late>>

Refund(o) ==
    /\ late[o]
    /\ escrow[o]
    /\ escrow' = [escrow EXCEPT ![o] = FALSE]
    /\ UNCHANGED <<outcome, late>>

\* Time passes: an order that is late stays late.
Expire ==
    /\ late' \in [Orders -> BOOLEAN]
    /\ \A o \in Orders : late[o] => late'[o]
    /\ UNCHANGED <<outcome, escrow>>

LifecycleInit ==
    /\ outcome = [o \in Orders |-> "open"]
    /\ escrow = [o \in Orders |-> FALSE]
    /\ late \in [Orders -> BOOLEAN]

LifecycleNext ==
    \/ \E S \in SUBSET Orders : Fill(S)
    \/ \E o \in Orders : Cancel(Key[o]) \/ Deposit(o) \/ Refund(o)
    \/ Expire

LifecycleSpec == LifecycleInit /\ [][LifecycleNext]_lifecycleVars
=============================================================================
