------------------------------- MODULE Batcher -------------------------------
(***************************************************************************)
(* The batcher service, apps/batcher/src/main.ts, with what chain.ts asks  *)
(* the chain.                                                              *)
(*                                                                         *)
(* Orders are posted, checked against the chain across several awaits and  *)
(* put in a map.  A timer starts a tick unless one is running: it expires  *)
(* orders, asks for the deposits it waits for, and settles what is pending *)
(* pair by pair: solve, dry run, send, wait for the receipt.  An action is *)
(* the code between two awaits.  The map is in memory: a restart forgets   *)
(* it, while transactions that were sent still reach the chain, or never.  *)
(*                                                                         *)
(* The contract is OrderLifecycle, which OrdoBatch implements.  Which      *)
(* orders the solver drops, and whether it finds a price, is left open.    *)
(***************************************************************************)
EXTENDS Integers, Sequences

CONSTANTS
    Orders, Key,
    PairOf,           \* [Orders -> Pairs], groupByPair
    Deposited,        \* orders their owners pay for by depositOrder and did not sign
    ValidTo,          \* [Orders -> Nat]
    Requests,         \* bound: POST /order requests
    Absent,           \* no entry in the orders map
    MaxAttempts,      \* MAX_ATTEMPTS
    MaxValid,         \* MAX_VALID_S
    Keep,             \* how long a finished order stays in the map
    Pause,            \* how long sends stop after one is refused
    ReceiptWait,      \* Chain.receipt's timeout
    Failures,         \* bound: restarts, refused sends and changes of mind of owners
    MaxTime           \* bound: last instant

Pairs == {PairOf[o] : o \in Orders}

ASSUME BatcherConstants ==
    /\ Deposited \subseteq Orders
    /\ ValidTo \in [Orders -> Nat]
    /\ {MaxAttempts, MaxValid, Keep, Pause, ReceiptWait, Failures, MaxTime} \subseteq Nat

VARIABLES
    outcome, escrow,  \* the contract's, see OrderLifecycle
    funded,           \* orders whose owner still has balance and allowance for them
    txs,              \* settlements sent: [orders, state, watch]
    now,
    posts,            \* [Requests -> request in progress]
    orders,           \* the orders map: [Orders -> entry or Absent]
    inFlight,
    pausedUntil,      \* sendPausedUntil
    tick,             \* the tick in progress: [phase, ready, checks]
    pairs,            \* [Pairs -> settlePair in progress]
    failed,           \* failures so far
    accepted          \* [Orders -> Nat]: times an order was taken in since the start

chainVars == <<outcome, escrow, funded, txs>>
serviceVars == <<posts, orders, inFlight, pausedUntil, tick, pairs, accepted>>
batcherVars == <<chainVars, serviceVars, now, failed>>

Chain == INSTANCE OrderLifecycle WITH late <- [o \in Orders |-> ValidTo[o] < now]

Unused == [step |-> "unused"]
Done == [step |-> "done"]
NoTick == [phase |-> "idle", ready |-> {}, checks |-> {}]
NoPair == [phase |-> "done", batch |-> {}, tx |-> 0, since |-> 0]

Terminal == {"filled", "rejected", "expired"}
Entries ==
    [state: {"pending", "awaiting_deposit", "settling"} \cup Terminal,
     attempts: Nat, by: Requests, signed: BOOLEAN, receivedAt: 0..MaxTime]

ASSUME AbsentIsNoEntry == Absent \notin Entries

Failing == failed < Failures /\ failed' = failed + 1
InState(o, states) == orders[o] # Absent /\ orders[o].state \in states

-----------------------------------------------------------------------------
(* Intake.  A definition named ..._Bug is a mistake the next one could contain. *)

\* Requests are alike: they come in one order.
NextRequest == CHOOSE r \in Requests : posts[r] = Unused

\* An order that is known is answered from the map; the rest is checked first.  Without a
\* signature it counts as deposited, whether or not its owner has signed it.
Post(r, o, signed) ==
    /\ posts[r] = Unused
    /\ r = NextRequest
    /\ signed => o \notin Deposited
    /\ ValidTo[o] > now + 1
    /\ ValidTo[o] <= now + MaxValid
    /\ posts' = [posts EXCEPT ![r] =
                   IF orders[o] # Absent THEN Done
                   ELSE [step |-> "nonce", order |-> o, signed |-> signed]]
    /\ UNCHANGED <<chainVars, orders, inFlight, pausedUntil, tick, pairs, accepted, now, failed>>

\* nonceUsed is answered; a read that fails ends the request as a used nonce does.
NonceChecked(r) ==
    /\ posts[r].step = "nonce"
    /\ \/ /\ outcome[posts[r].order] = "open"
          /\ posts' = [posts EXCEPT ![r].step = "funds"]
       \/ posts' = [posts EXCEPT ![r] = Done]
    /\ UNCHANGED <<chainVars, orders, inFlight, pausedUntil, tick, pairs, accepted, now, failed>>

\* escrowed, or signer and canPull, are answered; the entry is written without
\* another look at the map.
FundsChecked(r) ==
    LET o == posts[r].order
        write(state) ==
            /\ orders' = [orders EXCEPT ![o] =
                            [state |-> state, attempts |-> 0, by |-> r,
                             signed |-> posts[r].signed, receivedAt |-> now]]
            /\ accepted' = [accepted EXCEPT ![o] = @ + 1]
    IN  /\ posts[r].step = "funds"
        /\ posts' = [posts EXCEPT ![r] = Done]
        /\ \/ ~posts[r].signed /\ write(IF escrow[o] THEN "pending" ELSE "awaiting_deposit")
           \/ posts[r].signed /\ o \in funded /\ write("pending")
           \/ posts[r].signed /\ o \notin funded /\ UNCHANGED <<orders, accepted>>
        /\ UNCHANGED <<chainVars, inFlight, pausedUntil, tick, pairs, now, failed>>

-----------------------------------------------------------------------------
(* Windows *)

Expirable_BugAny(o) == orders[o] # Absent
Expirable_BugPending(o) == InState(o, {"pending"})
Expirable(o) == InState(o, {"pending", "awaiting_deposit"})

Expiring == {o \in Orders : Expirable(o) /\ ValidTo[o] <= now + 1}
Waiting(state) == {o \in Orders \ (Expiring \cup inFlight) : InState(o, {state})}

\* The timer fires and no tick is running.  The tick remembers the entries whose
\* deposit it asks for, not just their orders.
TickStarts ==
    /\ tick.phase = "idle"
    /\ Expiring \cup Waiting("pending") \cup Waiting("awaiting_deposit") # {}
    /\ orders' = [o \in Orders |->
                    IF o \in Expiring THEN [orders[o] EXCEPT !.state = "expired"] ELSE orders[o]]
    /\ tick' = [phase |-> "deposits", ready |-> Waiting("pending"),
                checks |-> {<<o, orders[o].by>> : o \in Waiting("awaiting_deposit")}]
    /\ UNCHANGED <<chainVars, posts, inFlight, pausedUntil, pairs, accepted, now, failed>>

\* escrowed is answered for one entry, or the read fails, which counts as no deposit.
DepositChecked ==
    \E c \in tick.checks, seen \in BOOLEAN :
        LET o == c[1]
        IN  /\ seen => escrow[o]
            /\ tick' = [tick EXCEPT !.checks = @ \ {c},
                                    !.ready = IF seen THEN @ \cup {o} ELSE @]
            /\ orders' = IF seen /\ orders[o].by = c[2]
                         THEN [orders EXCEPT ![o].state = "pending"] ELSE orders
            /\ UNCHANGED <<chainVars, posts, inFlight, pausedUntil, pairs, accepted, now, failed>>

\* Everything is answered: settle what is ready, unless sends are paused.
Launch ==
    /\ tick.phase = "deposits"
    /\ tick.checks = {}
    /\ IF tick.ready = {} \/ now < pausedUntil
       THEN tick' = NoTick /\ UNCHANGED <<inFlight, pairs>>
       ELSE /\ tick' = [tick EXCEPT !.phase = "pairs"]
            /\ inFlight' = inFlight \cup tick.ready
            /\ pairs' = [p \in Pairs |->
                           LET batch == {o \in tick.ready : PairOf[o] = p}
                           IN  IF batch = {} THEN NoPair
                               ELSE [NoPair EXCEPT !.phase = "solve", !.batch = batch]]
    /\ UNCHANGED <<chainVars, posts, orders, pausedUntil, accepted, now, failed>>

Released(ready) == inFlight \ ready

\* The pairs are done: what is still in flight is released, and finished orders that
\* are old are forgotten.
TickEnds ==
    /\ tick.phase = "pairs"
    /\ \A p \in Pairs : pairs[p] = NoPair
    /\ tick' = NoTick
    /\ inFlight' = Released(tick.ready)
    /\ orders' = [o \in Orders |->
                    IF InState(o, Terminal \cup {"awaiting_deposit"}) /\ orders[o].receivedAt + Keep < now
                    THEN Absent ELSE orders[o]]
    /\ UNCHANGED <<chainVars, posts, pausedUntil, pairs, accepted, now, failed>>

-----------------------------------------------------------------------------
(* One pair *)

PairOnly == <<posts, pausedUntil, tick, accepted, now, failed>>

\* A failed attempt of the orders of S: rejected at the limit, otherwise in state back[o].
Attempted(S, limit, back) ==
    [o \in Orders |->
        IF o \notin S THEN orders[o]
        ELSE LET attempts == orders[o].attempts + 1
             IN  [orders[o] EXCEPT !.attempts = attempts,
                                   !.state = IF attempts >= limit THEN "rejected" ELSE back[o]]]

Unchanged(S) == [o \in S |-> orders[o].state]

\* This settlePair gives up on the orders of S.
GivesUp(p, S, limit, back) ==
    /\ orders' = Attempted(S, limit, back)
    /\ inFlight' = inFlight \ S
    /\ pairs' = [pairs EXCEPT ![p] = NoPair]

\* An order whose limit the clearing price does not reach is dropped for good.
Dropping(dropped, map) ==
    [o \in Orders |-> IF o \in dropped THEN [map[o] EXCEPT !.state = "rejected"] ELSE map[o]]

\* solve returns a price for the orders it did not drop.
Solved(p) ==
    /\ pairs[p].phase = "solve"
    /\ \E dropped \in (SUBSET pairs[p].batch) \ {pairs[p].batch} :
          /\ orders' = Dropping(dropped, orders)
          /\ inFlight' = inFlight \ dropped
          /\ pairs' = [pairs EXCEPT ![p].phase = "dry", ![p].batch = @ \ dropped]
    /\ UNCHANGED <<chainVars, PairOnly>>

\* solve returns an error, having dropped some orders or all.
SolveFails(p) ==
    /\ pairs[p].phase = "solve"
    /\ \E dropped \in SUBSET pairs[p].batch :
          LET tried == {o \in pairs[p].batch \ dropped : InState(o, {"pending"})}
          IN  /\ orders' = Dropping(dropped, Attempted(tried, MaxAttempts, Unchanged(tried)))
              /\ inFlight' = inFlight \ (dropped \cup tried)
              /\ pairs' = [pairs EXCEPT ![p] = NoPair]
    /\ UNCHANGED <<chainVars, PairOnly>>

\* solve throws: the tick logs it and releases the orders when it ends.
SolveThrows(p) ==
    /\ pairs[p].phase = "solve"
    /\ pairs' = [pairs EXCEPT ![p] = NoPair]
    /\ UNCHANGED <<chainVars, orders, inFlight, PairOnly>>

Settles(S) ==
    /\ Chain!Fillable(S)
    /\ \A o \in S : escrow[o] \/ o \in funded \ Deposited

\* With the signatures the entries have.
Simulates(S) == Settles(S) /\ \A o \in S : escrow[o] \/ orders[o].signed

DryRunPasses(p) ==
    /\ pairs[p].phase = "dry"
    /\ Simulates(pairs[p].batch)
    /\ pairs' = [pairs EXCEPT ![p].phase = "send"]
    /\ UNCHANGED <<chainVars, orders, inFlight, PairOnly>>

DryRunFails(p) ==
    /\ pairs[p].phase = "dry"
    /\ (~Simulates(pairs[p].batch) /\ UNCHANGED failed) \/ Failing
    /\ GivesUp(p, pairs[p].batch, MaxAttempts, Unchanged(pairs[p].batch))
    /\ UNCHANGED <<chainVars, posts, pausedUntil, tick, accepted, now>>

Sent(p) ==
    /\ pairs[p].phase = "send"
    /\ txs' = Append(txs, [orders |-> pairs[p].batch, state |-> "sent", watch |-> "waiting"])
    /\ orders' = [o \in Orders |->
                    IF o \in pairs[p].batch THEN [orders[o] EXCEPT !.state = "settling"] ELSE orders[o]]
    /\ pairs' = [pairs EXCEPT ![p].phase = "receipt", ![p].tx = Len(txs'), ![p].since = now]
    /\ UNCHANGED <<outcome, escrow, funded, inFlight, PairOnly>>

\* The send throws; the sequencer may have the transaction all the same.
SendFails(p) ==
    /\ pairs[p].phase = "send"
    /\ Failing
    /\ \/ UNCHANGED txs
       \/ txs' = Append(txs, [orders |-> pairs[p].batch, state |-> "sent", watch |-> "lost"])
    /\ pausedUntil' = now + Pause
    /\ GivesUp(p, pairs[p].batch, 2 * MaxAttempts, Unchanged(pairs[p].batch))
    /\ UNCHANGED <<outcome, escrow, funded, posts, tick, accepted, now>>

Succeeded(tx) == tx.state = "ok"

Pending(S) == [o \in S |-> "pending"]

\* The receipt is there.
ReceiptRead(p) ==
    LET i == pairs[p].tx
    IN  /\ pairs[p].phase = "receipt"
        /\ txs[i].state # "sent"
        /\ txs' = [txs EXCEPT ![i].watch = "answered"]
        /\ IF Succeeded(txs[i])
           THEN /\ orders' = [o \in Orders |->
                     IF o \in pairs[p].batch THEN [orders[o] EXCEPT !.state = "filled"] ELSE orders[o]]
                /\ inFlight' = inFlight \ pairs[p].batch
                /\ pairs' = [pairs EXCEPT ![p] = NoPair]
           ELSE GivesUp(p, pairs[p].batch, MaxAttempts, Pending(pairs[p].batch))
        /\ UNCHANGED <<outcome, escrow, funded, PairOnly>>

\* It is not, or could not be read, for as long as Chain.receipt waits.
ReceiptMissing(p) ==
    /\ pairs[p].phase = "receipt"
    /\ now >= pairs[p].since + ReceiptWait \/ now = MaxTime
    /\ txs' = [txs EXCEPT ![pairs[p].tx].watch = "lost"]
    /\ GivesUp(p, pairs[p].batch, MaxAttempts, Pending(pairs[p].batch))
    /\ UNCHANGED <<outcome, escrow, funded, PairOnly>>

PairSteps(p) ==
    \/ Solved(p) \/ SolveFails(p) \/ SolveThrows(p)
    \/ DryRunPasses(p) \/ DryRunFails(p)
    \/ Sent(p) \/ SendFails(p)
    \/ ReceiptRead(p) \/ ReceiptMissing(p)

-----------------------------------------------------------------------------
(* The chain, the owners and the process *)

\* A settlement executes, once, as it was sent, or reverts: because of its orders, or of
\* prices, gas and whatever else has changed since the dry run.
TxExecutes ==
    \E i \in DOMAIN txs :
        /\ txs[i].state = "sent"
        /\ UNCHANGED <<funded, serviceVars, now, failed>>
        /\ \/ /\ Settles(txs[i].orders)
              /\ Chain!Fill(txs[i].orders)
              /\ txs' = [txs EXCEPT ![i].state = "ok"]
           \/ /\ txs' = [txs EXCEPT ![i].state = "reverted"]
              /\ UNCHANGED <<outcome, escrow>>

\* depositOrder, refund and cancel; an owner moves the tokens an order needs.
OwnersAct ==
    /\ UNCHANGED <<txs, serviceVars, now>>
    /\ \/ \E o \in Deposited : (Chain!Deposit(o) \/ Chain!Refund(o)) /\ UNCHANGED <<funded, failed>>
       \/ Failing /\ \E o \in Orders : outcome[o] = "open" /\ Chain!Cancel(Key[o]) /\ UNCHANGED funded
       \/ Failing /\ \E o \in funded : funded' = funded \ {o} /\ UNCHANGED <<outcome, escrow>>

Restart ==
    /\ Failing
    /\ posts' = [r \in Requests |-> IF posts[r] = Unused THEN Unused ELSE Done]
    /\ orders' = [o \in Orders |-> Absent]
    /\ inFlight' = {}
    /\ pausedUntil' = 0
    /\ tick' = NoTick
    /\ pairs' = [p \in Pairs |-> NoPair]
    /\ txs' = [i \in DOMAIN txs |->
                 IF txs[i].watch = "waiting" THEN [txs[i] EXCEPT !.watch = "lost"] ELSE txs[i]]
    /\ accepted' = [o \in Orders |-> 0]
    /\ UNCHANGED <<outcome, escrow, funded, now>>

TimePasses ==
    /\ now < MaxTime
    /\ now' = now + 1
    /\ UNCHANGED <<chainVars, serviceVars, failed>>

BatcherInit ==
    /\ outcome = [o \in Orders |-> "open"]
    /\ escrow = [o \in Orders |-> FALSE]
    /\ funded = Orders \ Deposited
    /\ txs = <<>>
    /\ now = 0
    /\ posts = [r \in Requests |-> Unused]
    /\ orders = [o \in Orders |-> Absent]
    /\ inFlight = {}
    /\ pausedUntil = 0
    /\ tick = NoTick
    /\ pairs = [p \in Pairs |-> NoPair]
    /\ failed = 0
    /\ accepted = [o \in Orders |-> 0]

Intake ==
    \E r \in Requests :
        \/ \E o \in Orders, signed \in BOOLEAN : Post(r, o, signed)
        \/ NonceChecked(r)
        \/ FundsChecked(r)
Ticking == TickStarts \/ DepositChecked \/ Launch \/ TickEnds

BatcherNext ==
    \/ Intake
    \/ Ticking
    \/ \E p \in Pairs : PairSteps(p)
    \/ TxExecutes
    \/ OwnersAct
    \/ Restart
    \/ TimePasses

BatcherSpec == BatcherInit /\ [][BatcherNext]_batcherVars

\* The timer fires, awaits end (the ones that fail as failures), and time passes.
BatcherFairness ==
    /\ WF_batcherVars(Ticking)
    /\ \A p \in Pairs : WF_batcherVars(PairSteps(p))
    /\ WF_batcherVars(TimePasses)

FairBatcherSpec == BatcherSpec /\ BatcherFairness

-----------------------------------------------------------------------------
(* Properties *)

\* What a user is told was filled was filled on the chain (settlePair's receipt), and what
\* a user is told was rejected or expired was not, with two exceptions the code leaves: a
\* settlement whose fate the batcher did not learn (a send that threw, no receipt in time,
\* a restart), and a second POST that was being checked while the first was settled and
\* then replaced its entry.
ToldAsItIs ==
    \A o \in Orders :
        /\ InState(o, {"filled"}) => outcome[o] = "filled"
        /\ InState(o, {"rejected", "expired"}) /\ outcome[o] = "filled" =>
              \/ accepted[o] > 1
              \/ \E i \in DOMAIN txs : o \in txs[i].orders /\ txs[i].watch = "lost"

\* "A dead path does not hold orders forever" (main.ts:405): an order that was taken
\* in ends filled, rejected or expired, unless a restart forgets it.
EveryOrderEnds ==
    \A o \in Orders :
        InState(o, {"pending", "awaiting_deposit", "settling"}) ~>
            (orders[o] = Absent \/ InState(o, Terminal))
=============================================================================
