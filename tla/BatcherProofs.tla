--------------------------- MODULE BatcherProofs ---------------------------
(***************************************************************************)
(* What the batcher tells its users, for any orders, pairs, requests,      *)
(* limits and failures: a fill that it reports happened, and one that      *)
(* happened is reported as rejected or expired only where the batcher      *)
(* never learnt of it or a second request wrote over what it knew.         *)
(***************************************************************************)
EXTENDS Batcher, SequenceTheorems, TLAPS

-----------------------------------------------------------------------------
(* The invariant *)

Phases == {"done", "solve", "dry", "send", "receipt"}
PostStates ==
    {Unused, Done} \cup [step: {"nonce", "funds"}, order: Orders, signed: BOOLEAN]
Settlements ==
    [orders: SUBSET Orders, state: {"sent", "ok", "reverted"}, watch: {"waiting", "lost", "answered"}]

\* What the actions compute with.
BatcherTypes ==
    /\ outcome \in [Orders -> {"open", "filled", "void"}]
    /\ txs \in Seq(Settlements)
    /\ now \in 0..MaxTime
    /\ posts \in [Requests -> PostStates]
    /\ orders \in [Orders -> Entries \cup {Absent}]
    /\ tick \in [phase: {"idle", "deposits", "pairs"}, ready: SUBSET Orders,
                 checks: SUBSET (Orders \X Requests)]
    /\ pairs \in [Pairs -> [phase: Phases, batch: SUBSET Orders, tx: Nat, since: Nat]]
    /\ accepted \in [Orders -> Nat]

\* A settlement of o whose fate the batcher did not learn.
Lost(o) == \E i \in DOMAIN txs : o \in txs[i].orders /\ txs[i].watch = "lost"

\* What excuses an answer about o.
Excused(o) == accepted[o] > 1 \/ Lost(o)

\* What is in the map was accepted since the start.
EntriesAccepted == \A o \in Orders : orders[o] # Absent => accepted[o] > 0

\* A tick works on pending orders and on deposits awaited, unless a request has replaced
\* them since.
TickKept ==
    /\ tick.phase = "deposits" =>
          /\ \A o \in tick.ready : InState(o, {"pending"}) \/ (orders[o] # Absent /\ accepted[o] > 1)
          /\ \A c \in tick.checks :
                \/ InState(c[1], {"awaiting_deposit"}) /\ orders[c[1]].by = c[2]
                \/ orders[c[1]] # Absent /\ accepted[c[1]] > 1
    /\ tick.phase # "deposits" => tick.checks = {}
    /\ tick.phase # "pairs" => \A p \in Pairs : pairs[p].phase = "done"

\* A pair works on its own orders: pending until they are sent, settling from then on.
PairsKept ==
    \A p \in Pairs : pairs[p].phase # "done" =>
        /\ pairs[p].batch # {}
        /\ \A o \in pairs[p].batch :
              /\ PairOf[o] = p
              /\ orders[o] # Absent
              /\ \/ accepted[o] > 1
                 \/ InState(o, IF pairs[p].phase = "receipt" THEN {"settling"} ELSE {"pending"})

\* Each settlement that is waited for has its pair.
ReceiptsAwaited ==
    /\ \A i \in DOMAIN txs : txs[i].watch = "waiting" =>
          \E p \in Pairs : pairs[p].phase = "receipt" /\ pairs[p].tx = i
    /\ \A p \in Pairs : pairs[p].phase = "receipt" =>
          /\ pairs[p].tx \in DOMAIN txs
          /\ txs[pairs[p].tx].watch = "waiting"
          /\ txs[pairs[p].tx].orders = pairs[p].batch

\* What is filled was filled by a settlement; one whose receipt was read has told its
\* orders, and they stay told until they are forgotten.
FillsTold ==
    /\ \A o \in Orders : outcome[o] = "filled" =>
          \E i \in DOMAIN txs : o \in txs[i].orders /\ txs[i].state = "ok"
    /\ \A i \in DOMAIN txs :
          /\ txs[i].state = "ok" => \A o \in txs[i].orders : outcome[o] = "filled"
          /\ txs[i].watch = "answered" => txs[i].state # "sent"
          /\ txs[i].watch = "answered" /\ txs[i].state = "ok" => \A o \in txs[i].orders :
                orders[o] = Absent \/ InState(o, {"filled"}) \/ Excused(o)
    /\ \A o \in Orders : InState(o, {"filled"}) => outcome[o] = "filled"

\* A request that found the nonce unused before a fill will write a second time.
PostsLate ==
    \A r \in Requests : posts[r].step = "funds" =>
        LET o == posts[r].order
        IN  outcome[o] = "filled" => accepted[o] > 0 \/ Lost(o)

BatcherInv ==
    /\ BatcherTypes
    /\ EntriesAccepted
    /\ TickKept
    /\ PairsKept
    /\ ReceiptsAwaited
    /\ FillsTold
    /\ PostsLate

-----------------------------------------------------------------------------
(* Values *)

States == {"pending", "awaiting_deposit", "settling"} \cup Terminal

\* Nothing is known and nothing was sent.
LEMMA BatcherInitially == BatcherInit => BatcherInv
<1> SUFFICES ASSUME BatcherInit
             PROVE  BatcherInv
  OBVIOUS
<1> USE DEF BatcherInit
<1>1. BatcherTypes
  <2>1. now \in 0..MaxTime
    BY BatcherConstants
  <2>2. txs \in Seq(Settlements)
    OBVIOUS
  <2>3. posts \in [Requests -> PostStates]
    BY DEF PostStates
  <2> QED
    BY <2>1, <2>2, <2>3 DEF BatcherTypes, NoTick, NoPair, Phases
<1>2. DOMAIN txs = {}
  OBVIOUS
<1>3. EntriesAccepted /\ TickKept /\ PairsKept
  BY DEF EntriesAccepted, TickKept, PairsKept, NoTick, NoPair
<1>4. ReceiptsAwaited /\ FillsTold
  BY <1>2 DEF ReceiptsAwaited, FillsTold, NoPair, InState
<1>5. PostsLate
  BY DEF PostsLate, Unused
<1> QED
  BY <1>1, <1>3, <1>4, <1>5 DEF BatcherInv

\* An entry that is changed is an entry.
LEMMA EntryUpdated ==
    ASSUME NEW e \in Entries, NEW s \in States
    PROVE  /\ [e EXCEPT !.state = s] \in Entries
           /\ [e EXCEPT !.state = s] # Absent
           /\ [e EXCEPT !.state = s].state = s
<1>1. [e EXCEPT !.state = s] \in Entries /\ [e EXCEPT !.state = s].state = s
  BY DEF Entries, States
<1> QED
  BY <1>1, AbsentIsNoEntry

\* So it is when an attempt is counted, too.
LEMMA EntryAttempted ==
    ASSUME NEW e \in Entries, NEW s \in States, NEW n \in Nat
    PROVE  /\ [e EXCEPT !.attempts = n, !.state = s] \in Entries
           /\ [e EXCEPT !.attempts = n, !.state = s] # Absent
           /\ [e EXCEPT !.attempts = n, !.state = s].state = s
<1>1. /\ [e EXCEPT !.attempts = n, !.state = s] \in Entries
      /\ [e EXCEPT !.attempts = n, !.state = s].state = s
  BY DEF Entries, States
<1> QED
  BY <1>1, AbsentIsNoEntry

\* Every settlement is typed.
LEMMA SettlementTyped ==
    ASSUME BatcherTypes, NEW i \in DOMAIN txs
    PROVE  txs[i] \in Settlements
BY DEF BatcherTypes

\* While the settlements stand, so does what the batcher did not learn.
LEMMA LostStands ==
    ASSUME UNCHANGED txs, NEW o
    PROVE  Lost(o)' <=> Lost(o)
BY DEF Lost

-----------------------------------------------------------------------------
(* Intake *)

\* A request under way writes nothing until its last answer.
LEMMA CheckingKeeps ==
    ASSUME BatcherInv, NEW r \in Requests,
           NonceChecked(r) \/ \E o \in Orders, signed \in BOOLEAN : Post(r, o, signed)
    PROVE  BatcherInv'
<1>1. UNCHANGED <<chainVars, orders, inFlight, pausedUntil, tick, pairs, accepted, now, failed>>
  BY DEF NonceChecked, Post
<1>2. /\ posts' \in [Requests -> PostStates]
      /\ \A q \in Requests : posts'[q].step = "funds" =>
            \/ posts'[q] = posts[q]
            \/ posts'[q].order \in Orders /\ outcome[posts'[q].order] = "open"
  <2>1. CASE NonceChecked(r)
    <3>1. posts[r] \in [step: {"nonce", "funds"}, order: Orders, signed: BOOLEAN] /\ posts \in [Requests -> PostStates]
      BY <2>1 DEF NonceChecked, BatcherInv, BatcherTypes, PostStates, Unused, Done
    <3>2. CASE outcome[posts[r].order] = "open" /\ posts' = [posts EXCEPT ![r].step = "funds"]
      <4>1. /\ posts'[r] \in [step: {"nonce", "funds"}, order: Orders, signed: BOOLEAN]
            /\ posts'[r].order = posts[r].order
        BY <3>1, <3>2
      <4> QED
        BY <3>1, <3>2, <4>1 DEF PostStates
    <3>3. CASE posts' = [posts EXCEPT ![r] = Done]
      BY <3>1, <3>3 DEF PostStates, Done
    <3> QED
      BY <2>1, <3>2, <3>3 DEF NonceChecked
  <2>2. ASSUME NEW o \in Orders, NEW signed \in BOOLEAN, Post(r, o, signed)
        PROVE  /\ posts'[r] \in {Done, [step |-> "nonce", order |-> o, signed |-> signed]}
               /\ posts' = [posts EXCEPT ![r] = posts'[r]]
    BY <2>2 DEF Post, BatcherInv, BatcherTypes
  <2>3. posts \in [Requests -> PostStates]
    BY DEF BatcherInv, BatcherTypes
  <2> QED
    BY <2>1, <2>2, <2>3 DEF PostStates, Done
<1>3. BatcherTypes'
  BY <1>1, <1>2 DEF BatcherInv, BatcherTypes, chainVars
<1>4. \A o : Lost(o)' <=> Lost(o)
  BY <1>1 DEF Lost, chainVars
<1>5. (EntriesAccepted /\ TickKept /\ PairsKept /\ ReceiptsAwaited /\ FillsTold)'
  BY <1>1, <1>4 DEF BatcherInv, EntriesAccepted, TickKept, PairsKept, ReceiptsAwaited, FillsTold,
                    InState, Excused, chainVars
<1>6. PostsLate'
  BY <1>1, <1>2, <1>4 DEF BatcherInv, PostsLate, chainVars
<1> QED
  BY <1>3, <1>5, <1>6 DEF BatcherInv

\* The entry that a request writes is the first since the start, and then nothing was
\* filled without the batcher's knowledge; or it is not, and its order is excused.
LEMMA WritingKeeps ==
    ASSUME BatcherInv, NEW r \in Requests, FundsChecked(r)
    PROVE  BatcherInv'
<1>0. PICK o : o = posts[r].order
  OBVIOUS
<1>1. /\ UNCHANGED <<chainVars, inFlight, pausedUntil, tick, pairs, now, failed>>
      /\ posts' = [posts EXCEPT ![r] = Done]
      /\ posts[r].step = "funds"
      /\ \/ \E s \in {"pending", "awaiting_deposit"} :
              /\ orders' = [orders EXCEPT ![o] =
                              [state |-> s, attempts |-> 0, by |-> r,
                               signed |-> posts[r].signed, receivedAt |-> now]]
              /\ accepted' = [accepted EXCEPT ![o] = @ + 1]
         \/ UNCHANGED <<orders, accepted>>
  BY <1>0 DEF FundsChecked
<1>2. o \in Orders /\ posts[r].signed \in BOOLEAN /\ posts \in [Requests -> PostStates]
  <2>1. posts[r] \in PostStates /\ posts \in [Requests -> PostStates]
    BY DEF BatcherInv, BatcherTypes
  <2>2. posts[r] # Unused /\ posts[r] # Done
    BY <1>1 DEF Unused, Done
  <2> QED
    BY <1>0, <2>1, <2>2 DEF PostStates
<1>3. posts' \in [Requests -> PostStates]
  BY <1>1, <1>2 DEF PostStates
<1>4. \A q \in Requests : posts'[q].step = "funds" => posts'[q] = posts[q]
  BY <1>1, <1>2 DEF Done
<1>5. \A x : Lost(x)' <=> Lost(x)
  BY <1>1 DEF Lost, chainVars
<1>6. CASE UNCHANGED <<orders, accepted>>
  <2>1. BatcherTypes'
    BY <1>1, <1>3, <1>6 DEF BatcherInv, BatcherTypes, chainVars
  <2>2. (EntriesAccepted /\ TickKept /\ PairsKept /\ ReceiptsAwaited /\ FillsTold)'
    BY <1>1, <1>5, <1>6 DEF BatcherInv, EntriesAccepted, TickKept, PairsKept, ReceiptsAwaited,
                            FillsTold, InState, Excused, chainVars
  <2>3. PostsLate'
    BY <1>1, <1>4, <1>5, <1>6 DEF BatcherInv, PostsLate, chainVars
  <2> QED
    BY <2>1, <2>2, <2>3 DEF BatcherInv
<1>7. ASSUME NEW s \in {"pending", "awaiting_deposit"},
             orders' = [orders EXCEPT ![o] =
                          [state |-> s, attempts |-> 0, by |-> r,
                               signed |-> posts[r].signed, receivedAt |-> now]],
             accepted' = [accepted EXCEPT ![o] = @ + 1]
      PROVE  BatcherInv'
  <2>1. /\ orders \in [Orders -> Entries \cup {Absent}] /\ accepted \in [Orders -> Nat]
        /\ now \in 0..MaxTime
    BY DEF BatcherInv, BatcherTypes
  <2>2. /\ orders'[o] \in Entries /\ orders'[o] # Absent /\ orders'[o].state = s
        /\ accepted'[o] = accepted[o] + 1 /\ accepted'[o] \in Nat
    <3>1. orders'[o] = [state |-> s, attempts |-> 0, by |-> r,
                          signed |-> posts[r].signed, receivedAt |-> now]
      BY <1>2, <1>7, <2>1
    <3>2. orders'[o] \in Entries
      BY <1>2, <2>1, <3>1 DEF Entries
    <3> QED
      BY <1>2, <1>7, <2>1, <3>1, <3>2, AbsentIsNoEntry
  <2>3. \A x \in Orders \ {o} : orders'[x] = orders[x] /\ accepted'[x] = accepted[x]
    BY <1>7, <2>1
  <2>4. /\ orders' \in [Orders -> Entries \cup {Absent}] /\ accepted' \in [Orders -> Nat]
    BY <1>7, <2>1, <2>2
  <2>5. BatcherTypes'
    BY <1>1, <1>3, <2>4 DEF BatcherInv, BatcherTypes, chainVars
  <2>6. orders[o] # Absent => accepted'[o] > 1
    BY <1>2, <2>1, <2>2 DEF BatcherInv, EntriesAccepted
  <2>7. outcome[o] = "filled" => Excused(o)'
    <3>1. outcome[o] = "filled" => accepted[o] > 0 \/ Lost(o)
      BY <1>0, <1>1 DEF BatcherInv, PostsLate
    <3> QED
      BY <1>2, <1>5, <2>1, <2>2, <3>1 DEF Excused
  <2>8. \A x \in Orders : Excused(x) => Excused(x)'
    BY <1>5, <2>1, <2>2, <2>3 DEF Excused
  <2>9. EntriesAccepted'
    BY <2>1, <2>2, <2>3 DEF BatcherInv, EntriesAccepted
  <2>10. TickKept'
    <3>1. ASSUME NEW x \in Orders, orders[x] # Absent
          PROVE  /\ orders'[x] # Absent
                 /\ accepted'[x] > 1 \/ (orders'[x] = orders[x] /\ accepted'[x] = accepted[x])
      BY <2>2, <2>3, <2>6, <3>1
    <3>2. tick.ready \subseteq Orders /\ \A c \in tick.checks : c[1] \in Orders
      BY DEF BatcherInv, BatcherTypes
    <3> QED
      BY <1>1, <3>1, <3>2 DEF BatcherInv, TickKept, InState
  <2>11. PairsKept'
    <3>1. \A p \in Pairs : pairs[p].batch \subseteq Orders
      BY DEF BatcherInv, BatcherTypes
    <3>2. ASSUME NEW x \in Orders, orders[x] # Absent
          PROVE  /\ orders'[x] # Absent
                 /\ accepted'[x] > 1 \/ (orders'[x] = orders[x] /\ accepted'[x] = accepted[x])
      BY <2>2, <2>3, <2>6, <3>2
    <3> QED
      BY <1>1, <3>1, <3>2 DEF BatcherInv, PairsKept, InState
  <2>12. ReceiptsAwaited'
    BY <1>1 DEF BatcherInv, ReceiptsAwaited, chainVars
  <2>13. FillsTold'
    <3>1. \A i \in DOMAIN txs : txs[i].orders \subseteq Orders
      BY SettlementTyped DEF BatcherInv, Settlements
    <3>2. \A x \in Orders : InState(x, {"filled"})' => outcome'[x] = "filled"
      BY <1>1, <2>2, <2>3 DEF BatcherInv, FillsTold, InState, chainVars
    <3>3. ASSUME NEW i \in DOMAIN txs, txs[i].watch = "answered", txs[i].state = "ok",
                 NEW x \in txs[i].orders
          PROVE  (orders[x] = Absent \/ InState(x, {"filled"}) \/ Excused(x))'
      <4>1. x \in Orders /\ outcome[x] = "filled"
        BY <3>1, <3>3 DEF BatcherInv, FillsTold
      <4>2. orders[x] = Absent \/ InState(x, {"filled"}) \/ Excused(x)
        BY <3>3 DEF BatcherInv, FillsTold
      <4> QED
        BY <2>3, <2>7, <2>8, <4>1, <4>2 DEF InState
    <3> QED
      BY <1>1, <3>2, <3>3 DEF BatcherInv, FillsTold, chainVars
  <2>14. PostsLate'
    <3>1. ASSUME NEW q \in Requests, posts'[q].step = "funds", outcome[posts[q].order] = "filled"
          PROVE  accepted'[posts[q].order] > 0 \/ Lost(posts[q].order)
      <4>1. posts[q].step = "funds" /\ posts'[q] = posts[q]
        BY <1>4, <3>1
      <4>2. posts[q].order \in Orders
        BY <1>2, <4>1 DEF PostStates, Unused, Done
      <4> QED
        BY <2>1, <2>2, <2>3, <3>1, <4>1, <4>2 DEF BatcherInv, PostsLate
    <3> QED
      BY <1>1, <1>4, <1>5, <3>1 DEF PostsLate, chainVars
  <2> QED
    BY <2>5, <2>9, <2>10, <2>11, <2>12, <2>13, <2>14 DEF BatcherInv
<1> QED
  BY <1>1, <1>6, <1>7

-----------------------------------------------------------------------------
(* The tick *)

\* What only moves entries forward: an order that is told filled stays so or is forgotten,
\* unless it is excused, none is written as filled, and the rest stands.
LEMMA EntriesMove ==
    ASSUME BatcherInv, UNCHANGED <<chainVars, posts, accepted>>,
           \A o \in Orders :
              /\ orders[o] = Absent => orders'[o] = Absent
              /\ orders'[o] # Absent /\ orders'[o].state = "filled" => orders'[o] = orders[o]
              /\ \/ orders'[o] = orders[o] \/ orders'[o] = Absent
                 \/ ~InState(o, {"filled"}) \/ Excused(o)
    PROVE  EntriesAccepted' /\ FillsTold' /\ PostsLate'
<1>1. \A o : (Lost(o)' <=> Lost(o)) /\ (Excused(o)' <=> Excused(o))
  BY DEF Lost, Excused, chainVars
<1>2. EntriesAccepted'
  BY DEF BatcherInv, EntriesAccepted
<1>3. PostsLate'
  BY <1>1 DEF BatcherInv, PostsLate, chainVars
<1>4. \A o \in Orders : InState(o, {"filled"})' => outcome'[o] = "filled"
  BY DEF BatcherInv, FillsTold, InState, chainVars
<1>5. \A o \in Orders : orders[o] = Absent \/ InState(o, {"filled"}) \/ Excused(o) =>
                            (orders[o] = Absent \/ InState(o, {"filled"}) \/ Excused(o))'
  BY <1>1 DEF InState
<1>6. \A i \in DOMAIN txs : txs[i].orders \subseteq Orders
  BY SettlementTyped DEF BatcherInv, Settlements
<1>7. txs' = txs /\ outcome' = outcome
  BY DEF chainVars
<1>8. FillsTold'
  BY <1>4, <1>5, <1>6, <1>7 DEF BatcherInv, FillsTold
<1> QED
  BY <1>2, <1>3, <1>8

\* A tick takes what is pending and not in flight, and expires what was not sent.
LEMMA TickStartsKeeps ==
    ASSUME BatcherInv, TickStarts
    PROVE  BatcherInv'
<1>1. /\ UNCHANGED <<chainVars, posts, inFlight, pausedUntil, pairs, accepted, now, failed>>
      /\ tick.phase = "idle"
      /\ orders' = [o \in Orders |->
                       IF o \in Expiring THEN [orders[o] EXCEPT !.state = "expired"] ELSE orders[o]]
      /\ tick' = [phase |-> "deposits", ready |-> Waiting("pending"),
                  checks |-> {<<o, orders[o].by>> : o \in Waiting("awaiting_deposit")}]
  BY DEF TickStarts
<1>2. orders \in [Orders -> Entries \cup {Absent}]
  BY DEF BatcherInv, BatcherTypes
<1>3. ASSUME NEW o \in Expiring
      PROVE  /\ o \in Orders /\ InState(o, {"pending", "awaiting_deposit"})
             /\ orders'[o] \in Entries /\ orders'[o] # Absent /\ orders'[o].state = "expired"
  <2>1. o \in Orders /\ InState(o, {"pending", "awaiting_deposit"})
    BY DEF Expiring, Expirable
  <2>2. orders[o] \in Entries
    BY <1>2, <2>1 DEF InState
  <2>3. orders'[o] = [orders[o] EXCEPT !.state = "expired"]
    BY <1>1, <2>1
  <2>4. "expired" \in States
    BY DEF States, Terminal
  <2> QED
    BY <2>1, <2>2, <2>3, <2>4, EntryUpdated, AbsentIsNoEntry
<1>4. \A o \in Orders \ Expiring : orders'[o] = orders[o]
  BY <1>1
<1>5. BatcherTypes'
  <2>1. orders' \in [Orders -> Entries \cup {Absent}]
    BY <1>1, <1>2, <1>3, <1>4
  <2>2. ASSUME NEW o \in Waiting("awaiting_deposit")
        PROVE  o \in Orders /\ orders[o].by \in Requests
    <3>1. o \in Orders /\ orders[o] # Absent
      BY DEF Waiting, InState
    <3>2. orders[o] \in Entries
      BY <1>2, <3>1
    <3> QED
      BY <3>1, <3>2 DEF Entries
  <2>3. tick'.checks \in SUBSET (Orders \X Requests)
    BY <1>1, <2>2
  <2>4. Waiting("pending") \in SUBSET Orders
    BY DEF Waiting
  <2> QED
    BY <1>1, <2>1, <2>3, <2>4 DEF BatcherInv, BatcherTypes, chainVars
<1>6. EntriesAccepted' /\ FillsTold' /\ PostsLate'
  <2>1. \A o \in Expiring : orders'[o].state # "filled" /\ orders[o] # Absent /\ ~InState(o, {"filled"})
    BY <1>3 DEF InState
  <2> QED
    BY <1>1, <1>4, <2>1, EntriesMove
<1>7. TickKept'
  <2>1. ASSUME NEW s, NEW o \in Waiting(s)
        PROVE  o \in Orders /\ InState(o, {s}) /\ orders'[o] = orders[o]
    BY <1>4 DEF Waiting
  <2>2. \A o \in tick'.ready : InState(o, {"pending"})'
    BY <1>1, <2>1 DEF InState
  <2>3. \A c \in tick'.checks : InState(c[1], {"awaiting_deposit"})' /\ orders'[c[1]].by = c[2]
    <3>1. ASSUME NEW o \in Waiting("awaiting_deposit")
          PROVE  InState(o, {"awaiting_deposit"})' /\ orders'[o].by = orders[o].by
      BY <2>1 DEF InState
    <3>2. \A c \in tick'.checks : \E o \in Waiting("awaiting_deposit") : c = <<o, orders[o].by>>
      BY <1>1
    <3> QED
      BY <3>1, <3>2
  <2> QED
    BY <1>1, <2>2, <2>3 DEF BatcherInv, TickKept
<1>8. PairsKept' /\ ReceiptsAwaited'
  BY <1>1 DEF BatcherInv, TickKept, PairsKept, ReceiptsAwaited, chainVars
<1> QED
  BY <1>5, <1>6, <1>7, <1>8 DEF BatcherInv

\* A deposit is seen: its entry waits no longer, if it is the one that was asked for.
LEMMA DepositKeeps ==
    ASSUME BatcherInv, DepositChecked
    PROVE  BatcherInv'
<1>1. PICK c \in tick.checks, seen \in BOOLEAN :
        /\ tick' = [tick EXCEPT !.checks = @ \ {c},
                                !.ready = IF seen THEN @ \cup {c[1]} ELSE @]
        /\ orders' = IF seen /\ orders[c[1]].by = c[2]
                     THEN [orders EXCEPT ![c[1]].state = "pending"] ELSE orders
        /\ UNCHANGED <<chainVars, posts, inFlight, pausedUntil, pairs, accepted, now, failed>>
  BY DEF DepositChecked
<1> DEFINE o == c[1]
<1>2. /\ orders \in [Orders -> Entries \cup {Absent}]
      /\ tick \in [phase: {"idle", "deposits", "pairs"}, ready: SUBSET Orders,
                   checks: SUBSET (Orders \X Requests)]
      /\ o \in Orders
  BY DEF BatcherInv, BatcherTypes
<1>3. /\ tick.phase = "deposits" /\ orders[o] # Absent
      /\ (InState(o, {"awaiting_deposit"}) /\ orders[o].by = c[2]) \/ accepted[o] > 1
  <2>1. c \in tick.checks /\ tick.phase = "deposits"
    BY <1>1, <1>2 DEF BatcherInv, TickKept
  <2>2. \/ InState(c[1], {"awaiting_deposit"}) /\ orders[c[1]].by = c[2]
        \/ orders[c[1]] # Absent /\ accepted[c[1]] > 1
    BY <2>1 DEF BatcherInv, TickKept
  <2> QED
    BY <2>1, <2>2 DEF InState
<1>4. /\ tick'.phase = "deposits" /\ tick'.checks = tick.checks \ {c}
      /\ tick'.ready = IF seen THEN tick.ready \cup {o} ELSE tick.ready
      /\ tick' \in [phase: {"idle", "deposits", "pairs"}, ready: SUBSET Orders,
                    checks: SUBSET (Orders \X Requests)]
  BY <1>1, <1>2, <1>3
<1>5. /\ orders'[o] \in Entries
      /\ \A x \in Orders \ {o} : orders'[x] = orders[x]
      /\ orders' \in [Orders -> Entries \cup {Absent}]
      /\ \/ orders'[o] = orders[o] /\ (seen => orders[o].by # c[2])
         \/ orders'[o].state = "pending" /\ seen
      /\ orders'[o] # Absent
  <2>1. orders[o] \in Entries
    BY <1>2, <1>3
  <2>2. "pending" \in States
    BY DEF States
  <2>3. CASE seen /\ orders[o].by = c[2]
    <3>1. orders' = [orders EXCEPT ![o] = [orders[o] EXCEPT !.state = "pending"]]
      BY <1>1, <1>2, <2>3
    <3>2. [orders[o] EXCEPT !.state = "pending"] \in Entries /\ [orders[o] EXCEPT !.state = "pending"].state = "pending"
      BY <2>1, <2>2, EntryUpdated
    <3> HIDE DEF o
    <3>3. orders'[o] = [orders[o] EXCEPT !.state = "pending"]
      BY <1>2, <3>1
    <3>4. orders' \in [Orders -> Entries \cup {Absent}] /\ \A x \in Orders \ {o} : orders'[x] = orders[x]
      BY <1>2, <3>1, <3>2
    <3> QED
      BY <2>3, <3>2, <3>3, <3>4, AbsentIsNoEntry
  <2>4. CASE ~(seen /\ orders[o].by = c[2])
    BY <1>1, <1>2, <1>3, <2>1, <2>4
  <2> QED
    BY <2>3, <2>4
<1> HIDE DEF o
<1>6. BatcherTypes'
  BY <1>1, <1>4, <1>5 DEF BatcherInv, BatcherTypes, chainVars
<1>7. TickKept'
  <2>1. \A x \in Orders : accepted'[x] = accepted[x]
    BY <1>1
  <2>2. ASSUME NEW x \in tick'.ready
        PROVE  InState(x, {"pending"})' \/ (orders'[x] # Absent /\ accepted'[x] > 1)
    <3>1. CASE x = o
      BY <1>1, <1>3, <1>4, <1>5, <2>2, <3>1 DEF BatcherInv, TickKept, InState
    <3>2. CASE x # o
      <4>1. x \in tick.ready /\ x \in Orders
        BY <1>2, <1>4, <2>2, <3>2
      <4> QED
        BY <1>1, <1>3, <1>5, <3>2, <4>1 DEF BatcherInv, TickKept, InState
    <3> QED
      BY <3>1, <3>2
  <2>3. ASSUME NEW d \in tick'.checks
        PROVE  \/ InState(d[1], {"awaiting_deposit"})' /\ orders'[d[1]].by = d[2]
               \/ orders'[d[1]] # Absent /\ accepted'[d[1]] > 1
    <3>1. d \in tick.checks /\ d # c /\ d[1] \in Orders /\ d[2] \in Requests /\ c[2] \in Requests
          /\ d = <<d[1], d[2]>> /\ c = <<c[1], c[2]>>
      BY <1>2, <1>4, <2>3
    <3>2. \/ InState(d[1], {"awaiting_deposit"}) /\ orders[d[1]].by = d[2]
          \/ orders[d[1]] # Absent /\ accepted[d[1]] > 1
      BY <1>3, <3>1 DEF BatcherInv, TickKept
    <3>3. CASE d[1] = o
      <4>1. d[2] # c[2]
        BY <3>1, <3>3 DEF o
      <4>2. accepted[o] > 1
        BY <1>3, <3>2, <3>3, <4>1
      <4> QED
        BY <1>1, <1>5, <3>3, <4>2
    <3>4. CASE d[1] # o
      BY <1>1, <1>5, <3>1, <3>2, <3>4 DEF InState
    <3> QED
      BY <3>3, <3>4
  <2> QED
    BY <1>1, <1>3, <1>4, <2>2, <2>3 DEF BatcherInv, TickKept
<1>8. PairsKept' /\ ReceiptsAwaited'
  BY <1>1, <1>3 DEF BatcherInv, TickKept, PairsKept, ReceiptsAwaited, chainVars
<1>9. EntriesAccepted'
  BY <1>1, <1>2, <1>3, <1>5 DEF BatcherInv, EntriesAccepted
<1>10. FillsTold' /\ PostsLate'
  <2>1. orders'[o].state = "filled" => orders'[o] = orders[o]
    BY <1>5
  <2>2. orders'[o] = orders[o] \/ ~InState(o, {"filled"}) \/ Excused(o)
    BY <1>3, <1>5 DEF InState, Excused
  <2> QED
    BY <1>1, <1>2, <1>3, <1>5, <2>1, <2>2, EntriesMove
<1> QED
  BY <1>6, <1>7, <1>8, <1>9, <1>10 DEF BatcherInv

\* The pairs take over what is ready; a pause only ends the tick.
LEMMA LaunchKeeps ==
    ASSUME BatcherInv, Launch
    PROVE  BatcherInv'
<1>1. /\ UNCHANGED <<chainVars, posts, orders, pausedUntil, accepted, now, failed>>
      /\ tick.phase = "deposits" /\ tick.checks = {}
  BY DEF Launch
<1>2. EntriesAccepted' /\ FillsTold' /\ PostsLate'
  BY <1>1, EntriesMove
<1>3. tick \in [phase: {"idle", "deposits", "pairs"}, ready: SUBSET Orders,
                checks: SUBSET (Orders \X Requests)]
  BY DEF BatcherInv, BatcherTypes
<1>4. CASE tick' = NoTick /\ UNCHANGED <<inFlight, pairs>>
  <2>1. BatcherTypes'
    BY <1>1, <1>4 DEF BatcherInv, BatcherTypes, NoTick, chainVars
  <2>2. (TickKept /\ PairsKept /\ ReceiptsAwaited)'
    BY <1>1, <1>4 DEF BatcherInv, TickKept, PairsKept, ReceiptsAwaited, InState, NoTick, chainVars
  <2> QED
    BY <1>2, <2>1, <2>2 DEF BatcherInv
<1>5. CASE /\ tick' = [tick EXCEPT !.phase = "pairs"]
           /\ pairs' = [p \in Pairs |->
                           LET batch == {o \in tick.ready : PairOf[o] = p}
                           IN  IF batch = {} THEN NoPair
                               ELSE [NoPair EXCEPT !.phase = "solve", !.batch = batch]]
  <2> DEFINE batch(p) == {o \in tick.ready : PairOf[o] = p}
  <2>1. ASSUME NEW p \in Pairs
        PROVE  /\ pairs'[p] \in [phase: Phases, batch: SUBSET Orders, tx: Nat, since: Nat]
               /\ pairs'[p].phase \in {"done", "solve"}
               /\ pairs'[p].phase = "solve" => pairs'[p].batch = batch(p) /\ batch(p) # {}
    <3>1. batch(p) \subseteq Orders
      BY <1>3
    <3>2. pairs'[p] = IF batch(p) = {} THEN NoPair
                      ELSE [NoPair EXCEPT !.phase = "solve", !.batch = batch(p)]
      BY <1>5
    <3>3. ASSUME NEW B \in SUBSET Orders
          PROVE  LET n == [NoPair EXCEPT !.phase = "solve", !.batch = B]
                 IN  /\ n \in [phase: Phases, batch: SUBSET Orders, tx: Nat, since: Nat]
                     /\ n.phase = "solve" /\ n.batch = B
      <4>1. NoPair \in [phase: Phases, batch: SUBSET Orders, tx: Nat, since: Nat]
        BY DEF NoPair, Phases
      <4> QED
        BY <4>1 DEF Phases
    <3>4. NoPair \in [phase: Phases, batch: SUBSET Orders, tx: Nat, since: Nat] /\ NoPair.phase = "done"
      BY DEF NoPair, Phases
    <3> HIDE DEF batch
    <3> QED
      BY <3>1, <3>2, <3>3, <3>4
  <2>2. pairs' \in [Pairs -> [phase: Phases, batch: SUBSET Orders, tx: Nat, since: Nat]]
    BY <1>5, <2>1
  <2>3. /\ tick'.phase = "pairs" /\ tick'.checks = {}
        /\ tick' \in [phase: {"idle", "deposits", "pairs"}, ready: SUBSET Orders,
                      checks: SUBSET (Orders \X Requests)]
    BY <1>1, <1>3, <1>5
  <2>4. BatcherTypes'
    BY <1>1, <2>2, <2>3 DEF BatcherInv, BatcherTypes, chainVars
  <2>5. TickKept'
    BY <2>3 DEF TickKept
  <2>6. \A o \in tick.ready : orders[o] # Absent /\ (accepted[o] > 1 \/ InState(o, {"pending"}))
    BY <1>1 DEF BatcherInv, TickKept, InState
  <2>7. PairsKept'
    BY <1>1, <2>1, <2>6 DEF PairsKept, InState
  <2>8. ReceiptsAwaited'
    <3>1. \A i \in DOMAIN txs : txs[i].watch # "waiting"
      BY <1>1 DEF BatcherInv, TickKept, ReceiptsAwaited
    <3>2. \A p \in Pairs : pairs'[p].phase # "receipt"
      BY <2>1
    <3> QED
      BY <1>1, <3>1, <3>2 DEF ReceiptsAwaited, chainVars
  <2> QED
    BY <1>2, <2>4, <2>5, <2>7, <2>8 DEF BatcherInv
<1> QED
  BY <1>4, <1>5 DEF Launch

\* All pairs are done; entries that are old are forgotten.
LEMMA TickEndsKeeps ==
    ASSUME BatcherInv, TickEnds
    PROVE  BatcherInv'
<1>1. /\ UNCHANGED <<chainVars, posts, pausedUntil, pairs, accepted, now, failed>>
      /\ \A p \in Pairs : pairs[p] = NoPair
      /\ tick' = NoTick
      /\ orders \in [Orders -> Entries \cup {Absent}]
  BY DEF TickEnds, BatcherInv, BatcherTypes
<1>2. /\ orders' \in [Orders -> Entries \cup {Absent}]
      /\ \A o \in Orders : orders'[o] = orders[o] \/ orders'[o] = Absent
  <2> DEFINE old(o) == InState(o, Terminal \cup {"awaiting_deposit"}) /\ orders[o].receivedAt + Keep < now
  <2>1. orders' = [o \in Orders |-> IF old(o) THEN Absent ELSE orders[o]]
    BY DEF TickEnds
  <2> HIDE DEF old
  <2> QED
    BY <1>1, <2>1
<1>3. EntriesAccepted' /\ FillsTold' /\ PostsLate'
  BY <1>1, <1>2, EntriesMove
<1>4. BatcherTypes'
  BY <1>1, <1>2 DEF BatcherInv, BatcherTypes, NoTick, chainVars
<1>5. (TickKept /\ PairsKept)'
  BY <1>1 DEF TickKept, PairsKept, NoTick, NoPair
<1>6. ReceiptsAwaited'
  BY <1>1 DEF BatcherInv, ReceiptsAwaited, chainVars
<1> QED
  BY <1>3, <1>4, <1>5, <1>6 DEF BatcherInv

-----------------------------------------------------------------------------
(* One pair *)

\* What the orders that a pair works on were not told, unless they are excused.
LEMMA BatchUntold ==
    ASSUME BatcherInv, NEW p \in Pairs, pairs[p].phase # "done", NEW o \in pairs[p].batch
    PROVE  /\ o \in Orders /\ orders[o] \in Entries /\ orders[o] # Absent /\ accepted[o] > 0
           /\ accepted[o] > 1 \/ ~InState(o, {"filled"})
           /\ \A i \in DOMAIN txs :
                 o \in txs[i].orders /\ txs[i].watch = "answered" /\ txs[i].state = "ok" => Excused(o)
<1>1. /\ o \in Orders
      /\ orders \in [Orders -> Entries \cup {Absent}]
  BY DEF BatcherInv, BatcherTypes
<1>2. orders[o] # Absent /\ (accepted[o] > 1 \/ InState(o, {"pending", "settling"}))
  BY DEF BatcherInv, PairsKept, InState
<1>3. accepted[o] > 0
  BY <1>1, <1>2 DEF BatcherInv, EntriesAccepted
<1>4. accepted[o] > 1 \/ ~InState(o, {"filled"})
  BY <1>2 DEF InState
<1>5. ASSUME NEW i \in DOMAIN txs,
             o \in txs[i].orders, txs[i].watch = "answered", txs[i].state = "ok"
      PROVE  Excused(o)
  BY <1>2, <1>4, <1>5 DEF BatcherInv, FillsTold, Excused
<1> QED
  BY <1>1, <1>2, <1>3, <1>4, <1>5

\* What a step of p does to the map: it changes the entries of its own orders, and tells
\* them filled only if they are.
EntriesStep(p) ==
    /\ UNCHANGED <<outcome, posts, tick, accepted, now>>
    /\ orders' \in [Orders -> Entries \cup {Absent}]
    /\ pairs' \in [Pairs -> [phase: Phases, batch: SUBSET Orders, tx: Nat, since: Nat]]
    /\ \A o \in Orders \ pairs[p].batch : orders'[o] = orders[o]
    /\ \A o \in pairs[p].batch :
          /\ orders'[o] # Absent
          /\ orders'[o].state = "filled" => orders'[o].state = orders[o].state \/ outcome[o] = "filled"
    /\ \A q \in Pairs \ {p} : pairs'[q] = pairs[q]
    /\ pairs'[p].phase # "done" =>
          /\ pairs'[p].batch # {} /\ pairs'[p].batch \subseteq pairs[p].batch
          /\ \A o \in pairs'[p].batch :
                accepted[o] > 1 \/
                orders'[o].state = IF pairs'[p].phase = "receipt" THEN "settling" ELSE "pending"

Awaits(p, i) == pairs[p].phase = "receipt" /\ pairs[p].tx = i

\* What it does to the settlements: it adds one, waited for by p or lost, or ends the
\* waiting for its own, by an answer that it passes on.
SettlementsStep(p) ==
    /\ txs' \in Seq(Settlements)
    /\ \A i \in DOMAIN txs :
          /\ i \in DOMAIN txs'
          /\ txs'[i].orders = txs[i].orders /\ txs'[i].state = txs[i].state
          /\ \/ txs'[i].watch = txs[i].watch /\ (txs[i].watch = "waiting" => ~Awaits(p, i) \/ Awaits(p, i)')
             \/ Awaits(p, i) /\ ~Awaits(p, i)' /\ txs'[i].watch = "lost"
             \/ /\ Awaits(p, i) /\ ~Awaits(p, i)' /\ txs'[i].watch = "answered"
                /\ txs[i].state # "sent"
                /\ txs[i].state = "ok" => \A o \in txs[i].orders : InState(o, {"filled"})'
    /\ \A i \in (DOMAIN txs') \ (DOMAIN txs) :
          /\ txs'[i].state = "sent"
          /\ txs'[i].watch = "lost" \/ (txs'[i].watch = "waiting" /\ Awaits(p, i)')
    /\ pairs'[p].phase = "receipt" =>
          /\ pairs'[p].tx \in DOMAIN txs'
          /\ txs'[pairs'[p].tx].watch = "waiting"
          /\ txs'[pairs'[p].tx].orders = pairs'[p].batch

\* The batches of two pairs have no order in common.
LEMMA BatchesApart ==
    ASSUME BatcherInv, NEW p \in Pairs, NEW q \in Pairs, p # q,
           pairs[p].phase # "done", pairs[q].phase # "done"
    PROVE  /\ pairs[p].batch \cap pairs[q].batch = {}
           /\ pairs[p].batch # pairs[q].batch
BY DEF BatcherInv, PairsKept

\* A settlement that is lost once stays so, and so does the excuse.
LEMMA LostStays ==
    ASSUME BatcherInv, NEW p \in Pairs, SettlementsStep(p), UNCHANGED accepted, NEW o
    PROVE  (Lost(o) => Lost(o)') /\ (Excused(o) => Excused(o)')
<1>1. ASSUME NEW i \in DOMAIN txs, txs[i].watch = "lost"
      PROVE  txs'[i].watch = "lost"
  <2>1. ~Awaits(p, i)
    BY <1>1 DEF BatcherInv, ReceiptsAwaited, Awaits
  <2> QED
    BY <1>1, <2>1 DEF SettlementsStep
<1>2. Lost(o) => Lost(o)'
  BY <1>1 DEF Lost, SettlementsStep
<1> QED
  BY <1>2 DEF Excused

\* A step of a pair that treats its own orders and its own settlement in this way keeps the rest.
LEMMA PairStepKeeps ==
    ASSUME BatcherInv, NEW p \in Pairs, pairs[p].phase # "done", EntriesStep(p), SettlementsStep(p)
    PROVE  BatcherInv'
<1>1. \A o : (Lost(o) => Lost(o)') /\ (Excused(o) => Excused(o)')
  BY LostStays DEF EntriesStep
<1>2. BatcherTypes'
  BY DEF BatcherInv, BatcherTypes, EntriesStep, SettlementsStep
<1>3. /\ UNCHANGED <<outcome, posts, tick, accepted, now>>
      /\ \A o \in Orders \ pairs[p].batch : orders'[o] = orders[o]
      /\ \A q \in Pairs \ {p} : pairs'[q] = pairs[q]
      /\ pairs[p].batch \subseteq Orders
  BY DEF EntriesStep, BatcherInv, BatcherTypes
<1>4. EntriesAccepted'
  BY <1>3, BatchUntold DEF BatcherInv, EntriesAccepted, EntriesStep
<1>5. TickKept'
  <2>1. tick.phase = "pairs"
    BY DEF BatcherInv, TickKept
  <2> QED
    BY <1>3, <2>1 DEF BatcherInv, TickKept
<1>6. PostsLate'
  BY <1>1, <1>3 DEF BatcherInv, PostsLate
<1>7. PairsKept'
  <2>1. ASSUME pairs'[p].phase # "done", NEW o \in pairs'[p].batch
        PROVE  /\ PairOf[o] = p
               /\ orders'[o] # Absent
               /\ accepted'[o] > 1 \/
                  InState(o, IF pairs[p].phase = "receipt" THEN {"settling"} ELSE {"pending"})'
    BY <1>3, <2>1 DEF EntriesStep, InState, BatcherInv, PairsKept
  <2>2. ASSUME NEW q \in Pairs \ {p}, pairs'[q].phase # "done", NEW o \in pairs'[q].batch
        PROVE  o \in Orders /\ orders'[o] = orders[o] /\ accepted'[o] = accepted[o]
    <3>1. o \in pairs[q].batch /\ pairs[q].phase # "done" /\ o \in Orders
      BY <1>3, <2>2 DEF BatcherInv, BatcherTypes
    <3>2. o \notin pairs[p].batch
      BY <2>2, <3>1, BatchesApart
    <3> QED
      BY <1>3, <3>1, <3>2
  <2>3. ASSUME NEW q \in Pairs \ {p}, pairs'[q].phase # "done"
        PROVE  /\ pairs'[q].batch # {}
               /\ \A o \in pairs'[q].batch :
                    /\ PairOf[o] = q
                    /\ orders'[o] # Absent
                    /\ accepted'[o] > 1 \/
                       InState(o, IF pairs[q].phase = "receipt" THEN {"settling"} ELSE {"pending"})'
    BY <1>3, <2>2, <2>3 DEF BatcherInv, PairsKept, InState
  <2>4. pairs'[p].phase # "done" => pairs'[p].batch # {}
    BY DEF EntriesStep
  <2> QED
    BY <2>1, <2>3, <2>4 DEF PairsKept
<1>8. ReceiptsAwaited'
  <2>1. ASSUME NEW i \in DOMAIN txs', txs'[i].watch = "waiting"
        PROVE  \E q \in Pairs : Awaits(q, i)'
    <3>1. CASE i \notin DOMAIN txs
      BY <2>1, <3>1 DEF SettlementsStep
    <3>2. CASE i \in DOMAIN txs
      <4>1. txs[i].watch = "waiting" /\ (~Awaits(p, i) \/ Awaits(p, i)')
        BY <2>1, <3>2 DEF SettlementsStep
      <4>2. PICK q \in Pairs : Awaits(q, i)
        BY <3>2, <4>1 DEF BatcherInv, ReceiptsAwaited, Awaits
      <4> QED
        BY <1>3, <4>1, <4>2 DEF Awaits
    <3> QED
      BY <3>1, <3>2
  <2>2. ASSUME NEW q \in Pairs, pairs'[q].phase = "receipt"
        PROVE  /\ pairs'[q].tx \in DOMAIN txs'
               /\ txs'[pairs'[q].tx].watch = "waiting"
               /\ txs'[pairs'[q].tx].orders = pairs'[q].batch
    <3>1. CASE q = p
      BY <2>2, <3>1 DEF SettlementsStep
    <3>2. CASE q # p
      <4>1. pairs'[q] = pairs[q] /\ pairs[q].phase = "receipt"
        BY <1>3, <2>2, <3>2
      <4>2. /\ pairs[q].tx \in DOMAIN txs
            /\ txs[pairs[q].tx].watch = "waiting"
            /\ txs[pairs[q].tx].orders = pairs[q].batch
        BY <4>1 DEF BatcherInv, ReceiptsAwaited
      <4>3. ~Awaits(p, pairs[q].tx)
        <5>1. ASSUME Awaits(p, pairs[q].tx)
              PROVE  pairs[p].batch = pairs[q].batch
          BY <4>2, <5>1 DEF Awaits, BatcherInv, ReceiptsAwaited
        <5> QED
          BY <3>2, <4>1, <5>1, BatchesApart
      <4> QED
        BY <4>1, <4>2, <4>3 DEF SettlementsStep
    <3> QED
      BY <3>1, <3>2
  <2> QED
    BY <2>1, <2>2 DEF ReceiptsAwaited, Awaits
<1>9. FillsTold'
  <2>1. \A i \in DOMAIN txs : txs[i].orders \subseteq Orders
    BY SettlementTyped DEF BatcherInv, Settlements
  <2>2. ASSUME NEW o \in Orders, outcome'[o] = "filled"
        PROVE  \E i \in DOMAIN txs' : o \in txs'[i].orders /\ txs'[i].state = "ok"
    BY <1>3, <2>2 DEF BatcherInv, FillsTold, SettlementsStep
  <2>3. ASSUME NEW o \in Orders, InState(o, {"filled"})'
        PROVE  outcome'[o] = "filled"
    <3>1. CASE o \in pairs[p].batch
      <4>1. orders[o] # Absent
        BY <3>1, BatchUntold
      <4> QED
        BY <1>3, <2>3, <3>1, <4>1 DEF BatcherInv, FillsTold, EntriesStep, InState
    <3>2. CASE o \notin pairs[p].batch
      BY <1>3, <2>3, <3>2 DEF BatcherInv, FillsTold, InState
    <3> QED
      BY <3>1, <3>2
  <2>4. ASSUME NEW i \in DOMAIN txs', i \notin DOMAIN txs
        PROVE  txs'[i].state = "sent" /\ txs'[i].watch # "answered"
    BY <2>4 DEF SettlementsStep
  <2>5. ASSUME NEW i \in DOMAIN txs, txs'[i].state = "ok", NEW o \in txs'[i].orders
        PROVE  outcome'[o] = "filled"
    BY <1>3, <2>5 DEF BatcherInv, FillsTold, SettlementsStep
  <2>6. ASSUME NEW i \in DOMAIN txs, txs'[i].watch = "answered"
        PROVE  txs'[i].state # "sent"
    BY <2>6 DEF BatcherInv, FillsTold, SettlementsStep
  <2>7. ASSUME NEW i \in DOMAIN txs, txs'[i].watch = "answered", txs'[i].state = "ok",
               NEW o \in txs'[i].orders
        PROVE  (orders[o] = Absent \/ InState(o, {"filled"}) \/ Excused(o))'
    <3>1. txs[i].state = "ok" /\ o \in txs[i].orders /\ o \in Orders
      BY <2>1, <2>7 DEF SettlementsStep
    <3>2. txs[i].watch = "answered" \/ InState(o, {"filled"})'
      BY <2>7, <3>1 DEF SettlementsStep
    <3>3. ASSUME txs[i].watch = "answered"
          PROVE  (orders[o] = Absent \/ InState(o, {"filled"}) \/ Excused(o))'
      <4>1. CASE o \in pairs[p].batch
        <5>1. Excused(o)
          BY <3>1, <3>3, <4>1, BatchUntold
        <5> QED
          BY <1>1, <5>1
      <4>2. CASE o \notin pairs[p].batch
        <5>1. orders[o] = Absent \/ InState(o, {"filled"}) \/ Excused(o)
          BY <3>1, <3>3 DEF BatcherInv, FillsTold
        <5>2. orders'[o] = orders[o]
          BY <1>3, <3>1, <4>2
        <5> QED
          BY <1>1, <5>1, <5>2 DEF InState
      <4> QED
        BY <4>1, <4>2
    <3> QED
      BY <3>2, <3>3
  <2> QED
    BY <2>2, <2>3, <2>4, <2>5, <2>6, <2>7 DEF FillsTold
<1> QED
  BY <1>2, <1>4, <1>5, <1>6, <1>7, <1>8, <1>9 DEF BatcherInv

\* The settlements stand while no pair waits for another one.
LEMMA SettlementsStand ==
    ASSUME BatcherInv, NEW p \in Pairs, UNCHANGED txs,
           pairs[p].phase # "receipt", pairs'[p].phase # "receipt"
    PROVE  SettlementsStep(p)
BY DEF BatcherInv, BatcherTypes, SettlementsStep, Awaits

\* What the pair's types say.
LEMMA PairTyped ==
    ASSUME BatcherInv, NEW p \in Pairs
    PROVE  /\ pairs \in [Pairs -> [phase: Phases, batch: SUBSET Orders, tx: Nat, since: Nat]]
           /\ pairs[p] \in [phase: Phases, batch: SUBSET Orders, tx: Nat, since: Nat]
           /\ orders \in [Orders -> Entries \cup {Absent}]
           /\ pairs[p].batch \subseteq Orders
           /\ NoPair \in [phase: Phases, batch: SUBSET Orders, tx: Nat, since: Nat]
           /\ NoPair.phase = "done"
<1>1. pairs \in [Pairs -> [phase: Phases, batch: SUBSET Orders, tx: Nat, since: Nat]]
      /\ orders \in [Orders -> Entries \cup {Absent}]
  BY DEF BatcherInv, BatcherTypes
<1>2. NoPair \in [phase: Phases, batch: SUBSET Orders, tx: Nat, since: Nat] /\ NoPair.phase = "done"
  BY DEF NoPair, Phases
<1> QED
  BY <1>1, <1>2

\* A failed attempt leaves an order rejected or in the state it is sent back to.
LEMMA AttemptedEntries ==
    ASSUME orders \in [Orders -> Entries \cup {Absent}],
           NEW S, S \subseteq Orders, NEW limit \in Nat, NEW back,
           \A o \in S : orders[o] \in Entries /\ back[o] \in States,
           NEW m, m = Attempted(S, limit, back)
    PROVE  /\ m \in [Orders -> Entries \cup {Absent}]
           /\ \A o \in Orders \ S : m[o] = orders[o]
           /\ \A o \in S : m[o] \in Entries /\ m[o].state \in {"rejected", back[o]}
<1>1. \A o \in Orders \ S : m[o] = orders[o]
  BY DEF Attempted
<1>2. ASSUME NEW o \in S
      PROVE  m[o] \in Entries /\ m[o].state \in {"rejected", back[o]}
  <2> DEFINE n == orders[o].attempts + 1
             s == IF n >= limit THEN "rejected" ELSE back[o]
  <2>1. m[o] = [orders[o] EXCEPT !.attempts = n, !.state = s]
    BY DEF Attempted
  <2>2. n \in Nat
    BY DEF Entries
  <2>3. s \in States /\ s \in {"rejected", back[o]}
    BY DEF States, Terminal
  <2> HIDE DEF n, s
  <2>4. orders[o] \in Entries
    OBVIOUS
  <2>5. /\ [orders[o] EXCEPT !.attempts = n, !.state = s] \in Entries
        /\ [orders[o] EXCEPT !.attempts = n, !.state = s].state = s
    BY <2>2, <2>3, <2>4, EntryAttempted
  <2> QED
    BY <2>1, <2>3, <2>5
<1>3. m \in [Orders -> Entries \cup {Absent}]
  <2>1. \A o \in Orders : m[o] \in Entries \cup {Absent}
    BY <1>1, <1>2
  <2>2. m = [o \in Orders |-> m[o]]
    BY DEF Attempted
  <2> QED
    BY <2>1, <2>2
<1> QED
  BY <1>1, <1>2, <1>3

\* What is dropped is rejected.
LEMMA DroppedEntries ==
    ASSUME NEW map \in [Orders -> Entries \cup {Absent}],
           NEW dropped, dropped \subseteq Orders, \A o \in dropped : map[o] \in Entries,
           NEW m, m = Dropping(dropped, map)
    PROVE  /\ m \in [Orders -> Entries \cup {Absent}]
           /\ \A o \in Orders \ dropped : m[o] = map[o]
           /\ \A o \in dropped : m[o] \in Entries /\ m[o].state = "rejected"
<1>1. \A o \in Orders \ dropped : m[o] = map[o]
  BY DEF Dropping
<1>2. ASSUME NEW o \in dropped
      PROVE  m[o] \in Entries /\ m[o].state = "rejected"
  <2>1. m[o] = [map[o] EXCEPT !.state = "rejected"] /\ map[o] \in Entries
    BY DEF Dropping
  <2>2. "rejected" \in States
    BY DEF States, Terminal
  <2> QED
    BY <2>1, <2>2, EntryUpdated
<1>3. m \in [Orders -> Entries \cup {Absent}]
  <2>1. \A o \in Orders : m[o] \in Entries \cup {Absent}
    BY <1>1, <1>2
  <2>2. m = [o \in Orders |-> m[o]]
    BY DEF Dropping
  <2> QED
    BY <2>1, <2>2
<1> QED
  BY <1>1, <1>2, <1>3

\* A pair that gives up tells none of its orders filled.
LEMMA GivingUp ==
    ASSUME BatcherInv, NEW p \in Pairs, pairs[p].phase # "done",
           NEW limit \in Nat, NEW back,
           \A o \in pairs[p].batch : back[o] \in {"pending", orders[o].state},
           GivesUp(p, pairs[p].batch, limit, back),
           UNCHANGED <<outcome, posts, tick, accepted, now>>
    PROVE  EntriesStep(p) /\ pairs'[p].phase = "done"
<1>1. \A o \in pairs[p].batch : o \in Orders /\ orders[o] \in Entries
  BY BatchUntold
<1>2. \A o \in pairs[p].batch : back[o] \in States
  BY <1>1 DEF Entries, States
<1>3. orders' = Attempted(pairs[p].batch, limit, back) /\ pairs' = [pairs EXCEPT ![p] = NoPair]
  BY DEF GivesUp
<1>4. /\ orders' \in [Orders -> Entries \cup {Absent}]
      /\ \A o \in Orders \ pairs[p].batch : orders'[o] = orders[o]
      /\ \A o \in pairs[p].batch : orders'[o] \in Entries /\ orders'[o].state \in {"rejected", back[o]}
  BY <1>1, <1>2, <1>3, PairTyped, AttemptedEntries
<1>5. /\ pairs' \in [Pairs -> [phase: Phases, batch: SUBSET Orders, tx: Nat, since: Nat]]
      /\ \A q \in Pairs \ {p} : pairs'[q] = pairs[q]
      /\ pairs'[p].phase = "done"
  BY <1>3, PairTyped
<1>6. \A o \in pairs[p].batch :
          /\ orders'[o] # Absent
          /\ orders'[o].state = "filled" => orders'[o].state = orders[o].state
  BY <1>4, AbsentIsNoEntry
<1> QED
  BY <1>4, <1>5, <1>6 DEF EntriesStep

\* The solver drops orders and goes on with the others, gives up on all, or throws.
LEMMA SolvingKeeps ==
    ASSUME BatcherInv, NEW p \in Pairs, Solved(p) \/ SolveFails(p) \/ SolveThrows(p)
    PROVE  BatcherInv'
<1>1. /\ pairs[p].phase = "solve" /\ pairs[p].phase # "done" /\ pairs[p].phase # "receipt"
      /\ UNCHANGED <<outcome, posts, tick, accepted, now, txs>>
  BY DEF Solved, SolveFails, SolveThrows, PairOnly, chainVars
<1>2. \A o \in pairs[p].batch :
          /\ o \in Orders /\ orders[o] \in Entries
          /\ accepted[o] > 1 \/ orders[o].state = "pending"
  BY <1>1, BatchUntold DEF BatcherInv, PairsKept, InState
<1>3. CASE Solved(p)
  <2>a. PICK dropped \in (SUBSET pairs[p].batch) \ {pairs[p].batch} :
          /\ orders' = Dropping(dropped, orders)
          /\ pairs' = [pairs EXCEPT ![p].phase = "dry", ![p].batch = @ \ dropped]
    BY <1>3 DEF Solved
  <2>b. PICK left \in SUBSET Orders : left = pairs[p].batch \ dropped
    BY PairTyped
  <2>1. /\ dropped \subseteq pairs[p].batch /\ dropped # pairs[p].batch
        /\ orders' = Dropping(dropped, orders)
        /\ pairs' = [pairs EXCEPT ![p].phase = "dry", ![p].batch = left]
    <3>1. [pairs EXCEPT ![p].phase = "dry", ![p].batch = @ \ dropped]
          = [pairs EXCEPT ![p].phase = "dry", ![p].batch = left]
      BY <2>b, PairTyped
    <3> QED
      BY <2>a, <3>1
  <2>2. /\ orders' \in [Orders -> Entries \cup {Absent}]
        /\ \A o \in Orders \ dropped : orders'[o] = orders[o]
        /\ \A o \in dropped : orders'[o] \in Entries /\ orders'[o].state = "rejected"
    BY <1>2, <2>1, PairTyped, DroppedEntries
  <2>3. /\ pairs' \in [Pairs -> [phase: Phases, batch: SUBSET Orders, tx: Nat, since: Nat]]
        /\ \A q \in Pairs \ {p} : pairs'[q] = pairs[q]
        /\ pairs'[p].phase = "dry" /\ pairs'[p].batch = left
    BY <2>1, PairTyped DEF Phases
  <2>4. EntriesStep(p)
    <3>1. pairs'[p].batch # {} /\ pairs'[p].batch \subseteq pairs[p].batch
      <4>1. \E o \in pairs[p].batch : o \notin dropped
        BY ONLY <2>1
      <4> QED
        BY <2>b, <2>3, <4>1
    <3>2. \A o \in pairs'[p].batch : accepted[o] > 1 \/ orders'[o].state = "pending"
      BY <1>2, <2>b, <2>2, <2>3
    <3>3. \A o \in pairs[p].batch :
            /\ orders'[o] # Absent
            /\ orders'[o].state = "filled" => orders'[o].state = orders[o].state
      BY <1>2, <2>2, AbsentIsNoEntry
    <3>4. \A o \in Orders \ pairs[p].batch : orders'[o] = orders[o]
      BY <2>1, <2>2
    <3> QED
      BY <1>1, <2>2, <2>3, <3>1, <3>2, <3>3, <3>4 DEF EntriesStep
  <2>5. SettlementsStep(p)
    BY <1>1, <2>3, SettlementsStand
  <2> QED
    BY <1>1, <2>4, <2>5, PairStepKeeps
<1>4. CASE SolveFails(p)
  <2>1. PICK dropped \in SUBSET pairs[p].batch :
          LET tried == {o \in pairs[p].batch \ dropped : InState(o, {"pending"})}
          IN  /\ orders' = Dropping(dropped, Attempted(tried, MaxAttempts, Unchanged(tried)))
              /\ pairs' = [pairs EXCEPT ![p] = NoPair]
    BY <1>4 DEF SolveFails
  <2> DEFINE tried == {o \in pairs[p].batch \ dropped : InState(o, {"pending"})}
             m == Attempted(tried, MaxAttempts, Unchanged(tried))
  <2>2. tried \subseteq pairs[p].batch /\ dropped \subseteq pairs[p].batch
        /\ tried \subseteq Orders /\ dropped \subseteq Orders
    BY <2>1, PairTyped
  <2>3. orders' = Dropping(dropped, m) /\ pairs' = [pairs EXCEPT ![p] = NoPair]
    BY <2>1
  <2> HIDE DEF tried
  <2>4. /\ m \in [Orders -> Entries \cup {Absent}]
        /\ \A o \in Orders \ tried : m[o] = orders[o]
        /\ \A o \in tried : m[o] \in Entries /\ m[o].state \in {"rejected", orders[o].state}
    <3>1. \A o \in tried : /\ orders[o] \in Entries /\ Unchanged(tried)[o] = orders[o].state
                           /\ Unchanged(tried)[o] \in States
      BY <1>2, <2>2 DEF Unchanged, Entries, States
    <3>2. MaxAttempts \in Nat
      BY BatcherConstants
    <3> HIDE DEF m
    <3>3. /\ m \in [Orders -> Entries \cup {Absent}]
          /\ \A o \in Orders \ tried : m[o] = orders[o]
          /\ \A o \in tried : m[o] \in Entries /\ m[o].state \in {"rejected", Unchanged(tried)[o]}
      BY <2>2, <3>1, <3>2, PairTyped, AttemptedEntries DEF m
    <3> QED
      BY <3>1, <3>3
  <2> HIDE DEF m
  <2>5. /\ orders' \in [Orders -> Entries \cup {Absent}]
        /\ \A o \in Orders \ dropped : orders'[o] = m[o]
        /\ \A o \in dropped : orders'[o] \in Entries /\ orders'[o].state = "rejected"
    <3>1. \A o \in dropped : m[o] \in Entries
      BY <1>2, <2>2, <2>4
    <3> QED
      BY <2>2, <2>3, <2>4, <3>1, DroppedEntries
  <2>6. \A o \in pairs[p].batch :
            /\ orders'[o] \in Entries
            /\ orders'[o].state \in {"rejected", orders[o].state}
    BY <1>2, <2>2, <2>4, <2>5
  <2>7. EntriesStep(p)
    <3>1. /\ pairs' \in [Pairs -> [phase: Phases, batch: SUBSET Orders, tx: Nat, since: Nat]]
          /\ \A q \in Pairs \ {p} : pairs'[q] = pairs[q]
          /\ pairs'[p].phase = "done"
      BY <2>3, PairTyped
    <3>2. \A o \in Orders \ pairs[p].batch : orders'[o] = orders[o]
      BY <2>2, <2>4, <2>5
    <3>3. \A o \in pairs[p].batch : orders'[o] # Absent
      BY <2>6, AbsentIsNoEntry
    <3> QED
      BY <1>1, <2>5, <2>6, <3>1, <3>2, <3>3 DEF EntriesStep
  <2>8. pairs'[p].phase # "receipt"
    BY <2>3, PairTyped
  <2> QED
    BY <1>1, <2>7, <2>8, SettlementsStand, PairStepKeeps
<1>5. CASE SolveThrows(p)
  <2>1. /\ pairs' = [pairs EXCEPT ![p] = NoPair] /\ orders' = orders
    BY <1>5 DEF SolveThrows
  <2>2. EntriesStep(p) /\ pairs'[p].phase # "receipt"
    BY <1>1, <1>2, <2>1, PairTyped, AbsentIsNoEntry DEF EntriesStep
  <2> QED
    BY <1>1, <2>2, SettlementsStand, PairStepKeeps
<1> QED
  BY <1>3, <1>4, <1>5

\* The dry run changes nothing, or the pair gives up.
LEMMA DryRunKeeps ==
    ASSUME BatcherInv, NEW p \in Pairs, DryRunPasses(p) \/ DryRunFails(p)
    PROVE  BatcherInv'
<1>1. /\ pairs[p].phase = "dry" /\ pairs[p].phase # "done" /\ pairs[p].phase # "receipt"
      /\ UNCHANGED <<outcome, posts, tick, accepted, now, txs>>
  BY DEF DryRunPasses, DryRunFails, PairOnly, chainVars
<1>2. \A o \in pairs[p].batch :
          /\ o \in Orders /\ orders[o] \in Entries /\ orders[o] # Absent
          /\ accepted[o] > 1 \/ orders[o].state = "pending"
  BY <1>1, BatchUntold DEF BatcherInv, PairsKept, InState
<1>3. CASE DryRunPasses(p)
  <2>1. pairs' = [pairs EXCEPT ![p].phase = "send"] /\ orders' = orders
    BY <1>3 DEF DryRunPasses
  <2>2. /\ pairs' \in [Pairs -> [phase: Phases, batch: SUBSET Orders, tx: Nat, since: Nat]]
        /\ \A q \in Pairs \ {p} : pairs'[q] = pairs[q]
        /\ pairs'[p].phase = "send" /\ pairs'[p].batch = pairs[p].batch
    BY <2>1, PairTyped DEF Phases
  <2>3. pairs[p].batch # {}
    BY <1>1 DEF BatcherInv, PairsKept
  <2>4. EntriesStep(p)
    BY <1>1, <1>2, <2>1, <2>2, <2>3, PairTyped DEF EntriesStep
  <2> QED
    BY <1>1, <2>2, <2>4, SettlementsStand, PairStepKeeps
<1>4. CASE DryRunFails(p)
  <2>1. GivesUp(p, pairs[p].batch, MaxAttempts, Unchanged(pairs[p].batch)) /\ MaxAttempts \in Nat
    BY <1>4, BatcherConstants DEF DryRunFails
  <2>2. \A o \in pairs[p].batch : Unchanged(pairs[p].batch)[o] = orders[o].state
    BY DEF Unchanged
  <2>3. EntriesStep(p) /\ pairs'[p].phase = "done"
    BY <1>1, <2>1, <2>2, GivingUp
  <2> QED
    BY <1>1, <2>3, SettlementsStand, PairStepKeeps
<1> QED
  BY <1>3, <1>4

\* A settlement more.
LEMMA SettlementAdded ==
    ASSUME BatcherInv, NEW t \in Settlements, txs' = Append(txs, t)
    PROVE  /\ txs' \in Seq(Settlements)
           /\ Len(txs) \in Nat /\ DOMAIN txs = 1..Len(txs) /\ DOMAIN txs' = 1..Len(txs) + 1
           /\ Len(txs') = Len(txs) + 1 /\ Len(txs) + 1 \notin DOMAIN txs
           /\ \A i \in DOMAIN txs : i \in DOMAIN txs' /\ txs'[i] = txs[i]
           /\ txs'[Len(txs) + 1] = t
           /\ \A i \in (DOMAIN txs') \ (DOMAIN txs) : i = Len(txs) + 1
           /\ \A p \in Pairs : pairs[p].phase = "receipt" => pairs[p].tx # Len(txs) + 1
<1>1. txs \in Seq(Settlements)
  BY DEF BatcherInv, BatcherTypes
<1>2. /\ txs' \in Seq(Settlements)
      /\ Len(txs) \in Nat /\ DOMAIN txs = 1..Len(txs) /\ DOMAIN txs' = 1..Len(txs')
      /\ Len(txs') = Len(txs) + 1
      /\ \A i \in 1..Len(txs) : txs'[i] = txs[i]
      /\ txs'[Len(txs) + 1] = t
  BY <1>1, AppendProperties, LenProperties
<1>3. \A p \in Pairs : pairs[p].phase = "receipt" => pairs[p].tx \in DOMAIN txs
  BY DEF BatcherInv, ReceiptsAwaited
<1> QED
  BY <1>2, <1>3

\* The transaction is out: the orders are settling, and the pair waits for the receipt.
LEMMA SentKeeps ==
    ASSUME BatcherInv, NEW p \in Pairs, Sent(p)
    PROVE  BatcherInv'
<1>1. /\ pairs[p].phase = "send" /\ pairs[p].phase # "done" /\ pairs[p].phase # "receipt"
      /\ UNCHANGED <<outcome, posts, tick, accepted, now>>
      /\ txs' = Append(txs, [orders |-> pairs[p].batch, state |-> "sent", watch |-> "waiting"])
      /\ orders' = [o \in Orders |->
                      IF o \in pairs[p].batch THEN [orders[o] EXCEPT !.state = "settling"] ELSE orders[o]]
      /\ pairs' = [pairs EXCEPT ![p].phase = "receipt", ![p].tx = Len(txs'), ![p].since = now]
  BY DEF Sent, PairOnly
<1> DEFINE t == [orders |-> pairs[p].batch, state |-> "sent", watch |-> "waiting"]
<1>2. t \in Settlements /\ t.orders = pairs[p].batch /\ t.state = "sent" /\ t.watch = "waiting"
  BY PairTyped DEF Settlements
<1>3. txs' = Append(txs, t)
  BY <1>1
<1> HIDE DEF t
<1>4. /\ txs' \in Seq(Settlements)
      /\ Len(txs) \in Nat /\ DOMAIN txs = 1..Len(txs) /\ DOMAIN txs' = 1..Len(txs) + 1
      /\ Len(txs') = Len(txs) + 1 /\ Len(txs) + 1 \notin DOMAIN txs
      /\ \A i \in DOMAIN txs : i \in DOMAIN txs' /\ txs'[i] = txs[i]
      /\ txs'[Len(txs) + 1] = t
      /\ \A i \in (DOMAIN txs') \ (DOMAIN txs) : i = Len(txs) + 1
      /\ \A q \in Pairs : pairs[q].phase = "receipt" => pairs[q].tx # Len(txs) + 1
  BY <1>2, <1>3, SettlementAdded
<1>5. /\ pairs' \in [Pairs -> [phase: Phases, batch: SUBSET Orders, tx: Nat, since: Nat]]
      /\ \A q \in Pairs \ {p} : pairs'[q] = pairs[q]
      /\ pairs'[p].phase = "receipt" /\ pairs'[p].batch = pairs[p].batch
      /\ pairs'[p].tx = Len(txs) + 1
  <2>1. Len(txs') \in Nat /\ now \in Nat
    BY <1>4, BatcherConstants DEF BatcherInv, BatcherTypes
  <2>2. PICK n \in Nat, m \in Nat : n = Len(txs') /\ m = now
    BY <2>1
  <2>3. pairs' = [pairs EXCEPT ![p].phase = "receipt", ![p].tx = n, ![p].since = m]
    BY <1>1, <2>2
  <2> QED
    <3>1. PICK r : r = [pairs[p] EXCEPT !.phase = "receipt", !.tx = n, !.since = m]
      OBVIOUS
    <3>2. /\ r \in [phase: Phases, batch: SUBSET Orders, tx: Nat, since: Nat]
          /\ r.phase = "receipt" /\ r.batch = pairs[p].batch /\ r.tx = n
      BY <3>1, PairTyped DEF Phases
    <3>3. pairs' = [pairs EXCEPT ![p] = r]
      BY <2>3, <3>1, PairTyped
    <3> QED
      BY <1>4, <2>2, <3>2, <3>3, PairTyped
<1>6. /\ \A o \in Orders \ pairs[p].batch : orders'[o] = orders[o]
      /\ \A o \in pairs[p].batch : orders'[o] \in Entries /\ orders'[o].state = "settling"
      /\ orders' \in [Orders -> Entries \cup {Absent}]
  <2>1. \A o \in Orders \ pairs[p].batch : orders'[o] = orders[o] /\ orders[o] \in Entries \cup {Absent}
    BY <1>1, PairTyped
  <2>2. ASSUME NEW o \in pairs[p].batch
        PROVE  orders'[o] \in Entries /\ orders'[o].state = "settling"
    <3>1. orders[o] \in Entries /\ o \in Orders
      BY <1>1, BatchUntold
    <3>2. orders'[o] = [orders[o] EXCEPT !.state = "settling"]
      BY <1>1, <3>1
    <3>3. "settling" \in States
      BY DEF States
    <3> QED
      BY <3>1, <3>2, <3>3, EntryUpdated
  <2>3. \A o \in Orders : orders'[o] \in Entries \cup {Absent}
    BY <2>1, <2>2
  <2>4. orders' = [o \in Orders |-> orders'[o]]
    BY <1>1
  <2> QED
    BY <2>1, <2>2, <2>3, <2>4
<1>7. EntriesStep(p)
  <2>1. pairs[p].batch # {}
    BY <1>1 DEF BatcherInv, PairsKept
  <2>2. \A o \in pairs[p].batch : orders'[o] # Absent /\ orders'[o].state # "filled"
    BY <1>6, AbsentIsNoEntry
  <2>3. pairs'[p].phase # "done" =>
          /\ pairs'[p].batch # {} /\ pairs'[p].batch \subseteq pairs[p].batch
          /\ \A o \in pairs'[p].batch :
                accepted[o] > 1 \/
                orders'[o].state = IF pairs'[p].phase = "receipt" THEN "settling" ELSE "pending"
    BY <1>5, <1>6, <2>1
  <2> QED
    BY <1>1, <1>5, <1>6, <2>2, <2>3 DEF EntriesStep
<1>8. SettlementsStep(p)
  BY <1>1, <1>2, <1>4, <1>5 DEF SettlementsStep, Awaits
<1> QED
  BY <1>1, <1>7, <1>8, PairStepKeeps

\* The send threw: what went out all the same is lost.
LEMMA SendFailsKeeps ==
    ASSUME BatcherInv, NEW p \in Pairs, SendFails(p)
    PROVE  BatcherInv'
<1>1. /\ pairs[p].phase = "send" /\ pairs[p].phase # "done" /\ pairs[p].phase # "receipt"
      /\ UNCHANGED <<outcome, posts, tick, accepted, now>>
      /\ GivesUp(p, pairs[p].batch, 2 * MaxAttempts, Unchanged(pairs[p].batch))
      /\ \/ UNCHANGED txs
         \/ txs' = Append(txs, [orders |-> pairs[p].batch, state |-> "sent", watch |-> "lost"])
  BY DEF SendFails
<1>2. EntriesStep(p) /\ pairs'[p].phase = "done"
  <2>1. 2 * MaxAttempts \in Nat
    BY BatcherConstants
  <2>2. \A o \in pairs[p].batch : Unchanged(pairs[p].batch)[o] = orders[o].state
    BY DEF Unchanged
  <2> QED
    BY <1>1, <2>1, <2>2, GivingUp
<1>3. CASE UNCHANGED txs
  BY <1>1, <1>2, <1>3, SettlementsStand, PairStepKeeps
<1>4. CASE txs' = Append(txs, [orders |-> pairs[p].batch, state |-> "sent", watch |-> "lost"])
  <2> DEFINE t == [orders |-> pairs[p].batch, state |-> "sent", watch |-> "lost"]
  <2>1. t \in Settlements /\ t.state = "sent" /\ t.watch = "lost"
    BY PairTyped DEF Settlements
  <2>2. txs' = Append(txs, t)
    BY <1>4
  <2> HIDE DEF t
  <2>3. /\ txs' \in Seq(Settlements)
        /\ \A i \in DOMAIN txs : i \in DOMAIN txs' /\ txs'[i] = txs[i]
        /\ txs'[Len(txs) + 1] = t
        /\ \A i \in (DOMAIN txs') \ (DOMAIN txs) : i = Len(txs) + 1
    BY <2>1, <2>2, SettlementAdded
  <2>4. SettlementsStep(p)
    BY <1>1, <1>2, <2>1, <2>3 DEF SettlementsStep, Awaits
  <2> QED
    BY <1>1, <1>2, <2>4, PairStepKeeps
<1> QED
  BY <1>1, <1>3, <1>4

\* A settlement that was waited for is so no longer.
LEMMA WatchEnds ==
    ASSUME BatcherInv, NEW p \in Pairs, pairs[p].phase = "receipt",
           NEW w \in {"lost", "answered"},
           txs' = [txs EXCEPT ![pairs[p].tx].watch = w]
    PROVE  /\ txs' \in Seq(Settlements) /\ DOMAIN txs' = DOMAIN txs
           /\ pairs[p].tx \in DOMAIN txs /\ txs[pairs[p].tx].orders = pairs[p].batch
           /\ \A i \in DOMAIN txs :
                 /\ txs'[i].orders = txs[i].orders /\ txs'[i].state = txs[i].state
                 /\ txs'[i].watch = IF i = pairs[p].tx THEN w ELSE txs[i].watch
<1>1. /\ txs \in Seq(Settlements)
      /\ pairs[p].tx \in DOMAIN txs /\ txs[pairs[p].tx].orders = pairs[p].batch
  BY DEF BatcherInv, BatcherTypes, ReceiptsAwaited
<1>2. PICK i : i = pairs[p].tx
  OBVIOUS
<1>3. i \in 1..Len(txs) /\ txs[i] \in Settlements
  BY <1>1, <1>2
<1>4. PICK t : t = [txs[i] EXCEPT !.watch = w]
  OBVIOUS
<1>5. t \in Settlements /\ t.orders = txs[i].orders /\ t.state = txs[i].state /\ t.watch = w
  BY <1>3, <1>4 DEF Settlements
<1>6. txs' = [txs EXCEPT ![i] = t]
  BY <1>2, <1>4
<1>7. txs' \in Seq(Settlements) /\ DOMAIN txs' = DOMAIN txs /\ \A j \in DOMAIN txs : txs'[j] = IF j = i THEN t ELSE txs[j]
  BY <1>1, <1>3, <1>5, <1>6
<1> QED
  BY <1>1, <1>2, <1>5, <1>7

\* The receipt tells the orders filled, which they are, or sends them back.
LEMMA ReceiptReadKeeps ==
    ASSUME BatcherInv, NEW p \in Pairs, ReceiptRead(p)
    PROVE  BatcherInv'
<1>1. /\ pairs[p].phase = "receipt" /\ pairs[p].phase # "done"
      /\ txs[pairs[p].tx].state # "sent"
      /\ txs' = [txs EXCEPT ![pairs[p].tx].watch = "answered"]
      /\ UNCHANGED <<outcome, posts, tick, accepted, now>>
  BY DEF ReceiptRead, PairOnly
<1>2. /\ txs' \in Seq(Settlements) /\ DOMAIN txs' = DOMAIN txs
      /\ pairs[p].tx \in DOMAIN txs /\ txs[pairs[p].tx].orders = pairs[p].batch
      /\ \A i \in DOMAIN txs :
            /\ txs'[i].orders = txs[i].orders /\ txs'[i].state = txs[i].state
            /\ txs'[i].watch = IF i = pairs[p].tx THEN "answered" ELSE txs[i].watch
  BY <1>1, WatchEnds
<1>3. \A o \in pairs[p].batch : o \in Orders /\ orders[o] \in Entries
  BY <1>1, BatchUntold
<1>4. ASSUME txs[pairs[p].tx].state = "ok"
      PROVE  /\ EntriesStep(p) /\ pairs'[p].phase = "done"
             /\ \A o \in pairs[p].batch : InState(o, {"filled"})'
  <2>1. /\ orders' = [o \in Orders |->
                        IF o \in pairs[p].batch THEN [orders[o] EXCEPT !.state = "filled"] ELSE orders[o]]
        /\ pairs' = [pairs EXCEPT ![p] = NoPair]
    BY <1>4 DEF ReceiptRead, Succeeded
  <2>2. ASSUME NEW o \in pairs[p].batch
        PROVE  orders'[o] \in Entries /\ orders'[o] # Absent /\ orders'[o].state = "filled"
    <3>1. orders'[o] = [orders[o] EXCEPT !.state = "filled"]
      BY <1>3, <2>1
    <3>2. "filled" \in States
      BY DEF States, Terminal
    <3> QED
      BY <1>3, <3>1, <3>2, EntryUpdated
  <2>3. \A o \in Orders \ pairs[p].batch : orders'[o] = orders[o] /\ orders[o] \in Entries \cup {Absent}
    BY <2>1, PairTyped
  <2>4. orders' \in [Orders -> Entries \cup {Absent}]
    <3>1. \A o \in Orders : orders'[o] \in Entries \cup {Absent}
      BY <2>2, <2>3
    <3>2. orders' = [o \in Orders |-> orders'[o]]
      BY <2>1
    <3> QED
      BY <3>1, <3>2
  <2>5. \A o \in pairs[p].batch : outcome[o] = "filled"
    BY <1>2, <1>4 DEF BatcherInv, FillsTold
  <2>6. /\ pairs' \in [Pairs -> [phase: Phases, batch: SUBSET Orders, tx: Nat, since: Nat]]
        /\ \A q \in Pairs \ {p} : pairs'[q] = pairs[q]
        /\ pairs'[p].phase = "done"
    BY <2>1, PairTyped
  <2>7. EntriesStep(p)
    BY <1>1, <2>2, <2>3, <2>4, <2>5, <2>6 DEF EntriesStep
  <2> QED
    BY <2>2, <2>6, <2>7 DEF InState
<1>5. ASSUME txs[pairs[p].tx].state # "ok"
      PROVE  EntriesStep(p) /\ pairs'[p].phase = "done"
  <2>1. GivesUp(p, pairs[p].batch, MaxAttempts, Pending(pairs[p].batch)) /\ MaxAttempts \in Nat
    BY <1>5, BatcherConstants DEF ReceiptRead, Succeeded
  <2>2. \A o \in pairs[p].batch : Pending(pairs[p].batch)[o] = "pending"
    BY DEF Pending
  <2> QED
    BY <1>1, <2>1, <2>2, GivingUp
<1>6. SettlementsStep(p)
  BY <1>1, <1>2, <1>4, <1>5 DEF SettlementsStep, Awaits
<1> QED
  BY <1>1, <1>4, <1>5, <1>6, PairStepKeeps

\* No receipt in time: the settlement is lost.
LEMMA ReceiptMissingKeeps ==
    ASSUME BatcherInv, NEW p \in Pairs, ReceiptMissing(p)
    PROVE  BatcherInv'
<1>1. /\ pairs[p].phase = "receipt" /\ pairs[p].phase # "done"
      /\ txs' = [txs EXCEPT ![pairs[p].tx].watch = "lost"]
      /\ UNCHANGED <<outcome, posts, tick, accepted, now>>
      /\ GivesUp(p, pairs[p].batch, MaxAttempts, Pending(pairs[p].batch))
  BY DEF ReceiptMissing, PairOnly
<1>2. /\ txs' \in Seq(Settlements) /\ DOMAIN txs' = DOMAIN txs
      /\ \A i \in DOMAIN txs :
            /\ txs'[i].orders = txs[i].orders /\ txs'[i].state = txs[i].state
            /\ txs'[i].watch = IF i = pairs[p].tx THEN "lost" ELSE txs[i].watch
  BY <1>1, WatchEnds
<1>3. EntriesStep(p) /\ pairs'[p].phase = "done"
  <2>1. \A o \in pairs[p].batch : Pending(pairs[p].batch)[o] = "pending"
    BY DEF Pending
  <2>2. MaxAttempts \in Nat
    BY BatcherConstants
  <2> QED
    BY <1>1, <2>1, <2>2, GivingUp
<1>4. SettlementsStep(p)
  BY <1>1, <1>2, <1>3 DEF SettlementsStep, Awaits
<1> QED
  BY <1>1, <1>3, <1>4, PairStepKeeps

-----------------------------------------------------------------------------
(* The chain, the owners and the process *)

\* What a settlement that is not learnt of yet says about its orders.
LEMMA SentIsKnown ==
    ASSUME BatcherInv, NEW i \in DOMAIN txs, txs[i].state = "sent", NEW o \in txs[i].orders
    PROVE  /\ o \in Orders
           /\ accepted[o] > 0 \/ Lost(o)
           /\ txs[i].watch # "answered"
<1>1. txs[i] \in Settlements
  BY SettlementTyped DEF BatcherInv
<1>2. txs[i].watch # "answered"
  BY DEF BatcherInv, FillsTold
<1>3. CASE txs[i].watch = "waiting"
  <2>1. PICK p \in Pairs : pairs[p].phase = "receipt" /\ pairs[p].tx = i
    BY <1>3 DEF BatcherInv, ReceiptsAwaited
  <2>2. pairs[p].batch = txs[i].orders
    BY <2>1 DEF BatcherInv, ReceiptsAwaited
  <2>3. orders[o] # Absent
    BY <2>1, <2>2 DEF BatcherInv, PairsKept
  <2> QED
    BY <1>1, <1>2, <2>3 DEF BatcherInv, EntriesAccepted, Settlements
<1>4. CASE txs[i].watch = "lost"
  BY <1>1, <1>2, <1>4 DEF Lost, Settlements
<1> QED
  BY <1>1, <1>2, <1>3, <1>4 DEF Settlements

\* A settlement executes or reverts: nobody has been told of it yet, and a request that is
\* being checked for one of its orders is a second one.
LEMMA ExecutionKeeps ==
    ASSUME BatcherInv, TxExecutes
    PROVE  BatcherInv'
<1>1. PICK i \in DOMAIN txs :
        /\ txs[i].state = "sent"
        /\ UNCHANGED <<funded, serviceVars, now, failed>>
        /\ \/ Chain!Fill(txs[i].orders) /\ txs' = [txs EXCEPT ![i].state = "ok"]
           \/ UNCHANGED <<outcome, escrow>> /\ txs' = [txs EXCEPT ![i].state = "reverted"]
  BY DEF TxExecutes
<1>2. UNCHANGED <<posts, orders, tick, pairs, accepted, now>>
  BY <1>1 DEF serviceVars
<1>3. PICK s \in {"ok", "reverted"} :
        /\ txs' = [txs EXCEPT ![i].state = s]
        /\ s = "ok" =>
              outcome' = [o \in Orders |->
                IF o \in txs[i].orders THEN "filled"
                ELSE IF outcome[o] = "open" /\ Key[o] \in {Key[x] : x \in txs[i].orders} THEN "void"
                ELSE outcome[o]]
        /\ s = "reverted" => outcome' = outcome
  BY <1>1 DEF Chain!Fill, Chain!Closed
<1>4. /\ txs \in Seq(Settlements) /\ outcome \in [Orders -> {"open", "filled", "void"}]
      /\ txs[i] \in Settlements
  BY SettlementTyped DEF BatcherInv, BatcherTypes
<1>5. /\ txs' \in Seq(Settlements) /\ DOMAIN txs' = DOMAIN txs
      /\ \A j \in DOMAIN txs :
            /\ txs'[j].orders = txs[j].orders /\ txs'[j].watch = txs[j].watch
            /\ txs'[j].state = IF j = i THEN s ELSE txs[j].state
  <2>1. PICK t : t = [txs[i] EXCEPT !.state = s]
    OBVIOUS
  <2>2. t \in Settlements /\ t.orders = txs[i].orders /\ t.watch = txs[i].watch /\ t.state = s
    BY <1>4, <2>1 DEF Settlements
  <2>3. txs' = [txs EXCEPT ![i] = t]
    BY <1>3, <2>1
  <2> QED
    BY <1>4, <2>2, <2>3
<1>6. /\ outcome' \in [Orders -> {"open", "filled", "void"}]
      /\ \A o \in Orders : outcome[o] = "filled" => outcome'[o] = "filled"
      /\ \A o \in Orders : outcome'[o] = "filled" =>
            outcome[o] = "filled" \/ (s = "ok" /\ o \in txs[i].orders)
      /\ s = "ok" => \A o \in Orders : o \in txs[i].orders => outcome'[o] = "filled"
  <2>1. CASE s = "reverted"
    BY <1>3, <1>4, <2>1
  <2>2. CASE s = "ok"
    <3>1. ASSUME NEW o \in Orders
          PROVE  outcome'[o] = IF o \in txs[i].orders THEN "filled"
                               ELSE IF outcome[o] = "open" /\ Key[o] \in {Key[x] : x \in txs[i].orders} THEN "void"
                               ELSE outcome[o]
      BY <1>3, <2>2
    <3>2. \A o \in Orders : outcome'[o] \in {"open", "filled", "void"}
      BY <1>4, <3>1
    <3>3. outcome' = [o \in Orders |-> outcome'[o]]
      BY <1>3, <2>2
    <3>4. outcome' \in [Orders -> {"open", "filled", "void"}]
      BY ONLY <3>2, <3>3
    <3>5. /\ \A o \in Orders : outcome[o] = "filled" => outcome'[o] = "filled"
          /\ \A o \in Orders : outcome'[o] = "filled" => outcome[o] = "filled" \/ o \in txs[i].orders
          /\ \A o \in Orders : o \in txs[i].orders => outcome'[o] = "filled"
      BY <3>1
    <3> QED
      BY ONLY <2>2, <3>4, <3>5
  <2> QED
    BY <2>1, <2>2
<1>7. \A o : Lost(o)' <=> Lost(o)
  BY <1>5 DEF Lost
<1>8. txs[i].watch # "answered"
  BY <1>1 DEF BatcherInv, FillsTold
<1>9. BatcherTypes'
  BY <1>2, <1>5, <1>6 DEF BatcherInv, BatcherTypes
<1>10. (EntriesAccepted /\ TickKept /\ PairsKept)'
  BY <1>2 DEF BatcherInv, EntriesAccepted, TickKept, PairsKept, InState
<1>11. ReceiptsAwaited'
  BY <1>2, <1>5 DEF BatcherInv, ReceiptsAwaited
<1>12. FillsTold'
  <2>1. ASSUME NEW o \in Orders, outcome'[o] = "filled"
        PROVE  \E j \in DOMAIN txs' : o \in txs'[j].orders /\ txs'[j].state = "ok"
    <3>1. CASE outcome[o] = "filled"
      <4>1. PICK j \in DOMAIN txs : o \in txs[j].orders /\ txs[j].state = "ok"
        BY <3>1 DEF BatcherInv, FillsTold
      <4>2. j # i
        BY <1>1, <4>1
      <4> QED
        BY <1>5, <4>1, <4>2
    <3>2. CASE s = "ok" /\ o \in txs[i].orders
      BY <1>5, <3>2
    <3> QED
      BY <1>6, <2>1, <3>1, <3>2
  <2>2. ASSUME NEW j \in DOMAIN txs, txs'[j].state = "ok", NEW o \in txs[j].orders
        PROVE  outcome'[o] = "filled"
    <3>1. o \in Orders
      BY <1>4, SettlementTyped DEF BatcherInv, Settlements
    <3>2. CASE j = i
      BY <1>5, <1>6, <2>2, <3>1, <3>2
    <3>3. CASE j # i
      <4>1. txs[j].state = "ok"
        BY <1>5, <2>2, <3>3
      <4> QED
        BY <1>6, <3>1, <4>1 DEF BatcherInv, FillsTold
    <3> QED
      BY <3>2, <3>3
  <2>3. ASSUME NEW j \in DOMAIN txs, txs'[j].watch = "answered"
        PROVE  /\ txs'[j].state # "sent"
               /\ txs'[j].state = "ok" => \A o \in txs[j].orders :
                     (orders[o] = Absent \/ InState(o, {"filled"}) \/ Excused(o))'
    <3>1. txs[j].watch = "answered" /\ j # i
      BY <1>5, <1>8, <2>3
    <3>2. txs'[j].state = txs[j].state
      BY <1>5, <3>1
    <3>3. txs[j].state # "sent" /\
          (txs[j].state = "ok" => \A o \in txs[j].orders : orders[o] = Absent \/ InState(o, {"filled"}) \/ Excused(o))
      BY <3>1 DEF BatcherInv, FillsTold
    <3> QED
      BY <1>2, <1>7, <3>2, <3>3 DEF InState, Excused
  <2>4. \A o \in Orders : InState(o, {"filled"})' => outcome'[o] = "filled"
    BY <1>2, <1>6 DEF BatcherInv, FillsTold, InState
  <2> QED
    BY <1>5, <2>1, <2>2, <2>3, <2>4 DEF FillsTold
<1>13. PostsLate'
  <2>1. ASSUME NEW r \in Requests, posts[r].step = "funds", NEW o, o = posts[r].order,
               outcome'[o] = "filled"
        PROVE  accepted[o] > 0 \/ Lost(o)
    <3>1. o \in Orders
      <4>1. posts[r] \in PostStates
        BY DEF BatcherInv, BatcherTypes
      <4> QED
        BY <2>1, <4>1 DEF PostStates, Unused, Done
    <3>2. CASE outcome[o] = "filled"
      BY <2>1, <3>2 DEF BatcherInv, PostsLate
    <3>3. CASE o \in txs[i].orders
      BY <1>1, <3>3, SentIsKnown
    <3> QED
      BY <1>6, <2>1, <3>1, <3>2, <3>3
  <2> QED
    BY <1>2, <1>7, <2>1 DEF PostsLate
<1> QED
  BY <1>9, <1>10, <1>11, <1>12, <1>13 DEF BatcherInv

\* An owner who deposits, takes back or cancels fills nothing.
LEMMA OwnersKeep ==
    ASSUME BatcherInv, OwnersAct
    PROVE  BatcherInv'
<1>1. UNCHANGED <<txs, posts, orders, tick, pairs, accepted, now>>
  BY DEF OwnersAct, serviceVars
<1>2. /\ outcome' \in [Orders -> {"open", "filled", "void"}]
      /\ \A o \in Orders : outcome'[o] = "filled" <=> outcome[o] = "filled"
  <2>1. outcome \in [Orders -> {"open", "filled", "void"}]
    BY DEF BatcherInv, BatcherTypes
  <2>2. CASE UNCHANGED outcome
    BY <2>1, <2>2
  <2>3. ASSUME NEW o \in Orders, Chain!Cancel(Key[o])
        PROVE  /\ outcome' \in [Orders -> {"open", "filled", "void"}]
               /\ \A x \in Orders : outcome'[x] = "filled" <=> outcome[x] = "filled"
    <3>1. outcome' = [x \in Orders |-> IF outcome[x] = "open" /\ Key[x] \in {Key[o]} THEN "void"
                                       ELSE outcome[x]]
      BY <2>3 DEF Chain!Cancel, Chain!Closed
    <3> QED
      BY <2>1, <3>1
  <2> QED
    BY <2>2, <2>3 DEF OwnersAct, Chain!Deposit, Chain!Refund
<1>3. \A o : Lost(o)' <=> Lost(o)
  BY <1>1 DEF Lost
<1>4. BatcherTypes'
  BY <1>1, <1>2 DEF BatcherInv, BatcherTypes
<1>5. (EntriesAccepted /\ TickKept /\ PairsKept /\ ReceiptsAwaited)'
  BY <1>1 DEF BatcherInv, EntriesAccepted, TickKept, PairsKept, ReceiptsAwaited, InState
<1>6. FillsTold'
  <2>1. \A i \in DOMAIN txs : txs[i].orders \subseteq Orders
    BY SettlementTyped DEF BatcherInv, Settlements
  <2> QED
    BY <1>1, <1>2, <1>3, <2>1 DEF BatcherInv, FillsTold, InState, Excused
<1>7. PostsLate'
  <2>1. ASSUME NEW r \in Requests, posts[r].step = "funds"
        PROVE  posts[r].order \in Orders
    <3>1. posts[r] \in PostStates
      BY DEF BatcherInv, BatcherTypes
    <3> QED
      BY <2>1, <3>1 DEF PostStates, Unused, Done
  <2> QED
    BY <1>1, <1>2, <1>3, <2>1 DEF BatcherInv, PostsLate
<1> QED
  BY <1>4, <1>5, <1>6, <1>7 DEF BatcherInv

\* A restart forgets the map, and with it what was waited for.
LEMMA RestartKeeps ==
    ASSUME BatcherInv, Restart
    PROVE  BatcherInv'
<1>1. /\ posts' = [r \in Requests |-> IF posts[r] = Unused THEN Unused ELSE Done]
      /\ orders' = [o \in Orders |-> Absent]
      /\ tick' = NoTick
      /\ pairs' = [p \in Pairs |-> NoPair]
      /\ txs' = [i \in DOMAIN txs |->
                   IF txs[i].watch = "waiting" THEN [txs[i] EXCEPT !.watch = "lost"] ELSE txs[i]]
      /\ accepted' = [o \in Orders |-> 0]
      /\ UNCHANGED <<outcome, now>>
  BY DEF Restart
<1>2. /\ txs' \in Seq(Settlements) /\ DOMAIN txs' = DOMAIN txs
      /\ \A i \in DOMAIN txs :
            /\ txs'[i].orders = txs[i].orders /\ txs'[i].state = txs[i].state
            /\ txs'[i].watch # "waiting"
            /\ txs'[i].watch = "answered" => txs[i].watch = "answered"
  <2>1. txs \in Seq(Settlements)
    BY DEF BatcherInv, BatcherTypes
  <2>2. ASSUME NEW i \in DOMAIN txs
        PROVE  /\ txs'[i] \in Settlements
               /\ txs'[i].orders = txs[i].orders /\ txs'[i].state = txs[i].state
               /\ txs'[i].watch # "waiting"
               /\ txs'[i].watch = "answered" => txs[i].watch = "answered"
    <3>1. txs[i] \in Settlements
      BY SettlementTyped DEF BatcherInv
    <3>2. CASE txs[i].watch = "waiting"
      <4>1. PICK t : t = [txs[i] EXCEPT !.watch = "lost"]
        OBVIOUS
      <4>2. t \in Settlements /\ t.orders = txs[i].orders /\ t.state = txs[i].state /\ t.watch = "lost"
        BY <3>1, <4>1 DEF Settlements
      <4>3. txs'[i] = t
        BY <1>1, <3>2, <4>1
      <4> QED
        BY <4>2, <4>3
    <3>3. CASE txs[i].watch # "waiting"
      <4>1. txs'[i] = txs[i]
        BY <1>1, <3>3
      <4> QED
        BY <3>1, <3>3, <4>1
    <3> QED
      BY <3>2, <3>3
  <2>3. Len(txs) \in Nat /\ DOMAIN txs = 1..Len(txs)
    BY <2>1
  <2>4. txs' = [i \in 1..Len(txs) |-> txs'[i]]
    BY <1>1, <2>3
  <2>5. txs' \in Seq(Settlements)
    BY <2>2, <2>3, <2>4
  <2>6. DOMAIN txs' = DOMAIN txs
    BY <1>1
  <2> QED
    BY <2>2, <2>5, <2>6
<1>3. BatcherTypes'
  <2>1. posts' \in [Requests -> PostStates]
    BY <1>1 DEF PostStates
  <2>2. pairs' \in [Pairs -> [phase: Phases, batch: SUBSET Orders, tx: Nat, since: Nat]]
    BY <1>1 DEF NoPair, Phases
  <2> QED
    BY <1>1, <1>2, <2>1, <2>2 DEF BatcherInv, BatcherTypes, NoTick
<1>4. (EntriesAccepted /\ TickKept /\ PairsKept)'
  BY <1>1 DEF EntriesAccepted, TickKept, PairsKept, NoTick, NoPair
<1>5. ReceiptsAwaited'
  BY <1>1, <1>2 DEF ReceiptsAwaited, NoPair
<1>6. FillsTold'
  <2>1. \A i \in DOMAIN txs : txs[i].orders \subseteq Orders
    BY SettlementTyped DEF BatcherInv, Settlements
  <2>2. \A i \in DOMAIN txs : \A o \in txs[i].orders : orders'[o] = Absent
    BY <1>1, <2>1
  <2>3. \A o \in Orders : ~InState(o, {"filled"})'
    BY <1>1 DEF InState
  <2> QED
    BY <1>1, <1>2, <2>2, <2>3 DEF BatcherInv, FillsTold
<1>7. PostsLate'
  BY <1>1 DEF PostsLate, Unused, Done
<1> QED
  BY <1>3, <1>4, <1>5, <1>6, <1>7 DEF BatcherInv

\* Time alone tells nothing.
LEMMA TimeKeeps ==
    ASSUME BatcherInv, TimePasses
    PROVE  BatcherInv'
<1>1. UNCHANGED <<outcome, txs, posts, orders, tick, pairs, accepted>> /\ now < MaxTime /\ now' = now + 1
  BY DEF TimePasses, chainVars, serviceVars
<1>2. now' \in 0..MaxTime
  BY <1>1, BatcherConstants DEF BatcherInv, BatcherTypes
<1>3. BatcherTypes'
  BY <1>1, <1>2 DEF BatcherInv, BatcherTypes
<1>4. (EntriesAccepted /\ TickKept /\ PairsKept /\ ReceiptsAwaited)'
  BY <1>1 DEF BatcherInv, EntriesAccepted, TickKept, PairsKept, ReceiptsAwaited, InState
<1>5. (FillsTold /\ PostsLate)'
  BY <1>1 DEF BatcherInv, FillsTold, PostsLate, InState, Excused, Lost
<1> QED
  BY <1>3, <1>4, <1>5 DEF BatcherInv

\* Every step of the batcher, of the chain and of the owners keeps the invariant.
LEMMA BatcherKeeps == BatcherInv /\ [BatcherNext]_batcherVars => BatcherInv'
<1> SUFFICES ASSUME BatcherInv, [BatcherNext]_batcherVars
             PROVE  BatcherInv'
  OBVIOUS
<1>1. CASE Intake
  BY <1>1, CheckingKeeps, WritingKeeps DEF Intake
<1>2. CASE Ticking
  BY <1>2, TickStartsKeeps, DepositKeeps, LaunchKeeps, TickEndsKeeps DEF Ticking
<1>3. ASSUME NEW p \in Pairs, PairSteps(p)
      PROVE  BatcherInv'
  BY <1>3, SolvingKeeps, DryRunKeeps, SentKeeps, SendFailsKeeps, ReceiptReadKeeps, ReceiptMissingKeeps
     DEF PairSteps
<1>4. CASE TxExecutes \/ OwnersAct \/ Restart \/ TimePasses
  BY <1>4, ExecutionKeeps, OwnersKeep, RestartKeeps, TimeKeeps
<1>5. CASE UNCHANGED batcherVars
  <2>1. UNCHANGED <<outcome, txs, posts, orders, tick, pairs, accepted, now>>
    BY <1>5 DEF batcherVars, chainVars, serviceVars
  <2>2. BatcherTypes'
    BY <2>1 DEF BatcherInv, BatcherTypes
  <2>3. (EntriesAccepted /\ TickKept /\ PairsKept /\ ReceiptsAwaited)'
    BY <2>1 DEF BatcherInv, EntriesAccepted, TickKept, PairsKept, ReceiptsAwaited, InState
  <2>4. (FillsTold /\ PostsLate)'
    BY <2>1 DEF BatcherInv, FillsTold, PostsLate, InState, Excused, Lost
  <2> QED
    BY <2>2, <2>3, <2>4 DEF BatcherInv
<1> QED
  BY <1>1, <1>2, <1>3, <1>4, <1>5 DEF BatcherNext

\* A fill that was not told is not known to the batcher, or was written over.
LEMMA FillsExcused == BatcherInv => ToldAsItIs
<1> SUFFICES ASSUME BatcherInv, NEW o \in Orders
             PROVE  /\ InState(o, {"filled"}) => outcome[o] = "filled"
                    /\ InState(o, {"rejected", "expired"}) /\ outcome[o] = "filled" => Excused(o)
  BY DEF ToldAsItIs, Excused, Lost
<1>1. InState(o, {"filled"}) => outcome[o] = "filled"
  BY DEF BatcherInv, FillsTold
<1>2. ASSUME InState(o, {"rejected", "expired"}), outcome[o] = "filled"
      PROVE  Excused(o)
  <2>1. PICK i \in DOMAIN txs : o \in txs[i].orders /\ txs[i].state = "ok"
    BY <1>2 DEF BatcherInv, FillsTold
  <2>2. txs[i] \in Settlements
    BY SettlementTyped DEF BatcherInv
  <2>3. CASE txs[i].watch = "lost"
    BY <2>1, <2>3 DEF Excused, Lost
  <2>4. CASE txs[i].watch = "answered"
    BY <1>2, <2>1, <2>4 DEF BatcherInv, FillsTold, InState
  <2>5. CASE txs[i].watch = "waiting"
    <3>1. PICK p \in Pairs : pairs[p].phase = "receipt" /\ pairs[p].tx = i
      BY <2>5 DEF BatcherInv, ReceiptsAwaited
    <3>2. o \in pairs[p].batch
      BY <2>1, <3>1 DEF BatcherInv, ReceiptsAwaited
    <3> QED
      BY <1>2, <3>1, <3>2 DEF BatcherInv, PairsKept, InState, Excused
  <2> QED
    BY <2>2, <2>3, <2>4, <2>5 DEF Settlements
<1> QED
  BY <1>1, <1>2

\* The map, the settlements and the ticks are what the code takes them to be, after any
\* requests, sends, receipts, failures and restarts (main.ts's maps and settlePair).
THEOREM BatcherInvariant == BatcherSpec => []BatcherInv
<1>1. BatcherInit => BatcherInv
  BY BatcherInitially
<1>2. BatcherInv /\ [BatcherNext]_batcherVars => BatcherInv'
  BY BatcherKeeps
<1> QED
  BY <1>1, <1>2, PTL DEF BatcherSpec

\* An order that settlePair told was filled was filled on the chain; one told rejected or
\* expired was not, unless the batcher never learnt the fate of a settlement of it, or a
\* second POST /order wrote over what it knew.
THEOREM FillsAreTold == BatcherSpec => []ToldAsItIs
<1>1. BatcherInv => ToldAsItIs
  BY FillsExcused
<1> QED
  BY BatcherInvariant, <1>1, PTL
=============================================================================
