------------------------------ MODULE ReadPath ------------------------------
(***************************************************************************)
(* How the gateway answers reads of the chain's head, apps/gateway/src:    *)
(* main.ts (answer, upstream, fetchUpstream) over fastpath.ts.             *)
(*                                                                         *)
(* A request is answered from the cache if it can be.  Otherwise it takes  *)
(* one of its address's slots, waiting for one if it must, and calls       *)
(* upstream; requests that ask the same share the call, and a slow call is *)
(* hedged to a second upstream.  An action is the code between two awaits. *)
(*                                                                         *)
(* A block is the unit of time and the head at instant t is block t, so    *)
(* the age of an answer is the distance of its block from now.  One        *)
(* address and one cache key are modelled: the head's.                     *)
(***************************************************************************)
EXTENDS Integers, Sequences, FiniteSets, SequencesExt

CONSTANTS
    Requests,         \* bound: requests of one anonymous address
    Slots,            \* CONFIG.anonMaxInflight
    MaxWait,          \* InflightCap.maxWaitMs
    Ttl,              \* BLOCK_MS
    HedgeAfter,       \* CONFIG.hedgeAfterMs
    Timeout,          \* how long an upstream call may take before it is aborted
    Lag,              \* how many blocks an upstream may be behind
    None,             \* no cache entry, no load
    MaxTime           \* bound: last instant

ASSUME ReadConstants ==
    /\ {Slots, Ttl, Timeout} \subseteq Nat \ {0}
    /\ {MaxWait, HedgeAfter, Lag, MaxTime} \subseteq Nat

VARIABLES
    now,
    requests,         \* [Requests -> [step, ...]]
    count,            \* InflightCap.counts of the address
    waiters,          \* InflightCap.waiters of the address, the longest waiting first
    cached,           \* MicroCache's entry: [head, until, by] or None
    load              \* the call in flight: [primary, hedge, since] or None

readVars == <<requests, count, waiters, cached, load>>

Unused == [step |-> "unused"]
Refused == [step |-> "refused"]
Granted == [step |-> "granted"]
Failed(step) == [step |-> step, ok |-> FALSE]
Answer(step, head, by) == [step |-> step, ok |-> TRUE, age |-> now - head, by |-> by]

In(step) == {r \in Requests : requests[r].step = step}
Holders == In("granted") \cup In("joined") \cup In("leaving")
Ended == In("refused") \cup In("done")

-----------------------------------------------------------------------------
(* A definition named ..._Bug is a mistake that the next one could contain. *)

Fresh_Bug == cached # None
Fresh == cached # None /\ cached.until > now

Entry(head, by) == [head |-> head, until |-> now + Ttl, by |-> by]

\* The blocks an upstream may take for the head in a call made at instant since.
Heads(since) == {h \in 1..now : h + Lag >= since}

\* The request arrives: the cache, or a slot, or the line for one.
Ask(r) ==
    /\ requests[r] = Unused
    /\ \/ /\ Fresh
          /\ requests' = [requests EXCEPT ![r] = Answer("done", cached.head, cached.by)]
          /\ UNCHANGED <<count, waiters>>
       \/ /\ ~Fresh /\ count < Slots
          /\ requests' = [requests EXCEPT ![r] = Granted]
          /\ count' = count + 1
          /\ UNCHANGED waiters
       \/ /\ ~Fresh /\ count >= Slots
          /\ requests' = [requests EXCEPT ![r] = [step |-> "waiting", since |-> now]]
          /\ waiters' = Append(waiters, r)
          /\ UNCHANGED count
    /\ UNCHANGED <<cached, load, now>>

Without(r) == RemoveAt(waiters, CHOOSE i \in DOMAIN waiters : waiters[i] = r)

\* The wait ends without a slot.
GiveUp(r) ==
    /\ requests[r].step = "waiting"
    /\ now >= requests[r].since + MaxWait \/ now = MaxTime
    /\ requests' = [requests EXCEPT ![r] = Refused]
    /\ waiters' = Without(r)
    /\ UNCHANGED <<count, cached, load, now>>

\* With a slot: the cache again, the call in flight, or a new call.
Proceed(r) ==
    /\ requests[r] = Granted
    /\ requests' = [requests EXCEPT ![r] =
                      IF Fresh THEN Answer("leaving", cached.head, cached.by) ELSE [step |-> "joined"]]
    /\ load' = IF Fresh \/ load # None THEN load
               ELSE [primary |-> "out", hedge |-> "armed", since |-> now]
    /\ UNCHANGED <<count, waiters, cached, now>>

\* Everyone who joined the call gets what it settled with.
Settles(result) ==
    /\ load' = None
    /\ requests' = [r \in Requests |-> IF r \in In("joined") THEN result ELSE requests[r]]
    /\ UNCHANGED <<count, waiters, now>>

\* The timer fires before the primary settled; the budget may withhold the hedge.
HedgeFires ==
    /\ load # None
    /\ load.primary = "out" /\ load.hedge = "armed"
    /\ now >= load.since + HedgeAfter
    /\ \E hedge \in {"out", "withheld"} : load' = [load EXCEPT !.hedge = hedge]
    /\ UNCHANGED <<requests, count, waiters, cached, now>>

UpstreamAnswers ==
    /\ load # None
    /\ "out" \in {load.primary, load.hedge}
    /\ \E head \in Heads(load.since) :
          /\ cached' = Entry(head, "load")
          /\ Settles(Answer("leaving", head, "load"))

\* Without a hedge on its way the primary's failure is the answer.
PrimaryDecides == load.hedge # "out"

PrimaryFails ==
    /\ load # None
    /\ load.primary = "out"
    /\ UNCHANGED cached
    /\ IF PrimaryDecides
       THEN Settles(Failed("leaving"))
       ELSE /\ load' = [load EXCEPT !.primary = "failed"]
            /\ UNCHANGED <<requests, count, waiters, now>>

HedgeDecides_Bug == FALSE
HedgeDecides == load.primary = "failed"

HedgeFails ==
    /\ load # None
    /\ load.hedge = "out"
    /\ UNCHANGED cached
    /\ IF HedgeDecides
       THEN Settles(Failed("leaving"))
       ELSE /\ load' = [load EXCEPT !.hedge = "failed"]
            /\ UNCHANGED <<requests, count, waiters, now>>

CountAfter_Bug(next) == count - 1
CountAfter(next) == IF next = {} THEN count - 1 ELSE count

\* The slot goes to the one who waited longest, or becomes free.
Leave(r) ==
    LET next == IF waiters = <<>> THEN {} ELSE {Head(waiters)}
    IN  /\ requests[r].step = "leaving"
        /\ requests' = [q \in Requests |->
                          IF q = r THEN [requests[r] EXCEPT !.step = "done"]
                          ELSE IF q \in next THEN Granted ELSE requests[q]]
        /\ waiters' = IF next = {} THEN waiters ELSE Tail(waiters)
        /\ count' = CountAfter(next)
        /\ UNCHANGED <<cached, load, now>>

\* Calls are aborted when they take too long.
ReadsInTime == load # None => now < load.since + Timeout

\* The requests of coming are going to come.
ReadInit(coming) ==
    /\ now = 1
    /\ requests = [r \in Requests |-> IF r \in coming THEN Unused ELSE Refused]
    /\ count = 0
    /\ waiters = <<>>
    /\ cached = None
    /\ load = None

Calling == HedgeFires \/ UpstreamAnswers \/ PrimaryFails \/ HedgeFails

ReadNext == (\E r \in Requests : Ask(r) \/ GiveUp(r) \/ Proceed(r) \/ Leave(r)) \/ Calling

-----------------------------------------------------------------------------
(* Properties *)

\* A slot that is handed over, timed out on or given back is neither lost nor doubled
\* (fastpath.ts:192-194), and nobody waits while one is free.
SlotsKept ==
    /\ count = Cardinality(Holders)
    /\ count <= Slots
    /\ waiters # <<>> => count = Slots

\* "The answer is kept for as long as it can be exact" (main.ts:209-211): what a call
\* answered is served until a Ttl after, also to those that joined late.
AnswersFresh ==
    \A r \in Requests :
        requests[r].step \in {"leaving", "done"} /\ requests[r].ok /\ requests[r].by = "load" =>
            requests[r].age <= Lag + Timeout + Ttl - 1

\* "Beyond the cap its requests queue behind its own for up to two seconds, then are
\* refused" (main.ts:827-828): in the end no request is left waiting or unanswered.
EveryRequestEnds == <>[](\A r \in Requests : requests[r] = Unused \/ r \in Ended)
=============================================================================
