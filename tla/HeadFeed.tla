------------------------------ MODULE HeadFeed ------------------------------
(***************************************************************************)
(* The gateway's subscriptions, apps/gateway/src: subscribe.ts (Hub and    *)
(* HeadWatcher) and ws.ts, beside the reads of ReadPath whose cache the    *)
(* watcher fills (main.ts:894-918).                                        *)
(*                                                                         *)
(* One poller serves every subscriber and runs while there is one.  A tick *)
(* reads the head and the blocks it stepped over, announces them in order, *)
(* and asks for their logs, which are delivered later in the same order.   *)
(* An action is the code between two awaits; sockets come and go between.  *)
(***************************************************************************)
EXTENDS ReadPath

CONSTANTS
    Sockets,
    MaxCatchUp,       \* CONFIG.headMaxCatchUp
    Workloads         \* bound: [requests, joins], who comes: requests and subscriptions

ASSUME FeedConstants ==
    /\ MaxCatchUp \in Nat \ {0}
    /\ Workloads \subseteq [requests: SUBSET Requests, joins: Nat]

VARIABLES
    subs,             \* [Sockets -> "newHeads", "logs" or "none"], the hub
    joins,            \* subscriptions still to come
    running,          \* HeadWatcher: the interval is set
    watch,            \* HeadWatcher: [phase, since, last, from, head], its tick
    logs,             \* ranges asked for and not delivered: [from, to, answer, stops]
    heard,            \* what each socket was sent since it subscribed: [since, heads, ranges]
    gone,             \* blocks answered null, or too far back to be walked
    raced,            \* the watcher was stopped while a tick was under way
    stops             \* history: how often the watcher was stopped

feedVars == <<subs, joins, running, watch, logs, heard, gone, raced, stops>>
gatewayVars == <<readVars, feedVars, now>>

\* since: when the subscription started the watcher, 0 if it was not at rest.
Hearing(since) == [since |-> since, heads |-> <<>>, ranges |-> <<>>]
Idle(last) == [phase |-> "idle", since |-> 0, last |-> last, from |-> 0, head |-> 0]
Subscribed(kind) == {s \in Sockets : subs[s] = kind}

-----------------------------------------------------------------------------
(* Subscribers.  A definition named ..._Bug is a mistake the next one could contain. *)

Forgotten_Bug == watch.last
Forgotten == 0

\* settle(): start() or stop(), by whether someone is subscribed now.
Settled(wanted) ==
    /\ running' = wanted
    /\ watch' = CASE wanted /\ ~running /\ watch.phase = "idle" ->
                        [watch EXCEPT !.phase = "head", !.since = now]
                 [] ~wanted /\ running -> [watch EXCEPT !.last = Forgotten]
                 [] OTHER -> watch

Subscribe(s, kind) ==
    /\ subs[s] = "none"
    /\ joins > 0
    /\ joins' = joins - 1
    /\ subs' = [subs EXCEPT ![s] = kind]
    /\ heard' = [heard EXCEPT ![s] =
                    Hearing(IF running \/ raced \/ watch.phase # "idle" THEN 0 ELSE now)]
    /\ Settled(TRUE)
    /\ UNCHANGED <<readVars, logs, gone, raced, stops, now>>

\* eth_unsubscribe, or the socket closed.
Unsubscribe(s) ==
    /\ subs[s] # "none"
    /\ subs' = [subs EXCEPT ![s] = "none"]
    /\ Settled(\E other \in Sockets \ {s} : subs[other] # "none")
    /\ heard' = [heard EXCEPT ![s] = Hearing(0)]
    /\ raced' = (raced \/ (~running' /\ watch.phase # "idle"))
    /\ stops' = IF running' THEN stops ELSE stops + 1
    /\ UNCHANGED <<readVars, joins, logs, gone, now>>

-----------------------------------------------------------------------------
(* Ticks *)

\* The interval fires and no tick is under way.
Poll ==
    /\ running
    /\ watch.phase = "idle"
    /\ watch' = [watch EXCEPT !.phase = "head", !.since = now]
    /\ UNCHANGED <<readVars, subs, joins, running, logs, heard, gone, raced, stops, now>>

AskedFor(from, to) ==
    IF Subscribed("logs") = {} THEN logs
    ELSE Append(logs, [from |-> from, to |-> to, answer |-> "out", stops |-> stops])

\* The blocks, in order, go to every subscriber of heads; their logs are asked for.
Announces(blocks, from, head) ==
    /\ heard' = [s \in Sockets |->
                   IF subs[s] = "newHeads" THEN [heard[s] EXCEPT !.heads = @ \o blocks] ELSE heard[s]]
    /\ gone' = gone \cup 1..(head - MaxCatchUp) \cup ((from..head) \ ToSet(blocks))
    /\ logs' = AskedFor(from, head)
    /\ watch' = Idle(head)

First(head) ==
    IF watch.last = 0 THEN head
    ELSE LET reach == head - MaxCatchUp + 1
         IN  IF watch.last + 1 > reach THEN watch.last + 1 ELSE reach

\* last while the missed blocks are being read.
LastMeanwhile_Bug(head) == head
LastMeanwhile(head) == watch.last

\* The head is read: it goes to the cache; what was stepped over is asked for first.
HeadRead ==
    /\ watch.phase = "head"
    /\ \E head \in Heads(watch.since) :
          /\ cached' = Entry(head, "feed")
          /\ IF head <= watch.last
             THEN watch' = Idle(watch.last) /\ UNCHANGED <<heard, logs, gone>>
             ELSE IF First(head) = head
             THEN Announces(<<head>>, head, head)
             ELSE /\ watch' = [watch EXCEPT !.phase = "missed", !.since = now,
                        !.last = LastMeanwhile(head), !.from = First(head), !.head = head]
                  /\ UNCHANGED <<heard, logs, gone>>
    /\ UNCHANGED <<requests, count, waiters, load, subs, joins, running, raced, stops, now>>

\* What is cached for the head once the blocks read went through onBlock.
CachedAfter(blocks) == IF blocks = <<>> THEN cached ELSE Entry(blocks[Len(blocks)], "feed")

\* The blocks without those that were answered null, in order.
InOrder(blocks) ==
    {s \in UNION {[1..n -> blocks] : n \in 0..Cardinality(blocks)} :
        \A i, j \in 1..Len(s) : i < j => s[i] < s[j]}

\* The missed blocks are read, except those answered null.
MissedRead ==
    /\ watch.phase = "missed"
    /\ \E found \in InOrder(watch.from..(watch.head - 1)) :
          /\ cached' = CachedAfter(found)
          /\ Announces(found \o <<watch.head>>, watch.from, watch.head)
    /\ UNCHANGED <<requests, count, waiters, load, subs, joins, running, raced, stops, now>>

\* One of the reads failed, or there was no head.
TickFails ==
    /\ watch.phase # "idle"
    /\ watch' = Idle(watch.last)
    /\ UNCHANGED <<readVars, subs, joins, running, logs, heard, gone, raced, stops, now>>

-----------------------------------------------------------------------------
(* Logs *)

LogsRead ==
    /\ \E i \in DOMAIN logs, answer \in {"logs", "failed"} :
          /\ logs[i].answer = "out"
          /\ logs' = [logs EXCEPT ![i].answer = answer]
    /\ UNCHANGED <<readVars, subs, joins, running, watch, heard, gone, raced, stops, now>>

\* A range is delivered after those asked for before it, also over a stop of the watcher,
\* and to whoever is subscribed by then.
Deliverable_Bug(i) == TRUE
Deliverable(i) == i = 1

DeliverLogs ==
    /\ \E i \in DOMAIN logs :
          /\ Deliverable(i)
          /\ logs[i].answer # "out"
          /\ logs' = RemoveAt(logs, i)
          /\ heard' = [s \in Sockets |->
                         IF logs[i].answer = "logs" /\ subs[s] = "logs"
                         THEN [heard[s] EXCEPT !.ranges = Append(@, logs[i])]
                         ELSE heard[s]]
    /\ UNCHANGED <<readVars, subs, joins, running, watch, gone, raced, stops, now>>

-----------------------------------------------------------------------------

TimePasses ==
    /\ now < MaxTime
    /\ ReadsInTime
    /\ watch.phase # "idle" => now < watch.since + Timeout
    /\ now' = now + 1
    /\ UNCHANGED <<readVars, feedVars>>

\* The requests and subscriptions that come are those of one workload.
FeedInit ==
    /\ \E work \in Workloads : ReadInit(work.requests) /\ joins = work.joins
    /\ subs = [s \in Sockets |-> "none"]
    /\ watch = Idle(0)
    /\ running = FALSE
    /\ logs = <<>>
    /\ heard = [s \in Sockets |-> Hearing(0)]
    /\ gone = {}
    /\ raced = FALSE
    /\ stops = 0

Ticking == Poll \/ HeadRead \/ MissedRead \/ TickFails
Hubbing == \E s \in Sockets : Unsubscribe(s) \/ \E kind \in {"newHeads", "logs"} : Subscribe(s, kind)

GatewayNext ==
    \/ ReadNext /\ UNCHANGED feedVars
    \/ Hubbing
    \/ Ticking
    \/ LogsRead
    \/ DeliverLogs
    \/ TimePasses

\* Timers fire, awaits end, calls settle: an upstream answers or fails.
GatewayFairness ==
    /\ WF_gatewayVars((\E r \in Requests : GiveUp(r) \/ Proceed(r) \/ Leave(r)) /\ UNCHANGED feedVars)
    /\ WF_gatewayVars(Calling /\ UNCHANGED feedVars)
    /\ WF_gatewayVars(TimePasses)

GatewaySpec == FeedInit /\ [][GatewayNext]_gatewayVars /\ GatewayFairness

-----------------------------------------------------------------------------
(* Properties *)

\* "A subscriber expects every block, not the latest one" (subscribe.ts:198-202): heads
\* come in ascending order, and a block between two of them was too far back or answered
\* null, which skips it for good, whatever ticks, failures, stops and starts interleave.
HeadsInOrder ==
    \A s \in Sockets : \A i \in 1..(Len(heard[s].heads) - 1) :
        LET h == heard[s].heads[i]
            next == heard[s].heads[i + 1]
        IN  h < next /\ (h + 1)..(next - 1) \subseteq gone

\* "The next subscriber starts from the head instead of being sent everything that
\* happened while nobody listened" (subscribe.ts:243-246), unless the watcher was once
\* stopped in the middle of a tick, which writes last again when it ends.
StartsAtHead ==
    \A s \in Sockets : heard[s].since > 0 /\ heard[s].heads # <<>> =>
        heard[s].heads[1] >= heard[s].since - Lag

\* a and b in block order, as far as they were asked for between two stops.
Follows(a, b) == a.stops < b.stops \/ (a.stops = b.stops /\ a.to < b.from)

\* "Chained so they still arrive in block order" (subscribe.ts:300): a socket is sent logs
\* in block order, none twice, except that stopping the watcher forgets where it was: what
\* was asked for before comes first, what is asked for after may be the same blocks again.
LogsInOrder ==
    \A s \in Sockets : \A i \in 1..(Len(heard[s].ranges) - 1) :
        Follows(heard[s].ranges[i], heard[s].ranges[i + 1])

\* The head is cached "for as long as it can be exact" (main.ts:209-211): what the
\* watcher cached is not behind the head it has announced.
CachedHeadExact == Fresh /\ cached.by = "feed" => cached.head >= watch.last
=============================================================================
