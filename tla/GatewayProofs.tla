--------------------------- MODULE GatewayProofs ---------------------------
(***************************************************************************)
(* What the gateway's reads and subscriptions guarantee for every set of   *)
(* requests and sockets, every number of slots, every wait, timeout, time  *)
(* to live and lag, and any failures: slots are neither lost nor doubled,  *)
(* answers are as fresh as promised, and heads and logs come in order.     *)
(*                                                                         *)
(* GatewayInv is inductive.  Reads is about the requests and the cache;    *)
(* Feed is about the watcher and, separately, about each socket, because   *)
(* what a socket hears depends on the others only through the watcher.     *)
(***************************************************************************)
EXTENDS HeadFeed, FiniteSetTheorems, SequenceTheorems, TLAPS

-----------------------------------------------------------------------------
(* Sequences *)

\* RemoveAt, by which a waiter leaves the line and a range of logs is done with, shifts
\* what comes after and keeps the rest.
LEMMA RemoveAtShifts ==
    ASSUME NEW S, NEW s \in Seq(S), NEW i \in 1..Len(s)
    PROVE  /\ RemoveAt(s, i) \in Seq(S)
           /\ Len(RemoveAt(s, i)) = Len(s) - 1
           /\ \A j \in 1..(Len(s) - 1) :
                 RemoveAt(s, i)[j] = IF j < i THEN s[j] ELSE s[j + 1]
<1> DEFINE a == SubSeq(s, 1, i - 1)
           b == SubSeq(s, i + 1, Len(s))
<1>0. Len(s) \in Nat /\ i \in Int /\ \A k \in 1..Len(s) : s[k] \in S
  OBVIOUS
<1>1. a \in Seq(S) /\ Len(a) = i - 1 /\ \A j \in 1..(i - 1) : a[j] = s[j]
  BY <1>0
<1>2. b \in Seq(S) /\ Len(b) = Len(s) - i /\ \A j \in 1..(Len(s) - i) : b[j] = s[i + j]
  BY <1>0
<1> HIDE DEF a, b
<1>3. /\ a \o b \in Seq(S)
      /\ Len(a \o b) = Len(a) + Len(b)
      /\ \A j \in 1..(Len(a) + Len(b)) :
            (a \o b)[j] = IF j <= Len(a) THEN a[j] ELSE b[j - Len(a)]
  BY <1>1, <1>2, ConcatProperties
<1>4. Len(a \o b) = Len(s) - 1
  BY <1>0, <1>1, <1>2, <1>3
<1>5. ASSUME NEW j \in 1..(Len(s) - 1)
      PROVE  (a \o b)[j] = IF j < i THEN s[j] ELSE s[j + 1]
  <2>1. CASE j < i
    BY <2>1, <1>0, <1>1, <1>2, <1>3
  <2>2. CASE i <= j
    <3>1. j - (i - 1) \in 1..(Len(s) - i) /\ i + (j - (i - 1)) = j + 1
      BY <2>2, <1>0
    <3>2. (a \o b)[j] = b[j - (i - 1)]
      BY <2>2, <1>0, <1>1, <1>2, <1>3
    <3> QED
      BY <3>1, <3>2, <1>2, <2>2, <1>0
  <2>3. j < i \/ i <= j
    BY <1>0
  <2> QED
    BY <2>1, <2>2, <2>3
<1> QED
  BY <1>3, <1>4, <1>5 DEF RemoveAt, a, b

-----------------------------------------------------------------------------
(* Reads: the inductive invariant *)

RequestType ==
    {Unused, Refused, Granted, [step |-> "joined"]}
    \cup [step: {"waiting"}, since: Nat]
    \cup [step: {"leaving", "done"}, ok: {FALSE}]
    \cup [step: {"leaving", "done"}, ok: {TRUE}, age: Int, by: {"load", "feed"}]

LoadType == [primary: {"out", "failed"}, hedge: {"armed", "out", "withheld", "failed"}, since: Nat]
CacheType == [head: Nat, until: Nat, by: {"load", "feed"}]

\* Types, and what is known of a call and a cached answer that are there.
ReadTypes ==
    /\ now \in Nat \ {0}
    /\ requests \in [Requests -> RequestType]
    /\ count \in Int
    /\ load # None => load \in LoadType /\ now <= load.since + Timeout
    /\ cached # None => cached \in CacheType
                        /\ (cached.by = "load" => cached.until <= cached.head + Lag + Timeout + Ttl)

\* The line holds each waiting request once and nobody else.
LineKept ==
    /\ waiters \in Seq(Requests)
    /\ \A i, j \in 1..Len(waiters) : waiters[i] = waiters[j] => i = j
    /\ \A r \in Requests :
          requests[r].step = "waiting" <=> \E i \in 1..Len(waiters) : waiters[i] = r

SlotsTaken == IsFiniteSet(Holders) /\ SlotsKept

Reads == ReadTypes /\ LineKept /\ SlotsTaken /\ AnswersFresh

\* The steps a request holds a slot in.
Holding == {"granted", "joined", "leaving"}

-----------------------------------------------------------------------------
(* Reads: each part through the steps *)

\* A step that changes neither who waits nor who holds a slot keeps the line and the slots.
LEMMA SameLine ==
    ASSUME LineKept, SlotsTaken, UNCHANGED <<count, waiters>>,
           \A q \in Requests :
              /\ requests'[q].step = "waiting" <=> requests[q].step = "waiting"
              /\ requests'[q].step \in Holding <=> requests[q].step \in Holding
    PROVE  LineKept' /\ SlotsTaken'
<1>1. Holders' = Holders
  BY DEF Holders, In, Holding
<1>2. LineKept'
  BY DEF LineKept
<1> QED
  BY <1>1, <1>2 DEF SlotsTaken, SlotsKept

\* A request that changes its step changes those of no other.
LEMMA OneMoves ==
    ASSUME requests \in [Requests -> RequestType], NEW r \in Requests, NEW x \in RequestType,
           requests' = [requests EXCEPT ![r] = x]
    PROVE  /\ requests' \in [Requests -> RequestType]
           /\ requests'[r] = x
           /\ \A q \in Requests : q # r => requests'[q] = requests[q]
  OBVIOUS

\* An answer is a request's state, whatever the age.
LEMMA AnswerTyped ==
    ASSUME now \in Nat, NEW step \in {"leaving", "done"}, NEW head \in Nat, NEW by \in {"load", "feed"}
    PROVE  /\ Answer(step, head, by) \in RequestType
           /\ Answer(step, head, by).step = step
           /\ Answer(step, head, by).by = by
           /\ Answer(step, head, by).age = now - head
           /\ Answer(step, head, by).ok = TRUE
<1>1. now - head \in Int
  OBVIOUS
<1>2. [step |-> step, ok |-> TRUE, age |-> now - head, by |-> by]
         \in [step: {"leaving", "done"}, ok: {TRUE}, age: Int, by: {"load", "feed"}]
  BY <1>1
<1> QED
  BY <1>2 DEF Answer, RequestType

\* A cached answer that is still served is as fresh as AnswersFresh says.
LEMMA CachedIsFresh ==
    ASSUME ReadTypes, Fresh, cached.by = "load"
    PROVE  now - cached.head <= Lag + Timeout + Ttl - 1
  BY ReadConstants DEF ReadTypes, Fresh, CacheType

\* A request that arrives is answered, takes a slot, or joins the end of the line.
LEMMA AskKeepsReads ==
    ASSUME Reads, NEW r \in Requests, Ask(r)
    PROVE  Reads'
<1>0. /\ requests[r].step = "unused" /\ requests[r] = Unused
      /\ UNCHANGED <<cached, load, now>>
      /\ requests \in [Requests -> RequestType]
      /\ now \in Nat
  BY DEF Ask, Unused, Reads, ReadTypes
<1>1. CASE Fresh /\ requests' = [requests EXCEPT ![r] = Answer("done", cached.head, cached.by)]
           /\ UNCHANGED <<count, waiters>>
  <2> DEFINE x == Answer("done", cached.head, cached.by)
  <2>1. cached.head \in Nat /\ cached.by \in {"load", "feed"}
    BY <1>1 DEF Reads, ReadTypes, Fresh, CacheType
  <2>2. /\ x \in RequestType /\ x.step = "done" /\ x.by = cached.by
        /\ x.age = now - cached.head
    BY <2>1, <1>0, AnswerTyped
  <2>3. requests' = [requests EXCEPT ![r] = x]
    BY <1>1
  <2> HIDE DEF x
  <2>4. /\ requests' \in [Requests -> RequestType]
        /\ requests'[r] = x
        /\ \A q \in Requests : q # r => requests'[q] = requests[q]
    BY <2>2, <2>3, <1>0, OneMoves
  <2>5. LineKept' /\ SlotsTaken'
    BY <1>0, <1>1, <2>2, <2>4, SameLine DEF Reads, Holding
  <2>6. AnswersFresh'
    <3>1. x.by = "load" => x.age <= Lag + Timeout + Ttl - 1
      BY <2>2, <1>1, CachedIsFresh DEF Reads
    <3> QED
      BY <3>1, <2>4 DEF Reads, AnswersFresh
  <2> QED
    BY <1>0, <1>1, <2>4, <2>5, <2>6 DEF Reads, ReadTypes
<1>2. CASE count < Slots /\ requests' = [requests EXCEPT ![r] = Granted]
           /\ count' = count + 1 /\ UNCHANGED waiters
  <2>1. /\ requests' \in [Requests -> RequestType]
        /\ requests'[r].step = "granted"
        /\ \A q \in Requests : q # r => requests'[q] = requests[q]
    BY <1>0, <1>2, OneMoves DEF RequestType, Granted
  <2>2. LineKept'
    BY <1>0, <1>2, <2>1 DEF Reads, LineKept
  <2>3. Holders' = Holders \cup {r} /\ r \notin Holders
    BY <1>0, <2>1 DEF Holders, In
  <2>4. IsFiniteSet(Holders') /\ Cardinality(Holders') = Cardinality(Holders) + 1
    BY <2>3, FS_AddElement DEF Reads, SlotsTaken
  <2>5. SlotsTaken'
    BY <2>4, <1>2, ReadConstants DEF Reads, ReadTypes, SlotsTaken, SlotsKept
  <2>6. AnswersFresh'
    BY <2>1 DEF Reads, AnswersFresh
  <2>7. count' \in Int
    BY <1>2 DEF Reads, ReadTypes
  <2> QED
    BY <1>0, <2>1, <2>2, <2>5, <2>6, <2>7 DEF Reads, ReadTypes
<1>3. CASE count >= Slots /\ requests' = [requests EXCEPT ![r] = [step |-> "waiting", since |-> now]]
           /\ waiters' = Append(waiters, r) /\ UNCHANGED count
  <2>1. /\ requests' \in [Requests -> RequestType]
        /\ requests'[r].step = "waiting"
        /\ \A q \in Requests : q # r => requests'[q] = requests[q]
    <3> DEFINE x == [step |-> "waiting", since |-> now]
    <3>1. x \in RequestType /\ x.step = "waiting"
      BY <1>0 DEF RequestType
    <3> HIDE DEF x
    <3>2. requests' = [requests EXCEPT ![r] = x]
      BY <1>3 DEF x
    <3> QED
      BY <1>0, <3>1, <3>2, OneMoves
  <2>2. /\ waiters' \in Seq(Requests)
        /\ Len(waiters') = Len(waiters) + 1
        /\ \A i \in 1..Len(waiters) : waiters'[i] = waiters[i]
        /\ waiters'[Len(waiters) + 1] = r
        /\ Len(waiters) \in Nat
    BY <1>3, AppendProperties DEF Reads, LineKept
  <2>3. \A i \in 1..Len(waiters) : waiters[i] # r
    BY <1>0 DEF Reads, LineKept
  <2>4. LineKept'
    <3>1. ASSUME NEW i \in 1..Len(waiters'), NEW j \in 1..Len(waiters'), waiters'[i] = waiters'[j]
          PROVE  i = j
      BY <3>1, <2>2, <2>3 DEF Reads, LineKept
    <3>2. ASSUME NEW q \in Requests
          PROVE  requests'[q].step = "waiting" <=> \E i \in 1..Len(waiters') : waiters'[i] = q
      <4>1. CASE q = r
        BY <4>1, <2>1, <2>2
      <4>2. CASE q # r
        <5>1. requests'[q].step = "waiting" <=> \E i \in 1..Len(waiters) : waiters[i] = q
          BY <4>2, <2>1 DEF Reads, LineKept
        <5>2. (\E i \in 1..Len(waiters') : waiters'[i] = q) <=> \E i \in 1..Len(waiters) : waiters[i] = q
          BY <4>2, <2>2
        <5> QED
          BY <5>1, <5>2
      <4> QED
        BY <4>1, <4>2
    <3> QED
      BY <2>2, <3>1, <3>2 DEF LineKept
  <2>5. Holders' = Holders
    BY <1>0, <2>1 DEF Holders, In
  <2>6. SlotsTaken'
    BY <2>5, <1>3, ReadConstants DEF Reads, ReadTypes, SlotsTaken, SlotsKept
  <2>7. AnswersFresh'
    BY <2>1 DEF Reads, AnswersFresh
  <2> QED
    BY <1>0, <1>3, <2>1, <2>4, <2>6, <2>7 DEF Reads, ReadTypes
<1> QED
  BY <1>1, <1>2, <1>3 DEF Ask

\* A request that waited too long leaves the line, wherever it stood.
LEMMA GiveUpKeepsReads ==
    ASSUME Reads, NEW r \in Requests, GiveUp(r)
    PROVE  Reads'
<1>0. /\ requests[r].step = "waiting"
      /\ requests' = [requests EXCEPT ![r] = Refused]
      /\ waiters' = RemoveAt(waiters, CHOOSE i \in DOMAIN waiters : waiters[i] = r)
      /\ UNCHANGED <<count, cached, load, now>>
      /\ requests \in [Requests -> RequestType]
  BY DEF GiveUp, Without, Reads, ReadTypes
<1>1. /\ requests' \in [Requests -> RequestType]
      /\ requests'[r].step = "refused"
      /\ \A q \in Requests : q # r => requests'[q] = requests[q]
  BY <1>0, OneMoves DEF RequestType, Refused
<1>2. PICK k \in 1..Len(waiters) : k = (CHOOSE i \in DOMAIN waiters : waiters[i] = r)
                                  /\ waiters[k] = r
  BY <1>0 DEF Reads, LineKept
<1> DEFINE from(j) == IF j < k THEN j ELSE j + 1
<1>3. /\ waiters' \in Seq(Requests)
      /\ Len(waiters') = Len(waiters) - 1
      /\ \A j \in 1..(Len(waiters) - 1) : waiters'[j] = IF j < k THEN waiters[j] ELSE waiters[j + 1]
      /\ Len(waiters) \in Nat
  <2>1. waiters \in Seq(Requests) /\ waiters' = RemoveAt(waiters, k)
    BY <1>0, <1>2 DEF Reads, LineKept
  <2>2. /\ RemoveAt(waiters, k) \in Seq(Requests)
        /\ Len(RemoveAt(waiters, k)) = Len(waiters) - 1
        /\ \A j \in 1..(Len(waiters) - 1) :
              RemoveAt(waiters, k)[j] = IF j < k THEN waiters[j] ELSE waiters[j + 1]
    BY ONLY <1>2, <2>1, RemoveAtShifts
  <2>3. Len(waiters) \in Nat
    BY ONLY <2>1
  <2> QED
    BY ONLY <2>1, <2>2, <2>3
<1>4. LineKept'
  <2>0. \A j \in 1..Len(waiters') :
           /\ from(j) \in 1..Len(waiters) /\ from(j) # k
           /\ waiters'[j] = waiters[from(j)]
    BY <1>3
  <2>1. ASSUME NEW i \in 1..Len(waiters'), NEW j \in 1..Len(waiters'), waiters'[i] = waiters'[j]
        PROVE  i = j
    <3>1. from(i) = from(j)
      <4>1. waiters[from(i)] = waiters[from(j)]
        BY <2>0, <2>1
      <4>2. from(i) \in 1..Len(waiters) /\ from(j) \in 1..Len(waiters)
        BY <2>0
      <4> HIDE DEF from
      <4> QED
        BY <4>1, <4>2 DEF Reads, LineKept
    <3> QED
      BY <3>1
  <2>2. ASSUME NEW q \in Requests
        PROVE  requests'[q].step = "waiting" <=> \E i \in 1..Len(waiters') : waiters'[i] = q
    <3>1. CASE q = r
      <4>1. ASSUME NEW i \in 1..Len(waiters'), waiters'[i] = r
            PROVE  FALSE
        <5> HIDE DEF from
        <5> QED
          BY <4>1, <1>2, <2>0 DEF Reads, LineKept
      <4> QED
        BY <4>1, <3>1, <1>1
    <3>2. CASE q # r
      <4>1. requests'[q].step = "waiting" <=> \E i \in 1..Len(waiters) : waiters[i] = q
        BY <3>2, <1>1 DEF Reads, LineKept
      <4>2. ASSUME NEW i \in 1..Len(waiters), waiters[i] = q
            PROVE  \E j \in 1..Len(waiters') : waiters'[j] = q
        <5>1. CASE i < k
          BY <5>1, <4>2, <1>3
        <5>2. CASE i > k
          <6>1. i - 1 \in 1..Len(waiters') /\ waiters'[i - 1] = waiters[i]
            BY <5>2, <1>3
          <6> QED
            BY <6>1, <4>2
        <5>3. i # k
          BY <4>2, <3>2, <1>2
        <5> QED
          BY <5>1, <5>2, <5>3
      <4>3. ASSUME NEW j \in 1..Len(waiters'), waiters'[j] = q
            PROVE  \E i \in 1..Len(waiters) : waiters[i] = q
        BY <4>3, <1>3
      <4> QED
        BY <4>1, <4>2, <4>3
    <3> QED
      BY <3>1, <3>2
  <2> QED
    BY <1>3, <2>1, <2>2 DEF LineKept
<1>5. Holders' = Holders
  BY <1>0, <1>1 DEF Holders, In
<1>6. waiters # <<>>
  BY <1>2
<1>7. SlotsTaken'
  BY <1>0, <1>5, <1>6 DEF Reads, SlotsTaken, SlotsKept
<1>8. AnswersFresh'
  BY <1>1 DEF Reads, AnswersFresh
<1> QED
  BY <1>0, <1>1, <1>4, <1>7, <1>8 DEF Reads, ReadTypes

\* A request with a slot goes on: from the cache, or to the call.
LEMMA ProceedKeepsReads ==
    ASSUME Reads, NEW r \in Requests, Proceed(r)
    PROVE  Reads'
<1> DEFINE x == IF Fresh THEN Answer("leaving", cached.head, cached.by) ELSE [step |-> "joined"]
<1>0. /\ requests[r].step = "granted" /\ UNCHANGED <<count, waiters, cached, now>>
      /\ requests' = [requests EXCEPT ![r] = x]
      /\ requests \in [Requests -> RequestType]
      /\ now \in Nat
  BY DEF Proceed, Granted, Reads, ReadTypes
<1>1. /\ x \in RequestType
      /\ x.step = IF Fresh THEN "leaving" ELSE "joined"
      /\ x.step = "leaving" /\ x.by = "load" => x.age <= Lag + Timeout + Ttl - 1
  <2>1. CASE Fresh
    <3>1. cached.head \in Nat /\ cached.by \in {"load", "feed"}
      BY <2>1 DEF Reads, ReadTypes, Fresh, CacheType
    <3>2. x = Answer("leaving", cached.head, cached.by)
      BY <2>1
    <3> HIDE DEF x
    <3>3. /\ x \in RequestType /\ x.step = "leaving" /\ x.by = cached.by
          /\ x.age = now - cached.head
      BY <3>1, <3>2, <1>0, AnswerTyped
    <3> QED
      BY <3>3, <2>1, CachedIsFresh DEF Reads
  <2>2. CASE ~Fresh
    BY <2>2 DEF RequestType
  <2> QED
    BY <2>1, <2>2
<1> HIDE DEF x
<1>2. /\ requests' \in [Requests -> RequestType]
      /\ requests'[r] = x
      /\ \A q \in Requests : q # r => requests'[q] = requests[q]
  BY <1>0, <1>1, OneMoves
<1>3. LineKept' /\ SlotsTaken'
  BY <1>0, <1>1, <1>2, SameLine DEF Reads, Holding
<1>4. AnswersFresh'
  BY <1>1, <1>2 DEF Reads, AnswersFresh
<1>5. load' # None => load' \in LoadType /\ now' <= load'.since + Timeout
  <2>1. load' = load \/ load' = [primary |-> "out", hedge |-> "armed", since |-> now]
    BY DEF Proceed
  <2>2. CASE load' = load
    BY <2>2, <1>0 DEF Reads, ReadTypes
  <2>3. CASE load' = [primary |-> "out", hedge |-> "armed", since |-> now]
    BY <2>3, <1>0, ReadConstants DEF LoadType
  <2> QED
    BY <2>1, <2>2, <2>3
<1> QED
  BY <1>0, <1>2, <1>3, <1>4, <1>5 DEF Reads, ReadTypes

\* What a call settles with is every joined request's answer, and none gives its slot back.
LEMMA SettlesKeepsLine ==
    ASSUME Reads, NEW result \in RequestType, result.step = "leaving", Settles(result)
    PROVE  /\ requests' \in [Requests -> RequestType]
           /\ \A q \in Requests : requests'[q] = result \/ requests'[q] = requests[q]
           /\ LineKept' /\ SlotsTaken'
<1>1. /\ UNCHANGED <<count, waiters>>
      /\ requests' = [r \in Requests |-> IF r \in In("joined") THEN result ELSE requests[r]]
      /\ requests \in [Requests -> RequestType]
  BY DEF Settles, Reads, ReadTypes
<1>2. \A q \in Requests :
         /\ requests[q].step = "joined" => requests'[q] = result
         /\ requests[q].step # "joined" => requests'[q] = requests[q]
  BY <1>1 DEF In
<1>3. requests' \in [Requests -> RequestType]
  BY <1>1
<1> QED
  BY <1>1, <1>2, <1>3, SameLine DEF Reads, Holding

\* An upstream's answer is at most Lag behind the call, and the call at most Timeout old.
LEMMA AnswersKeepsReads ==
    ASSUME Reads, UpstreamAnswers
    PROVE  Reads'
<1>1. PICK head \in Heads(load.since) :
         cached' = Entry(head, "load") /\ Settles(Answer("leaving", head, "load"))
  BY DEF UpstreamAnswers
<1>2. load # None /\ load.since \in Nat /\ now <= load.since + Timeout /\ now \in Nat
  BY DEF UpstreamAnswers, Reads, ReadTypes, LoadType
<1>3. head \in Nat /\ head + Lag >= load.since
  BY <1>1, <1>2 DEF Heads
<1> DEFINE x == Answer("leaving", head, "load")
<1>4. x \in RequestType /\ x.step = "leaving" /\ x.by = "load" /\ x.age = now - head
  BY <1>2, <1>3, AnswerTyped
<1>5. load' = None /\ now' = now /\ UNCHANGED <<count, waiters>>
  BY <1>1 DEF Settles
<1>6. Settles(x)
  BY <1>1
<1> HIDE DEF x
<1>7. /\ requests' \in [Requests -> RequestType]
      /\ \A q \in Requests : requests'[q] = x \/ requests'[q] = requests[q]
      /\ LineKept' /\ SlotsTaken'
  BY <1>4, <1>6, SettlesKeepsLine
<1>8. x.age <= Lag + Timeout + Ttl - 1
  BY <1>2, <1>3, <1>4, ReadConstants
<1>9. AnswersFresh'
  BY <1>7, <1>8 DEF Reads, AnswersFresh
<1>10. cached' \in CacheType /\ cached'.until <= cached'.head + Lag + Timeout + Ttl
  <2>1. now + Ttl \in Nat /\ now + Ttl <= head + Lag + Timeout + Ttl
    BY <1>2, <1>3, ReadConstants
  <2> QED
    BY <2>1, <1>1, <1>3 DEF Entry, CacheType
<1> QED
  BY <1>5, <1>7, <1>9, <1>10 DEF Reads, ReadTypes

\* A failure is not an answer; whether it settles the call or leaves it to the hedge, the
\* slots stay where they are.
LEMMA FailureKeepsReads ==
    ASSUME Reads, PrimaryFails \/ HedgeFails
    PROVE  Reads'
<1>1. load # None /\ load \in LoadType /\ now <= load.since + Timeout /\ UNCHANGED <<cached, now>>
  BY DEF PrimaryFails, HedgeFails, Settles, Reads, ReadTypes
<1>2. CASE Settles(Failed("leaving"))
  <2>1. load' = None /\ UNCHANGED <<count, waiters>>
    BY <1>2 DEF Settles
  <2>2. Failed("leaving") \in RequestType /\ Failed("leaving").step = "leaving" /\ Failed("leaving").ok = FALSE
    BY DEF Failed, RequestType
  <2>3. /\ requests' \in [Requests -> RequestType]
        /\ \A q \in Requests : requests'[q] = Failed("leaving") \/ requests'[q] = requests[q]
        /\ LineKept' /\ SlotsTaken'
    BY <1>2, <2>2, SettlesKeepsLine
  <2>4. AnswersFresh'
    BY <2>2, <2>3 DEF Reads, AnswersFresh
  <2> QED
    BY <1>1, <2>1, <2>3, <2>4 DEF Reads, ReadTypes
<1>3. CASE /\ load' = [load EXCEPT !.primary = "failed"] \/ load' = [load EXCEPT !.hedge = "failed"]
           /\ UNCHANGED <<requests, count, waiters, now>>
  <2>1. load' \in LoadType /\ load'.since = load.since
    BY <1>1, <1>3 DEF LoadType
  <2>2. LineKept' /\ SlotsTaken'
    BY <1>3, SameLine DEF Reads
  <2>3. AnswersFresh'
    BY <1>3 DEF Reads, AnswersFresh
  <2> QED
    BY <1>1, <1>3, <2>1, <2>2, <2>3 DEF Reads, ReadTypes
<1> QED
  BY <1>2, <1>3 DEF PrimaryFails, HedgeFails

\* The hedge is sent or withheld.
LEMMA HedgeKeepsReads ==
    ASSUME Reads, HedgeFires
    PROVE  Reads'
<1>1. load # None /\ load \in LoadType /\ now <= load.since + Timeout
  BY DEF HedgeFires, Reads, ReadTypes
<1>2. UNCHANGED <<requests, count, waiters, cached, now>>
      /\ \E hedge \in {"out", "withheld"} : load' = [load EXCEPT !.hedge = hedge]
  BY DEF HedgeFires
<1>3. load' \in LoadType /\ load'.since = load.since
  BY <1>1, <1>2 DEF LoadType
<1>4. LineKept' /\ SlotsTaken'
  BY <1>2, SameLine DEF Reads
<1>5. AnswersFresh'
  BY <1>2 DEF Reads, AnswersFresh
<1> QED
  BY <1>1, <1>2, <1>3, <1>4, <1>5 DEF Reads, ReadTypes

\* A slot given back goes to the one who waited longest, and is free only when nobody waits.
LEMMA LeaveKeepsReads ==
    ASSUME Reads, NEW r \in Requests, Leave(r)
    PROVE  Reads'
<1> DEFINE next == IF waiters = <<>> THEN {} ELSE {Head(waiters)}
           x == [requests[r] EXCEPT !.step = "done"]
<1>0. /\ requests[r].step = "leaving"
      /\ requests' = [q \in Requests |->
                        IF q = r THEN x ELSE IF q \in next THEN Granted ELSE requests[q]]
      /\ waiters' = IF next = {} THEN waiters ELSE Tail(waiters)
      /\ count' = CountAfter(next)
      /\ UNCHANGED <<cached, load, now>>
      /\ requests \in [Requests -> RequestType]
  BY DEF Leave, Reads, ReadTypes
<1>1. /\ x \in RequestType /\ x.step = "done" /\ x.ok = requests[r].ok
      /\ x.ok => x.by = requests[r].by /\ x.age = requests[r].age
  <2>1. requests[r] \in [step: {"leaving", "done"}, ok: {FALSE}]
        \/ requests[r] \in [step: {"leaving", "done"}, ok: {TRUE}, age: Int, by: {"load", "feed"}]
    <3>1. requests[r] \in RequestType
      BY <1>0
    <3>2. ASSUME requests[r] \in [step: {"waiting"}, since: Nat]
          PROVE  FALSE
      BY <3>2, <1>0
    <3>3. ASSUME requests[r] \in {Unused, Refused, Granted, [step |-> "joined"]}
          PROVE  FALSE
      BY <3>3, <1>0 DEF Unused, Refused, Granted
    <3> QED
      BY <3>1, <3>2, <3>3 DEF RequestType
  <2>2. CASE requests[r] \in [step: {"leaving", "done"}, ok: {FALSE}]
    <3>1. /\ x \in [step: {"leaving", "done"}, ok: {FALSE}]
          /\ x.step = "done" /\ x.ok = FALSE /\ requests[r].ok = FALSE
      BY <2>2
    <3> QED
      BY <3>1 DEF RequestType
  <2>3. CASE requests[r] \in [step: {"leaving", "done"}, ok: {TRUE}, age: Int, by: {"load", "feed"}]
    <3>1. /\ x \in [step: {"leaving", "done"}, ok: {TRUE}, age: Int, by: {"load", "feed"}]
          /\ x.step = "done" /\ x.ok = TRUE /\ requests[r].ok = TRUE
          /\ x.by = requests[r].by /\ x.age = requests[r].age
      BY <2>3
    <3> QED
      BY <3>1 DEF RequestType
  <2> QED
    BY <2>1, <2>2, <2>3
<1> HIDE DEF x
<1>2. Granted \in RequestType /\ Granted.step = "granted"
  BY DEF RequestType, Granted
<1>3. \A q \in next : q \in Requests /\ requests[q].step = "waiting" /\ q # r
  <2>1. waiters # <<>> => 1 \in 1..Len(waiters) /\ Head(waiters) = waiters[1]
    BY DEF Reads, LineKept
  <2> QED
    BY <2>1, <1>0 DEF Reads, LineKept
<1>4. /\ requests' \in [Requests -> RequestType]
      /\ requests'[r] = x
      /\ \A q \in next : requests'[q] = Granted
      /\ \A q \in Requests : q # r /\ q \notin next => requests'[q] = requests[q]
  <2> HIDE DEF next
  <2>1. requests' \in [Requests -> RequestType]
    BY <1>0, <1>1, <1>2
  <2> QED
    BY <2>1, <1>0, <1>3
<1>5. AnswersFresh'
  <2> HIDE DEF next
  <2>1. ASSUME NEW q \in Requests, requests'[q].step \in {"leaving", "done"}, requests'[q].ok,
               requests'[q].by = "load"
        PROVE  requests'[q].age <= Lag + Timeout + Ttl - 1
    <3>1. CASE q = r
      BY <3>1, <2>1, <1>0, <1>1, <1>4 DEF Reads, AnswersFresh
    <3>2. CASE q # r
      <4>1. q \notin next
        BY <2>1, <1>2, <1>4
      <4> QED
        BY <4>1, <3>2, <2>1, <1>4 DEF Reads, AnswersFresh
    <3> QED
      BY <3>1, <3>2
  <2> QED
    BY <2>1 DEF AnswersFresh
<1>6. IsFiniteSet(Holders) /\ r \in Holders /\ count = Cardinality(Holders) /\ count \in Int
      /\ count <= Slots /\ (waiters # <<>> => count = Slots)
  BY <1>0 DEF Reads, ReadTypes, SlotsTaken, SlotsKept, Holders, In
<1>7. IsFiniteSet(Holders \ {r}) /\ Cardinality(Holders \ {r}) = count - 1
  BY <1>6, FS_RemoveElement
<1>8. CASE waiters = <<>>
  <2>1. next = {} /\ count' = count - 1 /\ waiters' = waiters
    BY <1>8, <1>0 DEF CountAfter
  <2>2. Holders' = Holders \ {r}
    BY <2>1, <1>0, <1>1, <1>4 DEF Holders, In
  <2>3. SlotsTaken'
    BY <2>1, <2>2, <1>6, <1>7, <1>8, ReadConstants DEF SlotsTaken, SlotsKept
  <2>4. LineKept'
    <3>1. \A q \in Requests : requests'[q].step = "waiting" <=> requests[q].step = "waiting"
      BY <2>1, <1>0, <1>1, <1>4
    <3> QED
      BY <3>1, <2>1 DEF Reads, LineKept
  <2>5. count' \in Int
    BY <2>1, <1>6
  <2> QED
    BY <2>3, <2>4, <2>5, <1>0, <1>4, <1>5 DEF Reads, ReadTypes
<1>9. CASE waiters # <<>>
  <2> DEFINE h == waiters[1]
  <2>1. /\ next = {h} /\ count' = count /\ waiters' = Tail(waiters)
        /\ 1 \in 1..Len(waiters) /\ h \in Requests
    <3>1. waiters \in Seq(Requests)
      BY DEF Reads, LineKept
    <3>2. Head(waiters) = h /\ 1 \in 1..Len(waiters) /\ h \in Requests
      BY <3>1, <1>9
    <3>3. next = {h}
      BY <3>2, <1>9
    <3> QED
      BY <3>2, <3>3, <1>0 DEF CountAfter
  <2>2. h # r /\ requests[h].step = "waiting" /\ requests'[h].step = "granted"
    BY <2>1, <1>2, <1>3, <1>4
  <2>3. h \notin Holders
    BY <2>2 DEF Holders, In
  <2> HIDE DEF h, next
  <2>4. Holders' = (Holders \ {r}) \cup {h}
    BY <2>1, <2>2, <1>0, <1>1, <1>4 DEF Holders, In
  <2>5. IsFiniteSet(Holders') /\ Cardinality(Holders') = count
    <3>1. h \notin Holders \ {r}
      BY <2>3
    <3>2. /\ IsFiniteSet((Holders \ {r}) \cup {h})
          /\ Cardinality((Holders \ {r}) \cup {h}) = Cardinality(Holders \ {r}) + 1
      BY <3>1, <1>7, FS_AddElement
    <3> QED
      BY <3>2, <2>4, <1>6, <1>7
  <2>6. SlotsTaken'
    BY <2>1, <2>5, <1>6, <1>9 DEF SlotsTaken, SlotsKept
  <2>7. /\ waiters' \in Seq(Requests)
        /\ Len(waiters') = Len(waiters) - 1
        /\ \A i \in 1..Len(waiters') : waiters'[i] = waiters[i + 1]
        /\ Len(waiters) \in Nat
    BY <2>1, <1>9, HeadTailProperties DEF Reads, LineKept
  <2>8. LineKept'
    <3>1. ASSUME NEW i \in 1..Len(waiters'), NEW j \in 1..Len(waiters'), waiters'[i] = waiters'[j]
          PROVE  i = j
      <4>1. i + 1 \in 1..Len(waiters) /\ j + 1 \in 1..Len(waiters) /\ waiters[i + 1] = waiters[j + 1]
        BY <3>1, <2>7
      <4>2. i + 1 = j + 1
        BY <4>1 DEF Reads, LineKept
      <4> QED
        BY <4>2, <2>7
    <3>2. ASSUME NEW q \in Requests
          PROVE  requests'[q].step = "waiting" <=> \E i \in 1..Len(waiters') : waiters'[i] = q
      <4>1. requests[q].step = "waiting" <=> \E i \in 1..Len(waiters) : waiters[i] = q
        BY DEF Reads, LineKept
      <4>2. requests'[q].step = "waiting" <=> requests[q].step = "waiting" /\ q # h
        BY <2>1, <2>2, <1>0, <1>1, <1>4
      <4>3. ASSUME NEW i \in 1..Len(waiters), waiters[i] = q, q # h
            PROVE  \E j \in 1..Len(waiters') : waiters'[j] = q
        <5>1. i # 1
          BY <4>3 DEF h
        <5>2. i - 1 \in 1..Len(waiters') /\ waiters'[i - 1] = q
          BY <5>1, <4>3, <2>7
        <5> QED
          BY <5>2
      <4>4. ASSUME NEW j \in 1..Len(waiters'), waiters'[j] = q
            PROVE  q # h /\ \E i \in 1..Len(waiters) : waiters[i] = q
        <5>1. j + 1 \in 1..Len(waiters) /\ j + 1 # 1 /\ waiters[j + 1] = q
          BY <4>4, <2>7
        <5>2. waiters[1] # q
          BY <5>1, <2>1 DEF Reads, LineKept
        <5> QED
          BY <5>1, <5>2 DEF h
      <4> QED
        BY <4>1, <4>2, <4>3, <4>4
    <3> QED
      BY <2>7, <3>1, <3>2 DEF LineKept
  <2>9. count' \in Int
    BY <2>1, <1>6
  <2> QED
    BY <2>6, <2>8, <2>9, <1>0, <1>4, <1>5 DEF Reads, ReadTypes
<1> QED
  BY <1>8, <1>9

\* Every step of the reads keeps Reads.
LEMMA ReadsStep ==
    ASSUME Reads, ReadNext
    PROVE  Reads'
<1>1. ASSUME NEW r \in Requests, Ask(r) \/ GiveUp(r) \/ Proceed(r) \/ Leave(r)
      PROVE  Reads'
  BY <1>1, AskKeepsReads, GiveUpKeepsReads, ProceedKeepsReads, LeaveKeepsReads
<1>2. ASSUME Calling
      PROVE  Reads'
  BY <1>2, AnswersKeepsReads, FailureKeepsReads, HedgeKeepsReads DEF Calling
<1> QED
  BY <1>1, <1>2 DEF ReadNext

\* What the watcher writes to the cache is none of a call's answers.
LEMMA FeedKeepsReads ==
    ASSUME Reads, UNCHANGED <<requests, count, waiters, load, now>>,
           \/ cached' = cached
           \/ \E head \in Nat : cached' = Entry(head, "feed")
    PROVE  Reads'
<1>1. LineKept' /\ SlotsTaken'
  BY SameLine DEF Reads
<1>2. AnswersFresh'
  BY DEF Reads, AnswersFresh
<1>3. CASE cached' = cached
  BY <1>1, <1>2, <1>3 DEF Reads, ReadTypes
<1>4. ASSUME NEW head \in Nat, cached' = Entry(head, "feed")
      PROVE  cached' \in CacheType /\ cached'.by # "load"
  BY <1>4, ReadConstants DEF Entry, CacheType, Reads, ReadTypes
<1> QED
  BY <1>1, <1>2, <1>3, <1>4 DEF Reads, ReadTypes

\* Time passes only while the call in flight is not due to be aborted.
LEMMA TimeKeepsReads ==
    ASSUME Reads, TimePasses
    PROVE  Reads'
<1>1. /\ UNCHANGED <<requests, count, waiters, cached, load>>
      /\ now' = now + 1 /\ now \in Nat \ {0}
      /\ load # None => now < load.since + Timeout
  BY DEF TimePasses, readVars, ReadsInTime, Reads, ReadTypes
<1>2. LineKept' /\ SlotsTaken'
  BY <1>1, SameLine DEF Reads
<1>3. AnswersFresh'
  BY <1>1 DEF Reads, AnswersFresh
<1>4. load' # None => load' \in LoadType /\ now' <= load'.since + Timeout
  BY <1>1, ReadConstants DEF Reads, ReadTypes, LoadType
<1> QED
  BY <1>1, <1>2, <1>3, <1>4 DEF Reads, ReadTypes

-----------------------------------------------------------------------------
(* Subscriptions: the inductive invariant *)

RangeType == [from: Nat, to: Nat, answer: {"out", "logs", "failed"}, stops: Nat]
HeardType == [since: Nat, heads: Seq(Nat), ranges: Seq(RangeType)]
WatchType == [phase: {"idle", "head", "missed"}, since: Nat, last: Nat, from: Nat, head: Nat]

FeedTypes ==
    /\ subs \in [Sockets -> {"newHeads", "logs", "none"}]
    /\ running \in BOOLEAN
    /\ raced \in BOOLEAN
    /\ stops \in Nat
    /\ watch \in WatchType
    /\ logs \in Seq(RangeType)
    /\ heard \in [Sockets -> HeardType]

\* What is to be announced starts after last and leaves out what is too far back.
Reaches(last, from, head) ==
    /\ last < from
    /\ from <= head
    /\ last = 0 \/ (last + 1)..(from - 1) \subseteq 1..(head - MaxCatchUp)

\* The watcher runs while somebody is subscribed, and one that is at rest has forgotten
\* where it was unless it was stopped in the middle of a tick.
WatchKept ==
    /\ running <=> \E s \in Sockets : subs[s] # "none"
    /\ watch.since <= now
    /\ watch.phase = "missed" => Reaches(watch.last, watch.from, watch.head)
    /\ ~running /\ ~raced => watch.phase = "idle" /\ watch.last = 0

\* A socket has heard every block up to last that was not answered null, in order.
HeadsHeard(s) ==
    /\ subs[s] # "newHeads" => heard[s].heads = <<>>
    /\ heard[s].heads # <<>> =>
          LET h == heard[s].heads[Len(heard[s].heads)]
          IN  0 < h /\ h <= watch.last /\ (h + 1)..watch.last \subseteq gone
    /\ \A i \in 1..(Len(heard[s].heads) - 1) :
          LET h == heard[s].heads[i]
              next == heard[s].heads[i + 1]
          IN  h < next /\ (h + 1)..(next - 1) \subseteq gone

\* Where a socket starts that will hear, or has heard, the head first.
NotYet(s) == subs[s] = "newHeads" /\ heard[s].since > 0 /\ heard[s].heads = <<>>

StartKept(s) ==
    /\ heard[s].since <= now
    /\ heard[s].since > 0 /\ heard[s].heads # <<>> => heard[s].heads[1] >= heard[s].since - Lag
    /\ NotYet(s) =>
          /\ watch.last = 0
          /\ watch.phase = "idle" \/ (watch.phase = "head" /\ watch.since >= heard[s].since)

\* A range that was asked for when the watcher had been stopped n times, or before, and
\* had come to last.
Past(range, n, last) ==
    /\ range.from <= range.to
    /\ range.stops < n \/ (range.stops = n /\ range.to <= last)

\* The ranges asked for follow each other.
RangesAsked ==
    /\ \A i \in 1..Len(logs) : Past(logs[i], stops, watch.last)
    /\ \A i, j \in 1..Len(logs) : i < j => Follows(logs[i], logs[j])

\* Those a socket was sent follow each other, and those still asked for follow them.
RangesHeard(s) ==
    /\ heard[s].ranges # <<>> =>
          LET sent == heard[s].ranges[Len(heard[s].ranges)]
          IN  Past(sent, stops, watch.last) /\ \A i \in 1..Len(logs) : Follows(sent, logs[i])
    /\ \A i \in 1..(Len(heard[s].ranges) - 1) :
          Follows(heard[s].ranges[i], heard[s].ranges[i + 1])

Served(s) == HeadsHeard(s) /\ StartKept(s) /\ RangesHeard(s)

Feed == FeedTypes /\ WatchKept /\ RangesAsked /\ \A s \in Sockets : Served(s)

GatewayInv == Reads /\ Feed

-----------------------------------------------------------------------------
(* Subscriptions: each part through the steps *)

\* The watcher goes on from where it was, or has been stopped once more.
GoesOn == (stops' = stops /\ watch.last <= watch'.last) \/ stops' = stops + 1

\* The same ranges are asked for, answered or not.
SameRanges ==
    /\ Len(logs') = Len(logs)
    /\ \A i \in 1..Len(logs) : /\ logs'[i].from = logs[i].from
                               /\ logs'[i].to = logs[i].to
                               /\ logs'[i].stops = logs[i].stops

\* A range that is past stays so.
LEMMA PastStays ==
    ASSUME FeedTypes, GoesOn, watch'.last \in Nat, NEW range \in RangeType,
           Past(range, stops, watch.last)
    PROVE  Past(range, stops', watch'.last)
<1>1. watch.last \in Nat /\ stops \in Nat
  BY DEF FeedTypes, WatchType
<1> QED
  BY <1>1 DEF GoesOn, RangeType, Past

\* What a socket was sent stays in order while the same ranges are asked for.
LEMMA RangesStay ==
    ASSUME NEW s \in Sockets, FeedTypes, RangesHeard(s), GoesOn, watch'.last \in Nat, SameRanges,
           heard'[s].ranges = heard[s].ranges
    PROVE  RangesHeard(s)'
<1> DEFINE sent == heard[s].ranges[Len(heard[s].ranges)]
<1>1. heard[s].ranges \in Seq(RangeType)
  BY DEF FeedTypes, HeardType
<1>2. CASE heard[s].ranges = <<>>
  BY <1>2 DEF RangesHeard
<1>3. CASE heard[s].ranges # <<>>
  <2>1. sent \in RangeType
    BY <1>1, <1>3
  <2>2. Past(sent, stops', watch'.last)
    <3>1. Past(sent, stops, watch.last)
      BY <1>3 DEF RangesHeard
    <3> HIDE DEF sent
    <3> QED
      BY <2>1, <3>1, PastStays
  <2>3. \A i \in 1..Len(logs') : Follows(sent, logs'[i])
    BY <1>3 DEF RangesHeard, SameRanges, Follows
  <2>4. \A i \in 1..(Len(heard'[s].ranges) - 1) : Follows(heard'[s].ranges[i], heard'[s].ranges[i + 1])
    BY DEF RangesHeard
  <2>5. heard'[s].ranges[Len(heard'[s].ranges)] = sent
    OBVIOUS
  <2> HIDE DEF sent
  <2> QED
    BY <2>2, <2>3, <2>4, <2>5 DEF RangesHeard
<1> QED
  BY <1>2, <1>3

\* The ranges asked for stay in order while they are the same.
LEMMA AskedStays ==
    ASSUME FeedTypes, RangesAsked, GoesOn, watch'.last \in Nat, SameRanges
    PROVE  RangesAsked'
<1>1. \A i \in 1..Len(logs) : logs[i] \in RangeType
  BY DEF FeedTypes
<1>2. \A i \in 1..Len(logs) : Past(logs[i], stops', watch'.last)
  BY <1>1, PastStays DEF RangesAsked
<1>3. \A i \in 1..Len(logs') : Past(logs'[i], stops', watch'.last)
  BY <1>2 DEF SameRanges, Past
<1>4. \A i, j \in 1..Len(logs') : i < j => Follows(logs'[i], logs'[j])
  BY DEF RangesAsked, SameRanges, Follows
<1> QED
  BY <1>3, <1>4 DEF RangesAsked

\* What a socket has heard is as it was when neither its record nor last changed, and the
\* same ranges are asked for.
LEMMA ServedStays ==
    ASSUME NEW s \in Sockets, FeedTypes, Served(s), now \in Int, now' \in Int, now <= now',
           subs'[s] = subs[s], heard'[s] = heard[s], gone \subseteq gone',
           watch'.last = watch.last \/ subs[s] = "none",
           NotYet(s) => \/ watch'.phase = "idle"
                        \/ watch'.phase = "head" /\ watch'.since >= heard[s].since,
           watch'.last \in Nat, GoesOn, SameRanges
    PROVE  Served(s)'
<1>0. heard[s] \in HeardType /\ Len(heard[s].heads) \in Nat
  BY DEF FeedTypes, HeardType
<1>1. HeadsHeard(s)'
  <2>1. CASE heard[s].heads = <<>>
    BY <2>1 DEF Served, HeadsHeard
  <2>2. CASE heard[s].heads # <<>>
    <3>1. watch'.last = watch.last
      BY <2>2 DEF Served, HeadsHeard
    <3> QED
      BY <2>2, <3>1 DEF Served, HeadsHeard
  <2> QED
    BY <2>1, <2>2
<1>2. StartKept(s)'
  <2>1. heard'[s].since <= now'
    BY <1>0 DEF Served, StartKept, HeardType
  <2>2. NotYet(s)' => NotYet(s) /\ watch'.last = watch.last
    BY DEF NotYet
  <2> QED
    BY <2>1, <2>2 DEF Served, StartKept
<1>3. RangesHeard(s)'
  BY RangesStay DEF Served
<1> QED
  BY <1>1, <1>2, <1>3 DEF Served

\* The interval fires: a tick begins at the instant it is.
LEMMA PollKeepsFeed ==
    ASSUME Reads, Feed, Poll
    PROVE  Feed'
<1>1. /\ running /\ watch.phase = "idle"
      /\ watch' = [watch EXCEPT !.phase = "head", !.since = now]
      /\ UNCHANGED <<readVars, subs, joins, running, logs, heard, gone, raced, stops, now>>
      /\ watch \in WatchType /\ now \in Nat
  BY DEF Poll, Feed, FeedTypes, Reads, ReadTypes
<1>2. watch' \in WatchType /\ watch'.phase = "head" /\ watch'.since = now /\ watch'.last = watch.last
  BY <1>1 DEF WatchType
<1>3. FeedTypes'
  BY <1>1, <1>2 DEF Feed, FeedTypes
<1>4. WatchKept'
  BY <1>1, <1>2 DEF Feed, WatchKept
<1>9. GoesOn /\ SameRanges /\ watch'.last \in Nat /\ watch.last \in Nat
  BY <1>1, <1>2 DEF GoesOn, SameRanges, Feed, FeedTypes, WatchType
<1>10. RangesAsked'
  BY <1>9, AskedStays DEF Feed
<1>5. ASSUME NEW s \in Sockets
      PROVE  Served(s)'
  <2>1. Served(s) /\ heard[s].since <= now
    BY DEF Feed, Served, StartKept
  <2> QED
    BY <1>1, <1>2, <1>9, <2>1, ServedStays DEF Feed
<1> QED
  BY <1>3, <1>4, <1>5, <1>10 DEF Feed

\* A tick that fails, or reads a head that is not new, ends where it began.
LEMMA QuietTickKeepsFeed ==
    ASSUME Reads, Feed, watch' = Idle(watch.last),
           UNCHANGED <<subs, running, logs, heard, gone, raced, stops, now>>
    PROVE  Feed'
<1>1. watch' \in WatchType /\ watch'.phase = "idle" /\ watch'.since = 0 /\ watch'.last = watch.last
  BY DEF Feed, FeedTypes, WatchType, Idle
<1>2. now \in Nat
  BY DEF Reads, ReadTypes
<1>3. FeedTypes'
  BY <1>1 DEF Feed, FeedTypes
<1>4. WatchKept'
  BY <1>1, <1>2 DEF Feed, WatchKept
<1>9. GoesOn /\ SameRanges /\ watch'.last \in Nat /\ watch.last \in Nat
  BY <1>1 DEF GoesOn, SameRanges, Feed, FeedTypes, WatchType
<1>10. RangesAsked'
  BY <1>9, AskedStays DEF Feed
<1>5. ASSUME NEW s \in Sockets
      PROVE  Served(s)'
  <2>1. Served(s)
    BY DEF Feed
  <2> QED
    BY <1>1, <1>2, <1>9, <2>1, ServedStays DEF Feed
<1> QED
  BY <1>3, <1>4, <1>5, <1>10 DEF Feed

\* The steps of the reads, and time, leave the subscriptions alone.
LEMMA FeedStays ==
    ASSUME Reads, Feed, UNCHANGED feedVars, now' \in Nat, now <= now'
    PROVE  Feed'
<1>0. UNCHANGED <<subs, running, watch, logs, heard, gone, raced, stops>> /\ now \in Nat
  BY DEF feedVars, Reads, ReadTypes
<1>1. FeedTypes'
  BY <1>0 DEF Feed, FeedTypes
<1>2. WatchKept'
  <2>1. watch.since \in Nat
    BY DEF Feed, FeedTypes, WatchType
  <2>2. watch'.since <= now'
    BY <1>0, <2>1 DEF Feed, WatchKept
  <2> QED
    BY <1>0, <2>2 DEF Feed, WatchKept
<1>9. GoesOn /\ SameRanges /\ watch'.last \in Nat /\ watch.last \in Nat
  BY <1>0 DEF GoesOn, SameRanges, Feed, FeedTypes, WatchType
<1>10. RangesAsked'
  BY <1>9, AskedStays DEF Feed
<1>3. ASSUME NEW s \in Sockets
      PROVE  Served(s)'
  <2>1. Served(s) /\ FeedTypes
    BY DEF Feed
  <2>2. NotYet(s) => \/ watch'.phase = "idle"
                     \/ watch'.phase = "head" /\ watch'.since >= heard[s].since
    BY <1>0, <2>1 DEF Served, StartKept
  <2> QED
    BY <1>0, <1>9, <2>1, <2>2, ServedStays
<1> QED
  BY <1>1, <1>2, <1>3, <1>10 DEF Feed

\* An answer about logs arrives.
LEMMA LogsReadKeepsFeed ==
    ASSUME Reads, Feed, LogsRead
    PROVE  Feed'
<1>0. UNCHANGED <<subs, running, watch, heard, gone, raced, stops, now>> /\ now \in Nat
  BY DEF LogsRead, Reads, ReadTypes
<1>1. PICK i \in DOMAIN logs, answer \in {"logs", "failed"} :
         logs' = [logs EXCEPT ![i].answer = answer]
  BY DEF LogsRead
<1>2. /\ logs' \in Seq(RangeType) /\ Len(logs') = Len(logs)
      /\ \A j \in 1..Len(logs) : /\ logs'[j].from = logs[j].from
                                 /\ logs'[j].to = logs[j].to
                                 /\ logs'[j].stops = logs[j].stops
  <2>1. logs \in Seq(RangeType) /\ DOMAIN logs = 1..Len(logs)
    BY DEF Feed, FeedTypes
  <2>2. [logs[i] EXCEPT !.answer = answer] \in RangeType
    <3>1. logs[i] \in RangeType
      BY <2>1
    <3> QED
      BY <3>1 DEF RangeType
  <2>3. logs' \in Seq(RangeType) /\ Len(logs') = Len(logs)
    BY <1>1, <2>1, <2>2
  <2>4. \A j \in 1..Len(logs) : logs'[j] = IF j = i THEN [logs[i] EXCEPT !.answer = answer] ELSE logs[j]
    BY <1>1, <2>1
  <2>5. \A j \in 1..Len(logs) : logs[j] \in RangeType
    BY <2>1
  <2>6. /\ [logs[i] EXCEPT !.answer = answer].from = logs[i].from
        /\ [logs[i] EXCEPT !.answer = answer].to = logs[i].to
        /\ [logs[i] EXCEPT !.answer = answer].stops = logs[i].stops
    BY <2>5 DEF RangeType
  <2> QED
    BY <2>3, <2>4, <2>6
<1>3. FeedTypes'
  BY <1>0, <1>2 DEF Feed, FeedTypes
<1>4. WatchKept'
  BY <1>0 DEF Feed, WatchKept
<1>9. GoesOn /\ SameRanges /\ watch'.last \in Nat /\ watch.last \in Nat
  BY <1>0, <1>2 DEF GoesOn, SameRanges, Feed, FeedTypes, WatchType
<1>10. RangesAsked'
  BY <1>9, AskedStays DEF Feed
<1>5. ASSUME NEW s \in Sockets
      PROVE  Served(s)'
  <2>1. Served(s) /\ FeedTypes
    BY DEF Feed
  <2>2. NotYet(s) => \/ watch'.phase = "idle"
                     \/ watch'.phase = "head" /\ watch'.since >= heard[s].since
    BY <1>0, <2>1 DEF Served, StartKept
  <2> QED
    BY <1>0, <1>9, <2>1, <2>2, ServedStays
<1> QED
  BY <1>3, <1>4, <1>5, <1>10 DEF Feed

\* A subscription that starts the watcher finds it without a block to go on from; another
\* one joins what is under way.
LEMMA SubscribeKeepsFeed ==
    ASSUME Reads, Feed, NEW s \in Sockets, NEW kind \in {"newHeads", "logs"}, Subscribe(s, kind)
    PROVE  Feed'
<1> DEFINE since == IF running \/ raced \/ watch.phase # "idle" THEN 0 ELSE now
           starts == ~running /\ watch.phase = "idle"
<1>0. /\ subs[s] = "none" /\ subs' = [subs EXCEPT ![s] = kind]
      /\ heard' = [heard EXCEPT ![s] = Hearing(since)]
      /\ running' = TRUE
      /\ UNCHANGED <<logs, gone, raced, stops, now>>
      /\ now \in Nat
      /\ FeedTypes /\ WatchKept /\ RangesAsked
      /\ \A q \in Sockets : Served(q)
  BY DEF Subscribe, Settled, Feed, Reads, ReadTypes
<1>1. watch' = IF starts THEN [watch EXCEPT !.phase = "head", !.since = now] ELSE watch
  BY DEF Subscribe, Settled
<1>2. /\ watch' \in WatchType /\ watch'.last = watch.last /\ watch'.from = watch.from
      /\ watch'.head = watch.head
      /\ starts => watch'.phase = "head" /\ watch'.since = now
      /\ ~starts => watch' = watch
  BY <1>0, <1>1 DEF FeedTypes, WatchType
<1>3. Hearing(since) \in HeardType /\ Hearing(since).since = since
      /\ Hearing(since).heads = <<>> /\ Hearing(since).ranges = <<>>
  BY <1>0 DEF Hearing, HeardType
<1>4. /\ heard' \in [Sockets -> HeardType] /\ heard'[s] = Hearing(since)
      /\ subs' \in [Sockets -> {"newHeads", "logs", "none"}] /\ subs'[s] = kind
      /\ \A q \in Sockets : q # s => heard'[q] = heard[q] /\ subs'[q] = subs[q]
  BY <1>0, <1>3 DEF FeedTypes
<1> HIDE DEF since
<1>5. FeedTypes'
  BY <1>0, <1>2, <1>4 DEF FeedTypes
<1>6. WatchKept'
  <2>1. watch'.since <= now
    BY <1>0, <1>2 DEF WatchKept
  <2>2. watch'.phase = "missed" => Reaches(watch'.last, watch'.from, watch'.head)
    BY <1>0, <1>2 DEF WatchKept
  <2>3. \E q \in Sockets : subs'[q] # "none"
    BY <1>4
  <2> QED
    BY <1>0, <2>1, <2>2, <2>3 DEF WatchKept, Reaches
<1>9. GoesOn /\ SameRanges /\ watch'.last \in Nat
  BY <1>0, <1>2 DEF GoesOn, SameRanges, FeedTypes, WatchType
<1>10. RangesAsked'
  BY <1>0, <1>9, AskedStays
<1>7. Served(s)'
  <2>1. HeadsHeard(s)'
    BY <1>3, <1>4 DEF HeadsHeard
  <2>2. StartKept(s)'
    <3>1. heard'[s].since <= now'
      BY <1>0, <1>3, <1>4 DEF since
    <3>2. NotYet(s)' => starts /\ ~raced
      BY <1>3, <1>4 DEF NotYet, since
    <3>3. starts /\ ~raced => watch.last = 0
      BY <1>0 DEF WatchKept
    <3>4. starts /\ ~raced => heard'[s].since = now
      BY <1>3, <1>4 DEF since
    <3>5. NotYet(s)' => watch'.last = 0 /\ watch'.phase = "head" /\ watch'.since >= heard'[s].since
      BY <3>2, <3>3, <3>4, <1>0, <1>2
    <3> QED
      BY <3>1, <3>5, <1>3, <1>4 DEF StartKept
  <2>3. RangesHeard(s)'
    BY <1>3, <1>4 DEF RangesHeard
  <2> QED
    BY <2>1, <2>2, <2>3 DEF Served
<1>8. ASSUME NEW q \in Sockets, q # s
      PROVE  Served(q)'
  <2>1. NotYet(q) => running
    BY <1>0 DEF NotYet, WatchKept
  <2>2. NotYet(q) => \/ watch'.phase = "idle"
                     \/ watch'.phase = "head" /\ watch'.since >= heard[q].since
    BY <2>1, <1>0, <1>2 DEF Served, StartKept
  <2> QED
    BY <1>0, <1>2, <1>4, <1>8, <1>9, <2>2, ServedStays
<1> QED
  BY <1>5, <1>6, <1>7, <1>8, <1>10 DEF Feed

\* The last one to leave stops the watcher; what was asked for stays asked for.
LEMMA UnsubscribeKeepsFeed ==
    ASSUME Reads, Feed, NEW s \in Sockets, Unsubscribe(s)
    PROVE  Feed'
<1> DEFINE wanted == \E other \in Sockets \ {s} : subs[other] # "none"
<1>0. /\ subs[s] # "none" /\ subs' = [subs EXCEPT ![s] = "none"]
      /\ running' = wanted
      /\ stops' = IF running' THEN stops ELSE stops + 1
      /\ heard' = [heard EXCEPT ![s] = Hearing(0)]
      /\ raced' = (raced \/ (~running' /\ watch.phase # "idle"))
      /\ UNCHANGED <<logs, gone, now>>
      /\ now \in Nat
      /\ FeedTypes /\ WatchKept /\ RangesAsked
      /\ \A q \in Sockets : Served(q)
  BY DEF Unsubscribe, Settled, Feed, Reads, ReadTypes
<1>1. running
  BY <1>0 DEF WatchKept
<1>2. watch' = IF wanted THEN watch ELSE [watch EXCEPT !.last = 0]
  BY <1>1 DEF Unsubscribe, Settled, Forgotten
<1>3. /\ watch' \in WatchType /\ watch'.phase = watch.phase /\ watch'.since = watch.since
      /\ watch'.from = watch.from /\ watch'.head = watch.head
      /\ watch'.last = IF wanted THEN watch.last ELSE 0
  BY <1>0, <1>2 DEF FeedTypes, WatchType
<1>4. Hearing(0) \in HeardType /\ Hearing(0).since = 0
      /\ Hearing(0).heads = <<>> /\ Hearing(0).ranges = <<>>
  BY DEF Hearing, HeardType
<1>5. /\ heard' \in [Sockets -> HeardType] /\ heard'[s] = Hearing(0)
      /\ subs' \in [Sockets -> {"newHeads", "logs", "none"}] /\ subs'[s] = "none"
      /\ \A q \in Sockets : q # s => heard'[q] = heard[q] /\ subs'[q] = subs[q]
  BY <1>0, <1>4 DEF FeedTypes
<1>6. GoesOn /\ SameRanges /\ watch'.last \in Nat
  BY <1>0, <1>3 DEF GoesOn, SameRanges, FeedTypes, WatchType
<1>11. RangesAsked'
  BY <1>0, <1>6, AskedStays
<1>7. FeedTypes'
  BY <1>0, <1>3, <1>5 DEF FeedTypes
<1>8. WatchKept'
  <2>1. wanted <=> \E q \in Sockets : subs'[q] # "none"
    BY <1>5
  <2>2. watch.phase = "missed" => Reaches(watch'.last, watch.from, watch.head)
    <3>1. watch.last \in Nat
      BY <1>0 DEF FeedTypes, WatchType
    <3> QED
      BY <3>1, <1>0, <1>3 DEF WatchKept, Reaches, FeedTypes, WatchType
  <2>3. ~running' /\ ~raced' => watch'.phase = "idle" /\ watch'.last = 0
    BY <1>0, <1>3
  <2> HIDE DEF wanted
  <2>4. running' <=> \E q \in Sockets : subs'[q] # "none"
    BY <2>1, <1>0
  <2>5. watch'.since <= now'
    BY <1>0, <1>3 DEF WatchKept
  <2>6. watch'.phase = "missed" => Reaches(watch'.last, watch'.from, watch'.head)
    BY <2>2, <1>3
  <2> QED
    BY <2>3, <2>4, <2>5, <2>6 DEF WatchKept, Reaches
<1>9. Served(s)'
  <2>1. HeadsHeard(s)'
    BY <1>4, <1>5 DEF HeadsHeard
  <2>2. StartKept(s)'
    BY <1>0, <1>4, <1>5 DEF StartKept, NotYet
  <2>3. RangesHeard(s)'
    BY <1>4, <1>5 DEF RangesHeard
  <2> QED
    BY <2>1, <2>2, <2>3 DEF Served
<1>10. ASSUME NEW q \in Sockets, q # s
       PROVE  Served(q)'
  <2>1. watch'.last = watch.last \/ subs[q] = "none"
    BY <1>3, <1>10
  <2>2. NotYet(q) => \/ watch'.phase = "idle"
                     \/ watch'.phase = "head" /\ watch'.since >= heard[q].since
    BY <1>0, <1>3 DEF Served, StartKept
  <2> HIDE DEF wanted
  <2> QED
    BY <1>0, <1>5, <1>6, <1>10, <2>1, <2>2, ServedStays
<1> QED
  BY <1>7, <1>8, <1>9, <1>10, <1>11 DEF Feed

\* Blocks that a tick announces: some of those from on, in order, and the head.
Announced(blocks, from, head) ==
    /\ blocks \in Seq(Nat)
    /\ Len(blocks) \in Nat \ {0}
    /\ blocks[Len(blocks)] = head
    /\ \A k \in 1..Len(blocks) : blocks[k] \in Nat /\ from <= blocks[k] /\ blocks[k] <= head
    /\ \A i, j \in 1..Len(blocks) : i < j => blocks[i] < blocks[j]

\* After the heads a socket has heard, the announced blocks follow in order, and what is
\* missing between them was answered null or is too far back.
LEMMA HeadsFollow ==
    ASSUME NEW s \in Sockets, NEW from \in Nat, NEW head \in Nat, NEW blocks,
           Announced(blocks, from, head), Reaches(watch.last, from, head),
           FeedTypes, HeadsHeard(s), subs[s] = "newHeads", subs'[s] = subs[s],
           heard'[s] = [heard[s] EXCEPT !.heads = @ \o blocks],
           gone' = gone \cup 1..(head - MaxCatchUp) \cup ((from..head) \ ToSet(blocks)),
           watch'.last = head
    PROVE  HeadsHeard(s)'
<1> DEFINE H == heard[s].heads
           n == Len(H)
           m == Len(blocks)
<1>0. /\ H \in Seq(Nat) /\ n \in Nat /\ m \in Nat \ {0} /\ watch.last \in Nat
      /\ heard[s] \in HeardType /\ \A k \in 1..n : H[k] \in Nat
  <2>1. heard[s] \in HeardType /\ watch \in WatchType
    BY DEF FeedTypes
  <2>2. H \in Seq(Nat) /\ watch.last \in Nat
    BY <2>1 DEF HeardType, WatchType
  <2>3. m \in Nat \ {0}
    BY DEF Announced
  <2> HIDE DEF H
  <2>4. n \in Nat /\ \A k \in 1..n : H[k] \in Nat
    BY <2>2
  <2> QED
    BY <2>1, <2>2, <2>3, <2>4
<1>1. heard'[s].heads = H \o blocks
  BY <1>0 DEF HeardType
<1>2. /\ H \o blocks \in Seq(Nat)
      /\ Len(H \o blocks) = n + m
      /\ \A i \in 1..(n + m) : (H \o blocks)[i] = IF i <= n THEN H[i] ELSE blocks[i - n]
  BY <1>0, ConcatProperties DEF Announced
<1> DEFINE G == H \o blocks
<1>3. H # <<>> => 0 < H[n] /\ H[n] <= watch.last /\ (H[n] + 1)..watch.last \subseteq gone
  BY DEF HeadsHeard
<1>4. \A i \in 1..(n - 1) : H[i] < H[i + 1] /\ (H[i] + 1)..(H[i + 1] - 1) \subseteq gone
  BY DEF HeadsHeard
<1>9. /\ \A k \in 1..m : blocks[k] \in Nat /\ from <= blocks[k] /\ blocks[k] <= head
      /\ \A i, j \in 1..m : i < j => blocks[i] < blocks[j]
  BY DEF Announced
<1>10. \A x : x \in ToSet(blocks) <=> \E k \in 1..m : x = blocks[k]
  <2>1. DOMAIN blocks = 1..m
    BY DEF Announced
  <2> QED
    BY <2>1 DEF ToSet
<1> HIDE DEF H, G
<1>5. G[n + m] = head /\ 0 < head
  <2>1. n + m \in 1..(n + m) /\ ~(n + m <= n) /\ (n + m) - n = m
    BY <1>0
  <2>2. G[n + m] = blocks[m]
    BY <2>1, <1>2 DEF G
  <2> QED
    BY <2>2, <1>0 DEF Announced, Reaches
<1>6. ASSUME NEW i \in 1..(n + m - 1)
      PROVE  G[i] < G[i + 1] /\ (G[i] + 1)..(G[i + 1] - 1) \subseteq gone'
  <2>0. i \in Nat \ {0}
    BY <1>0
  <2>1. CASE i < n
    <3>1. i \in 1..(n - 1) /\ i <= n /\ i + 1 <= n /\ i \in 1..(n + m) /\ i + 1 \in 1..(n + m)
      <4>1. n \in Nat /\ m \in Nat
        BY <1>0
      <4> HIDE DEF n, m
      <4> QED
        BY ONLY <4>1, <2>0, <2>1
    <3>2. G[i] = H[i] /\ G[i + 1] = H[i + 1]
      BY <3>1, <1>2 DEF G
    <3> QED
      BY <3>1, <3>2, <1>4
  <2>2. CASE i = n
    <3>1. i \in 1..(n + m) /\ i + 1 \in 1..(n + m) /\ i <= n /\ ~(i + 1 <= n) /\ (i + 1) - n = 1
          /\ 1 \in 1..m /\ n \in 1..n
      BY <2>2, <1>0
    <3>2. G[i] = H[n] /\ G[i + 1] = blocks[1]
      BY <3>1, <2>2, <1>2 DEF G
    <3>3. H # <<>>
      BY <3>1, <1>0
    <3>4. /\ H[n] \in Nat /\ 0 < H[n] /\ H[n] <= watch.last /\ watch.last < from
          /\ blocks[1] \in Nat /\ from <= blocks[1] /\ blocks[1] <= head
      BY <3>1, <3>3, <1>0, <1>3 DEF Announced, Reaches
    <3>5. ASSUME NEW x \in (H[n] + 1)..(blocks[1] - 1)
          PROVE  x \in gone'
      <4>0. H[n] \in Nat /\ blocks[1] \in Nat /\ watch.last \in Nat /\ x \in Nat /\ H[n] + 1 <= x
        BY <3>4, <1>0
      <4>1. CASE x <= watch.last
        <5>1. (H[n] + 1)..watch.last \subseteq gone
          BY <3>3, <1>3
        <5>2. x \in (H[n] + 1)..watch.last
          BY ONLY <4>0, <4>1
        <5> QED
          BY <5>1, <5>2
      <4>2. CASE watch.last < x /\ x < from
        <5>1. x \in (watch.last + 1)..(from - 1)
          BY ONLY <4>0, <4>2, from \in Nat
        <5>2. watch.last # 0
          BY <3>4
        <5> QED
          BY <5>1, <5>2 DEF Reaches
      <4>3. CASE from <= x
        <5>1. x \in from..head
          BY <4>3, <3>4
        <5>2. ASSUME NEW k \in 1..m
              PROVE  x < blocks[k]
          <6>1. CASE k = 1
            BY <6>1, <3>4
          <6>2. CASE 1 < k
            <7>1. blocks[1] < blocks[k] /\ blocks[k] \in Nat
              BY <6>2, <3>1, <1>9
            <7> QED
              BY <7>1, <3>4
          <6> QED
            BY <6>1, <6>2, <1>0
        <5>3. x \notin ToSet(blocks)
          BY <5>2, <5>1, <1>9, <1>10
        <5> QED
          BY <5>1, <5>3
      <4>4. x <= watch.last \/ (watch.last < x /\ x < from) \/ from <= x
        BY ONLY <4>0, from \in Nat
      <4> QED
        BY ONLY <4>1, <4>2, <4>3, <4>4
    <3>6. H[n] < blocks[1]
      BY <3>4, <1>0
    <3> QED
      BY <3>2, <3>5, <3>6
  <2>3. CASE i > n
    <3> DEFINE k == i - n
    <3>1. i \in 1..(n + m) /\ i + 1 \in 1..(n + m) /\ ~(i <= n) /\ ~(i + 1 <= n) /\ (i + 1) - n = k + 1
          /\ k \in 1..m /\ k + 1 \in 1..m /\ k < k + 1
      <4>1. n \in Nat /\ m \in Nat /\ i \in 1..(n + m - 1)
        BY <1>0
      <4> HIDE DEF n, m
      <4> QED
        BY ONLY <4>1, <2>3
    <3>2. G[i] = blocks[k] /\ G[i + 1] = blocks[k + 1]
      <4>1. \A j \in 1..(n + m) : G[j] = IF j <= n THEN H[j] ELSE blocks[j - n]
        BY <1>2 DEF G
      <4> HIDE DEF n, m
      <4>2. G[i] = blocks[i - n] /\ G[i + 1] = blocks[(i + 1) - n]
        BY ONLY <3>1, <4>1
      <4> QED
        BY ONLY <3>1, <4>2
    <3> HIDE DEF k
    <3>3. /\ blocks[k] \in Nat /\ blocks[k + 1] \in Nat /\ blocks[k] < blocks[k + 1]
          /\ from <= blocks[k] /\ blocks[k + 1] <= head
      BY <3>1 DEF Announced
    <3>4. ASSUME NEW x \in (blocks[k] + 1)..(blocks[k + 1] - 1)
          PROVE  x \in gone'
      <4>1. x \in from..head
        BY <3>3
      <4>2. \A j \in 1..m : x # blocks[j]
        <5> TAKE j \in 1..m
        <5>0. blocks[j] \in Nat
          BY <1>9
        <5>1. CASE j < k
          <6>1. blocks[j] < blocks[k]
            BY <5>1, <3>1, <1>9
          <6> QED
            BY <6>1, <5>0, <3>3
        <5>2. CASE j = k
          BY <5>2, <3>3
        <5>3. CASE j = k + 1
          BY <5>3, <3>3
        <5>4. CASE k + 1 < j
          <6>1. blocks[k + 1] < blocks[j]
            BY <5>4, <3>1, <1>9
          <6> QED
            BY <6>1, <5>0, <3>3
        <5>5. j \in Int /\ k \in Int
          BY <3>1
        <5>6. j < k \/ j = k \/ j = k + 1 \/ k + 1 < j
          BY ONLY <5>5
        <5> QED
          BY ONLY <5>1, <5>2, <5>3, <5>4, <5>6
      <4>3. x \notin ToSet(blocks)
        BY <4>2, <1>10
      <4> QED
        BY <4>1, <4>3
    <3> QED
      BY <3>2, <3>3, <3>4
  <2>4. i < n \/ i = n \/ i > n
    BY <2>0, <1>0
  <2> QED
    BY ONLY <2>1, <2>2, <2>3, <2>4
<1>7. heard'[s].heads = G /\ Len(G) = n + m
  BY <1>1, <1>2 DEF G, H
<1>8. (head + 1)..head = {}
  OBVIOUS
<1>11. heard'[s].heads # <<>> =>
          LET h == heard'[s].heads[Len(heard'[s].heads)]
          IN  0 < h /\ h <= watch'.last /\ (h + 1)..watch'.last \subseteq gone'
  <2>1. heard'[s].heads[Len(heard'[s].heads)] = G[n + m]
    BY <1>7
  <2>2. 0 < G[n + m] /\ G[n + m] <= watch'.last
    BY <1>5
  <2>3. (G[n + m] + 1)..watch'.last \subseteq gone'
    BY <1>5, <1>8
  <2> QED
    BY ONLY <2>1, <2>2, <2>3
<1>12. \A i \in 1..(Len(heard'[s].heads) - 1) :
          LET h == heard'[s].heads[i]
              next == heard'[s].heads[i + 1]
          IN  h < next /\ (h + 1)..(next - 1) \subseteq gone'
  <2> TAKE i \in 1..(Len(heard'[s].heads) - 1)
  <2>1. i \in 1..(n + m - 1)
    BY <1>7
  <2> HIDE DEF n, m
  <2>2. G[i] < G[i + 1] /\ (G[i] + 1)..(G[i + 1] - 1) \subseteq gone'
    BY <1>6, <2>1
  <2> QED
    BY <2>2, <1>7
<1> QED
  BY <1>11, <1>12 DEF HeadsHeard

\* The range asked for after an announcement follows all that were asked for or sent.
LEMMA RangesFollow ==
    ASSUME NEW from \in Nat, NEW head \in Nat,
           Reaches(watch.last, from, head), FeedTypes, RangesAsked,
           logs' = AskedFor(from, head), watch'.last = head, stops' = stops,
           \A s \in Sockets : RangesHeard(s) /\ heard'[s].ranges = heard[s].ranges
    PROVE  /\ logs' \in Seq(RangeType)
           /\ RangesAsked'
           /\ \A s \in Sockets : RangesHeard(s)'
<1>0. /\ logs \in Seq(RangeType) /\ Len(logs) \in Nat /\ \A i \in 1..Len(logs) : logs[i] \in RangeType
      /\ watch.last \in Nat /\ stops \in Nat
      /\ \A s \in Sockets : heard[s].ranges \in Seq(RangeType)
  BY DEF FeedTypes, HeardType, WatchType
<1>1. GoesOn /\ watch'.last \in Nat
  BY <1>0 DEF Reaches, GoesOn
<1>2. CASE logs' = logs
  <2>1. SameRanges
    BY <1>2 DEF SameRanges
  <2> QED
    BY <1>0, <1>1, <1>2, <2>1, AskedStays, RangesStay
<1>3. CASE logs' # logs
  <2> DEFINE new == [from |-> from, to |-> head, answer |-> "out", stops |-> stops]
  <2>1. logs' = Append(logs, new) /\ new \in RangeType
    BY <1>0, <1>3 DEF AskedFor, RangeType
  <2>2. Past(new, stops, head)
    BY <1>0 DEF Past, Reaches
  <2>3. ASSUME NEW range \in RangeType, Past(range, stops, watch.last)
        PROVE  Past(range, stops, head) /\ Follows(range, new)
    BY <1>0, <2>3 DEF Past, Reaches, Follows, RangeType
  <2> HIDE DEF new
  <2>4. /\ Len(logs') = Len(logs) + 1 /\ logs' \in Seq(RangeType)
        /\ \A i \in 1..Len(logs) : logs'[i] = logs[i]
        /\ logs'[Len(logs) + 1] = new
    BY <1>0, <2>1, AppendProperties
  <2>5. \A i \in 1..Len(logs') : i \in 1..Len(logs) \/ i = Len(logs) + 1
    BY <1>0, <2>4
  <2>6. RangesAsked'
    <3>1. \A i \in 1..Len(logs') : Past(logs'[i], stops, head)
      BY <1>0, <2>2, <2>3, <2>4, <2>5 DEF RangesAsked
    <3>2. ASSUME NEW i \in 1..Len(logs'), NEW j \in 1..Len(logs'), i < j
          PROVE  Follows(logs'[i], logs'[j])
      <4>1. i \in 1..Len(logs) /\ logs'[i] = logs[i]
        BY <1>0, <2>4, <3>2
      <4>2. CASE j \in 1..Len(logs)
        BY <2>4, <3>2, <4>1, <4>2 DEF RangesAsked
      <4>3. CASE j = Len(logs) + 1
        BY <1>0, <2>3, <2>4, <4>1, <4>3 DEF RangesAsked
      <4> QED
        BY <2>5, <4>2, <4>3
    <3> QED
      BY <3>1, <3>2 DEF RangesAsked
  <2>7. ASSUME NEW s \in Sockets
        PROVE  RangesHeard(s)'
    <3> DEFINE sent == heard[s].ranges[Len(heard[s].ranges)]
    <3>1. CASE heard[s].ranges = <<>>
      BY <3>1 DEF RangesHeard
    <3>2. CASE heard[s].ranges # <<>>
      <4>1. sent \in RangeType /\ Past(sent, stops, watch.last) /\ RangesHeard(s)
        BY <1>0, <3>2 DEF RangesHeard
      <4>2. \A i \in 1..Len(logs) : Follows(sent, logs[i])
        BY <3>2 DEF RangesHeard
      <4>3. heard'[s].ranges = heard[s].ranges
        OBVIOUS
      <4> HIDE DEF sent
      <4>4. Past(sent, stops, head) /\ Follows(sent, new)
        BY <2>3, <4>1
      <4>5. \A i \in 1..Len(logs') : Follows(sent, logs'[i])
        BY <2>4, <2>5, <4>2, <4>4
      <4> QED
        BY <4>1, <4>3, <4>4, <4>5 DEF RangesHeard, sent
    <3> QED
      BY <3>1, <3>2
  <2> QED
    BY <2>4, <2>6, <2>7
<1> QED
  BY <1>2, <1>3

\* A tick that announces leaves every socket served.  The tick of a socket that had not
\* heard a head yet read the one it starts with after the subscription.
LEMMA AnnounceKeepsFeed ==
    ASSUME Reads, Feed, NEW from \in Nat, NEW head \in Nat, NEW blocks,
           Announced(blocks, from, head), Reaches(watch.last, from, head),
           watch.phase = "missed" \/ blocks[1] + Lag >= watch.since,
           watch.phase # "idle",
           Announces(blocks, from, head),
           UNCHANGED <<subs, running, raced, stops, now>>
    PROVE  Feed'
<1>0. /\ heard' = [s \in Sockets |->
                     IF subs[s] = "newHeads" THEN [heard[s] EXCEPT !.heads = @ \o blocks] ELSE heard[s]]
      /\ gone' = gone \cup 1..(head - MaxCatchUp) \cup ((from..head) \ ToSet(blocks))
      /\ logs' = AskedFor(from, head)
      /\ watch' = Idle(head)
      /\ FeedTypes /\ WatchKept /\ RangesAsked /\ \A s \in Sockets : Served(s)
      /\ now \in Nat
  BY DEF Announces, Feed, Reads, ReadTypes
<1>1. watch' \in WatchType /\ watch'.phase = "idle" /\ watch'.since = 0 /\ watch'.last = head
  BY <1>0 DEF Idle, WatchType
<1>2. ASSUME NEW s \in Sockets, subs[s] = "newHeads"
      PROVE  /\ heard'[s] \in HeardType
             /\ heard'[s] = [heard[s] EXCEPT !.heads = @ \o blocks]
             /\ heard'[s].heads = heard[s].heads \o blocks
             /\ heard'[s].ranges = heard[s].ranges
             /\ heard'[s].since = heard[s].since
  <2>1. heard[s] \in HeardType /\ heard[s].heads \in Seq(Nat)
    BY <1>0 DEF FeedTypes, HeardType
  <2>2. heard[s].heads \o blocks \in Seq(Nat)
    BY <2>1, ConcatProperties DEF Announced
  <2>3. heard'[s] = [heard[s] EXCEPT !.heads = @ \o blocks]
    BY <1>0, <1>2
  <2> QED
    BY <2>1, <2>2, <2>3 DEF HeardType
<1>3. ASSUME NEW s \in Sockets, subs[s] # "newHeads"
      PROVE  heard'[s] = heard[s]
  BY <1>0, <1>3
<1>4. ASSUME NEW s \in Sockets
      PROVE  heard'[s] \in HeardType /\ heard'[s].ranges = heard[s].ranges
             /\ heard'[s].since = heard[s].since
  BY <1>0, <1>2, <1>3 DEF FeedTypes
<1>8. logs' \in Seq(RangeType) /\ RangesAsked' /\ \A s \in Sockets : RangesHeard(s)'
  BY <1>0, <1>1, <1>4, RangesFollow DEF Served
<1>5. FeedTypes'
  <2>1. heard' \in [Sockets -> HeardType]
    BY <1>0, <1>4
  <2> QED
    BY <2>1, <1>0, <1>1, <1>8 DEF FeedTypes
<1>6. WatchKept'
  BY <1>0, <1>1 DEF WatchKept
<1>7. ASSUME NEW s \in Sockets
      PROVE  Served(s)'
  <2>0. Served(s) /\ subs'[s] = subs[s]
    BY <1>0
  <2>1. RangesHeard(s)'
    BY <1>8
  <2>2. CASE subs[s] = "newHeads"
    <3>1. HeadsHeard(s)'
      BY <2>0, <2>2, <1>0, <1>1, <1>2, HeadsFollow DEF Served
    <3>2. heard[s].heads \in Seq(Nat) /\ heard'[s].heads = heard[s].heads \o blocks
          /\ heard[s].since \in Nat
      BY <2>2, <1>0, <1>2 DEF FeedTypes, HeardType
    <3>3. heard'[s].heads # <<>> /\ ~NotYet(s)'
      <4>1. Len(heard'[s].heads) # 0
        BY <3>2, ConcatProperties DEF Announced
      <4> QED
        BY <4>1 DEF NotYet
    <3>4. heard[s].since > 0 => heard'[s].heads[1] >= heard[s].since - Lag
      <4>1. CASE heard[s].heads = <<>>
        <5>1. heard'[s].heads[1] = blocks[1] /\ blocks[1] \in Nat
          <6>1. heard'[s].heads = blocks
            BY <3>2, <4>1, ConcatEmptySeq DEF Announced
          <6> QED
            BY <6>1 DEF Announced
        <5>2. heard[s].since > 0 => watch.phase = "head" /\ watch.since >= heard[s].since
          BY <4>1, <2>0, <2>2 DEF Served, StartKept, NotYet
        <5>3. watch.since \in Nat
          BY <1>0 DEF FeedTypes, WatchType
        <5>4. Lag \in Nat
          BY ReadConstants
        <5>5. CASE heard[s].since > 0
          <6>0. watch.phase = "head" /\ watch.since >= heard[s].since
            BY ONLY <5>2, <5>5
          <6>1. blocks[1] + Lag >= watch.since /\ watch.since >= heard[s].since
            BY <6>0
          <6>2. blocks[1] \in Nat /\ watch.since \in Nat /\ Lag \in Nat /\ heard[s].since \in Nat
            BY <5>1, <5>3, <5>4, <3>2
          <6>3. blocks[1] >= heard[s].since - Lag
            BY ONLY <6>1, <6>2
          <6> QED
            BY <6>3, <5>1
        <5> QED
          BY <5>5
      <4>2. CASE heard[s].heads # <<>>
        <5>1. 1 <= Len(heard[s].heads) /\ 1 \in 1..(Len(heard[s].heads) + Len(blocks))
          BY <4>2, <3>2 DEF Announced
        <5>2. heard'[s].heads[1] = heard[s].heads[1]
          BY <5>1, <3>2, ConcatProperties DEF Announced
        <5> QED
          BY <5>2, <4>2, <2>0 DEF Served, StartKept
      <4> QED
        BY <4>1, <4>2
    <3>5. StartKept(s)'
      BY <3>3, <3>4, <1>0, <1>4, <2>0 DEF Served, StartKept
    <3> QED
      BY <2>1, <3>1, <3>5 DEF Served
  <2>3. CASE subs[s] # "newHeads"
    <3>1. heard'[s] = heard[s] /\ heard[s].heads = <<>>
      BY <2>0, <2>3, <1>3 DEF Served, HeadsHeard
    <3>2. HeadsHeard(s)'
      BY <3>1, <2>0, <2>3 DEF HeadsHeard
    <3>3. StartKept(s)'
      BY <3>1, <2>0, <2>3, <1>0 DEF Served, StartKept, NotYet
    <3> QED
      BY <2>1, <3>2, <3>3 DEF Served
  <2> QED
    BY <2>2, <2>3
<1> QED
  BY <1>5, <1>6, <1>7, <1>8 DEF Feed

\* The head is read: it is announced, or what was stepped over is asked for first.
LEMMA HeadReadKeeps ==
    ASSUME Reads, Feed, HeadRead
    PROVE  Reads' /\ Feed'
<1>0. /\ watch.phase = "head" /\ watch \in WatchType /\ watch.last \in Nat /\ watch.since \in Nat
      /\ now \in Nat
      /\ UNCHANGED <<requests, count, waiters, load, subs, joins, running, raced, stops, now>>
  BY DEF HeadRead, Feed, FeedTypes, WatchType, Reads, ReadTypes
<1>1. PICK head \in Heads(watch.since) :
         /\ cached' = Entry(head, "feed")
         /\ IF head <= watch.last
            THEN watch' = Idle(watch.last) /\ UNCHANGED <<heard, logs, gone>>
            ELSE IF First(head) = head
            THEN Announces(<<head>>, head, head)
            ELSE /\ watch' = [watch EXCEPT !.phase = "missed", !.since = now,
                       !.last = LastMeanwhile(head), !.from = First(head), !.head = head]
                 /\ UNCHANGED <<heard, logs, gone>>
  BY DEF HeadRead
<1>2. head \in Nat /\ 0 < head /\ head + Lag >= watch.since
  BY <1>0, <1>1 DEF Heads
<1>3. Reads'
  BY <1>0, <1>1, <1>2, FeedKeepsReads
<1>4. ASSUME watch.last < head
      PROVE  First(head) \in Nat /\ Reaches(watch.last, First(head), head)
  <2>1. CASE watch.last = 0
    BY <2>1, <1>2 DEF First, Reaches
  <2>2. CASE watch.last # 0
    <3> DEFINE reach == head - MaxCatchUp + 1
    <3>1. First(head) = IF watch.last + 1 > reach THEN watch.last + 1 ELSE reach
      BY <2>2 DEF First
    <3>2. MaxCatchUp \in Nat \ {0}
      BY FeedConstants
    <3>3. CASE watch.last + 1 > reach
      <4>1. First(head) = watch.last + 1
        BY <3>1, <3>3
      <4>2. (watch.last + 1)..((watch.last + 1) - 1) = {}
        BY <1>0
      <4> QED
        BY <4>1, <4>2, <1>0, <1>2, <1>4 DEF Reaches
    <3>4. CASE ~(watch.last + 1 > reach)
      <4>1. First(head) = head - MaxCatchUp + 1 /\ watch.last + 1 <= First(head)
        BY <3>1, <3>2, <3>4, <1>0, <1>2
      <4>2. (watch.last + 1)..(First(head) - 1) \subseteq 1..(head - MaxCatchUp)
        BY <4>1, <3>2, <1>0, <1>2
      <4> QED
        BY <4>1, <4>2, <3>2, <1>0, <1>2 DEF Reaches
    <3> QED
      BY <3>3, <3>4
  <2> QED
    BY <2>1, <2>2
<1>5. CASE head <= watch.last
  BY <1>0, <1>1, <1>3, <1>5, QuietTickKeepsFeed
<1>6. CASE ~(head <= watch.last) /\ First(head) = head
  <2>1. Reaches(watch.last, head, head)
    BY <1>0, <1>2, <1>4, <1>6
  <2>2. Announced(<<head>>, head, head)
    BY <1>2 DEF Announced
  <2>3. <<head>>[1] + Lag >= watch.since
    BY <1>2
  <2>4. Announces(<<head>>, head, head)
    BY <1>1, <1>6
  <2> QED
    BY <2>1, <2>2, <2>3, <2>4, <1>0, <1>2, <1>3, AnnounceKeepsFeed
<1>7. CASE ~(head <= watch.last) /\ First(head) # head
  <2>1. /\ watch' = [watch EXCEPT !.phase = "missed", !.since = now,
                       !.last = LastMeanwhile(head), !.from = First(head), !.head = head]
        /\ UNCHANGED <<heard, logs, gone>>
        /\ watch.last < head
    BY <1>0, <1>1, <1>2, <1>7
  <2>2. First(head) \in Nat /\ Reaches(watch.last, First(head), head) /\ watch.last # 0
    BY <2>1, <1>4, <1>7 DEF First
  <2>3. /\ watch' \in WatchType /\ watch'.phase = "missed" /\ watch'.since = now
        /\ watch'.last = watch.last /\ watch'.from = First(head) /\ watch'.head = head
    BY <2>1, <2>2, <1>0, <1>2 DEF WatchType, LastMeanwhile
  <2>4. FeedTypes'
    BY <2>1, <2>3, <1>0 DEF Feed, FeedTypes
  <2>5. WatchKept'
    <3>1. Reaches(watch'.last, watch'.from, watch'.head)
      BY <2>2, <2>3
    <3>2. running' \/ raced'
      BY <1>0 DEF Feed, WatchKept
    <3>3. running' <=> \E s \in Sockets : subs'[s] # "none"
      BY <1>0 DEF Feed, WatchKept
    <3> QED
      BY <3>1, <3>2, <3>3, <2>3, <1>0 DEF WatchKept, Reaches
  <2>7. GoesOn /\ SameRanges /\ watch'.last \in Nat
    BY <2>1, <2>3, <1>0 DEF GoesOn, SameRanges
  <2>8. RangesAsked'
    BY <2>7, AskedStays DEF Feed
  <2>6. ASSUME NEW s \in Sockets
        PROVE  Served(s)'
    <3>1. Served(s) /\ FeedTypes
      BY DEF Feed
    <3>2. ~NotYet(s)
      BY <3>1, <2>2 DEF Served, StartKept
    <3> QED
      BY <3>1, <3>2, <2>1, <2>3, <2>7, <1>0, ServedStays
  <2> QED
    BY <1>3, <2>4, <2>5, <2>6, <2>8 DEF Feed
<1> QED
  BY <1>5, <1>6, <1>7

\* The missed blocks are read: those there are, and the head, are announced.
LEMMA MissedReadKeeps ==
    ASSUME Reads, Feed, MissedRead
    PROVE  Reads' /\ Feed'
<1>0. /\ watch.phase = "missed" /\ watch.last \in Nat /\ watch.from \in Nat /\ watch.head \in Nat
      /\ Reaches(watch.last, watch.from, watch.head)
      /\ UNCHANGED <<requests, count, waiters, load, subs, joins, running, raced, stops, now>>
  BY DEF MissedRead, Feed, FeedTypes, WatchType, WatchKept
<1>1. PICK found \in InOrder(watch.from..(watch.head - 1)) :
         /\ cached' = CachedAfter(found)
         /\ Announces(found \o <<watch.head>>, watch.from, watch.head)
  BY DEF MissedRead
<1> DEFINE missed == watch.from..(watch.head - 1)
           blocks == found \o <<watch.head>>
<1>2. PICK n \in Nat : /\ found \in [1..n -> missed]
                       /\ \A i, j \in 1..Len(found) : i < j => found[i] < found[j]
  <2>1. PICK n \in 0..Cardinality(missed) : found \in [1..n -> missed]
    BY <1>1 DEF InOrder
  <2>2. n \in Nat
    BY <2>1
  <2>3. \A i, j \in 1..Len(found) : i < j => found[i] < found[j]
    BY <1>1 DEF InOrder
  <2> QED
    BY <2>1, <2>2, <2>3
<1>3. missed \subseteq Nat /\ \A b \in missed : watch.from <= b /\ b < watch.head
  BY <1>0
<1> HIDE DEF missed
<1>4. found \in Seq(Nat) /\ Len(found) = n /\ \A i \in 1..n : found[i] \in missed
  <2>1. found \in [1..n -> Nat]
    BY <1>2, <1>3
  <2>2. found \in Seq(Nat)
    BY <2>1, <1>2, SeqDef
  <2>3. DOMAIN found = 1..n
    BY <2>1
  <2> QED
    BY <2>2, <2>3, <1>2
<1>5. /\ blocks \in Seq(Nat) /\ Len(blocks) = n + 1
      /\ \A i \in 1..n : blocks[i] = found[i]
      /\ blocks[n + 1] = watch.head
  <2>1. <<watch.head>> \in Seq(Nat) /\ Len(<<watch.head>>) = 1 /\ <<watch.head>>[1] = watch.head
    BY <1>0
  <2>2. /\ blocks \in Seq(Nat) /\ Len(blocks) = n + 1
        /\ \A i \in 1..(n + 1) : blocks[i] = IF i <= n THEN found[i] ELSE <<watch.head>>[i - n]
    BY <2>1, <1>2, <1>4, ConcatProperties
  <2> HIDE DEF blocks
  <2>3. n + 1 \in 1..(n + 1) /\ ~(n + 1 <= n) /\ (n + 1) - n = 1
    BY <1>2
  <2>4. blocks[n + 1] = watch.head
    BY <2>1, <2>2, <2>3
  <2> QED
    BY <2>2, <2>4, <1>2
<1>6. Announces(blocks, watch.from, watch.head)
  BY <1>1
<1> HIDE DEF blocks
<1>7. Announced(blocks, watch.from, watch.head)
  <2>1. ASSUME NEW k \in 1..(n + 1)
        PROVE  blocks[k] \in Nat /\ watch.from <= blocks[k] /\ blocks[k] <= watch.head
    <3>1. CASE k \in 1..n
      BY <3>1, <1>3, <1>4, <1>5, <1>0
    <3>2. CASE k = n + 1
      BY <3>2, <1>0, <1>5 DEF Reaches
    <3> QED
      BY <3>1, <3>2, <1>2
  <2>2. ASSUME NEW i \in 1..(n + 1), NEW j \in 1..(n + 1), i < j
        PROVE  blocks[i] < blocks[j]
    <3>1. i \in 1..n /\ blocks[i] = found[i] /\ found[i] < watch.head
      BY <2>2, <1>2, <1>3, <1>4, <1>5
    <3>2. CASE j \in 1..n
      BY <3>1, <3>2, <2>2, <1>2, <1>4, <1>5
    <3>3. CASE j = n + 1
      BY <3>1, <3>3, <1>5
    <3> QED
      BY <3>2, <3>3, <1>2
  <2> QED
    BY <2>1, <2>2, <1>2, <1>5 DEF Announced
<1>8. Feed'
  BY <1>0, <1>6, <1>7, AnnounceKeepsFeed
<1>9. Reads'
  <2>1. CASE found = <<>>
    BY <2>1, <1>0, <1>1, FeedKeepsReads DEF CachedAfter
  <2>2. CASE found # <<>>
    <3>1. n \in 1..n
      BY <2>2, <1>2, <1>4
    <3>2. found[Len(found)] \in Nat
      BY <3>1, <1>3, <1>4
    <3>3. cached' = Entry(found[Len(found)], "feed")
      BY <2>2, <1>1 DEF CachedAfter
    <3> QED
      BY <3>2, <3>3, <1>0, FeedKeepsReads
  <2> QED
    BY <2>1, <2>2
<1> QED
  BY <1>8, <1>9

\* The range asked for first is delivered first, to whoever is there.
LEMMA DeliverKeepsFeed ==
    ASSUME Reads, Feed, DeliverLogs
    PROVE  Feed'
<1>0. /\ UNCHANGED <<subs, running, watch, gone, raced, stops, now>>
      /\ FeedTypes /\ WatchKept /\ RangesAsked /\ \A s \in Sockets : Served(s)
      /\ now \in Nat
  BY DEF DeliverLogs, Feed, Reads, ReadTypes
<1> DEFINE range == logs[1]
           R(s) == heard[s].ranges
           sent(s) == logs[1].answer = "logs" /\ subs[s] = "logs"
<1>1. /\ 1 \in DOMAIN logs
      /\ logs' = RemoveAt(logs, 1)
      /\ heard' = [s \in Sockets |->
                     IF sent(s) THEN [heard[s] EXCEPT !.ranges = Append(@, range)] ELSE heard[s]]
  BY DEF DeliverLogs, Deliverable
<1>2. /\ logs \in Seq(RangeType) /\ Len(logs) \in Nat /\ 1 \in 1..Len(logs)
      /\ \A i \in 1..Len(logs) : logs[i] \in RangeType
  BY <1>0, <1>1 DEF FeedTypes
<1>3. /\ logs' \in Seq(RangeType) /\ Len(logs') = Len(logs) - 1
      /\ \A j \in 1..Len(logs') : j + 1 \in 1..Len(logs) /\ logs'[j] = logs[j + 1]
  <2>1. /\ logs' \in Seq(RangeType) /\ Len(logs') = Len(logs) - 1
        /\ \A j \in 1..(Len(logs) - 1) : logs'[j] = IF j < 1 THEN logs[j] ELSE logs[j + 1]
    BY <1>1, <1>2, RemoveAtShifts
  <2> QED
    BY <2>1, <1>2
<1>4. /\ range \in RangeType /\ Past(range, stops, watch.last)
      /\ \A j \in 1..Len(logs') : Follows(range, logs'[j])
  <2>1. \A j \in 1..Len(logs') : 1 < j + 1
    BY <1>2, <1>3
  <2> QED
    BY <1>0, <1>2, <1>3, <2>1 DEF RangesAsked
<1> HIDE DEF range
<1>5. ASSUME NEW s \in Sockets
      PROVE  /\ heard'[s] \in HeardType
             /\ heard'[s].heads = heard[s].heads
             /\ heard'[s].since = heard[s].since
             /\ heard'[s].ranges = IF sent(s) THEN Append(R(s), range) ELSE R(s)
             /\ R(s) \in Seq(RangeType)
  <2>1. heard[s] \in HeardType /\ R(s) \in Seq(RangeType)
    BY <1>0 DEF FeedTypes, HeardType
  <2>2. Append(R(s), range) \in Seq(RangeType)
    BY <2>1, <1>4, AppendProperties
  <2>3. heard'[s] = IF sent(s) THEN [heard[s] EXCEPT !.ranges = Append(@, range)] ELSE heard[s]
    BY <1>1
  <2> QED
    BY <2>1, <2>2, <2>3 DEF HeardType
<1>6. FeedTypes'
  <2>1. heard' \in [Sockets -> HeardType]
    BY <1>1, <1>5
  <2> QED
    BY <2>1, <1>0, <1>3 DEF FeedTypes
<1>7. WatchKept'
  BY <1>0 DEF WatchKept
<1>8. RangesAsked'
  <2>1. \A j \in 1..Len(logs') : Past(logs'[j], stops', watch'.last)
    BY <1>0, <1>3 DEF RangesAsked
  <2>2. ASSUME NEW i \in 1..Len(logs'), NEW j \in 1..Len(logs'), i < j
        PROVE  Follows(logs'[i], logs'[j])
    <3>1. i + 1 < j + 1
      BY <1>3, <2>2
    <3> QED
      BY <1>0, <1>3, <3>1 DEF RangesAsked
  <2> QED
    BY <2>1, <2>2 DEF RangesAsked
<1>9. ASSUME NEW s \in Sockets
      PROVE  RangesHeard(s)'
  <2>0. RangesHeard(s) /\ R(s) \in Seq(RangeType) /\ Len(R(s)) \in Nat
    BY <1>0, <1>5 DEF Served
  <2>1. CASE ~sent(s)
    <3>1. heard'[s].ranges = R(s)
      BY <1>5, <2>1
    <3>2. R(s) # <<>> => \A j \in 1..Len(logs') : Follows(R(s)[Len(R(s))], logs'[j])
      BY <1>3, <2>0 DEF RangesHeard
    <3> QED
      BY <1>0, <2>0, <3>1, <3>2 DEF RangesHeard
  <2>2. CASE sent(s)
    <3> DEFINE n == Len(R(s))
               N == heard'[s].ranges
    <3>1. N = Append(R(s), range)
      BY <1>5, <2>2
    <3> HIDE DEF N
    <3>2. N # <<>> /\ Len(N) = n + 1 /\ N[n + 1] = range /\ \A i \in 1..n : N[i] = R(s)[i]
      BY <1>4, <2>0, <3>1, AppendProperties
    <3>3. n > 0 => Follows(R(s)[n], range)
      BY <1>2, <2>0 DEF RangesHeard, range
    <3>4. \A i \in 1..(n - 1) : Follows(R(s)[i], R(s)[i + 1])
      BY <2>0 DEF RangesHeard
    <3>5. ASSUME NEW i \in 1..(Len(N) - 1)
          PROVE  Follows(N[i], N[i + 1])
      <4>1. i \in 1..n
        BY <2>0, <3>2
      <4>2. CASE i = n
        BY <3>2, <3>3, <4>1, <4>2
      <4>3. CASE i # n
        <5>1. i \in 1..(n - 1) /\ i + 1 \in 1..n
          BY <2>0, <4>1, <4>3
        <5> QED
          BY <3>2, <3>4, <5>1
      <4> QED
        BY <4>2, <4>3
    <3>6. Past(N[Len(N)], stops', watch'.last) /\ \A j \in 1..Len(logs') : Follows(N[Len(N)], logs'[j])
      BY <1>0, <1>4, <3>2
    <3> QED
      BY <3>5, <3>6 DEF RangesHeard, N
  <2> QED
    BY <2>1, <2>2
<1>10. ASSUME NEW s \in Sockets
       PROVE  Served(s)'
  <2>0. HeadsHeard(s) /\ StartKept(s)
    BY <1>0 DEF Served
  <2>1. HeadsHeard(s)'
    BY <2>0, <1>0, <1>5 DEF HeadsHeard
  <2>2. StartKept(s)'
    BY <2>0, <1>0, <1>5 DEF StartKept, NotYet
  <2> QED
    BY <1>9, <2>1, <2>2 DEF Served
<1> QED
  BY <1>6, <1>7, <1>8, <1>10 DEF Feed

-----------------------------------------------------------------------------
(* GatewayInv is inductive *)

\* Nobody has asked or subscribed yet.
LEMMA GatewayStarts ==
    ASSUME FeedInit
    PROVE  GatewayInv
<1>1. PICK work \in Workloads : ReadInit(work.requests)
  BY DEF FeedInit
<1>2. /\ now = 1 /\ count = 0 /\ waiters = <<>> /\ cached = None /\ load = None
      /\ requests \in [Requests -> {Unused, Refused}]
  BY <1>1 DEF ReadInit
<1>3. ASSUME NEW r \in Requests
      PROVE  requests[r].step \in {"unused", "refused"}
  BY <1>2 DEF Unused, Refused
<1>4. Holders = {} /\ IsFiniteSet(Holders) /\ Cardinality(Holders) = 0
  <2>1. Holders = {}
    BY <1>3 DEF Holders, In
  <2> QED
    BY <2>1, FS_EmptySet
<1>5. SlotsTaken
  BY <1>2, <1>4, ReadConstants DEF SlotsTaken, SlotsKept
<1>6. LineKept
  BY <1>2, <1>3 DEF LineKept
<1>7. ReadTypes
  <2>1. requests \in [Requests -> RequestType]
    BY <1>2 DEF RequestType
  <2> QED
    BY <2>1, <1>2 DEF ReadTypes
<1>8. AnswersFresh
  BY <1>3 DEF AnswersFresh
<1>9. /\ subs = [s \in Sockets |-> "none"] /\ watch = Idle(0) /\ running = FALSE /\ logs = <<>>
      /\ heard = [s \in Sockets |-> Hearing(0)] /\ gone = {} /\ raced = FALSE /\ stops = 0
  BY DEF FeedInit
<1>10. Hearing(0) \in HeardType /\ Hearing(0).since = 0 /\ Hearing(0).heads = <<>> /\ Hearing(0).ranges = <<>>
  BY DEF Hearing, HeardType
<1>11. Idle(0) \in WatchType /\ Idle(0).phase = "idle" /\ Idle(0).since = 0 /\ Idle(0).last = 0
  BY DEF Idle, WatchType
<1>12. FeedTypes
  <2>1. logs \in Seq(RangeType)
    BY <1>9
  <2>2. heard \in [Sockets -> HeardType]
    BY <1>9, <1>10
  <2> QED
    BY <2>1, <2>2, <1>9, <1>11 DEF FeedTypes
<1>13. WatchKept
  BY <1>2, <1>9, <1>11 DEF WatchKept
<1>15. RangesAsked
  BY <1>9 DEF RangesAsked
<1>14. ASSUME NEW s \in Sockets
       PROVE  Served(s)
  <2>1. heard[s] = Hearing(0) /\ subs[s] = "none"
    BY <1>9
  <2>2. HeadsHeard(s)
    BY <2>1, <1>10 DEF HeadsHeard
  <2>3. StartKept(s)
    BY <2>1, <1>2, <1>10 DEF StartKept, NotYet
  <2>4. RangesHeard(s)
    BY <2>1, <1>10 DEF RangesHeard
  <2> QED
    BY <2>2, <2>3, <2>4 DEF Served
<1> QED
  BY <1>5, <1>6, <1>7, <1>8, <1>12, <1>13, <1>14, <1>15 DEF GatewayInv, Reads, Feed

\* Every step of the gateway, and a step that changes nothing of it, keeps GatewayInv.
LEMMA GatewayKeeps ==
    ASSUME GatewayInv, [GatewayNext]_gatewayVars
    PROVE  GatewayInv'
<1>0. Reads /\ Feed /\ now \in Nat
  BY DEF GatewayInv, Reads, ReadTypes
<1>1. CASE ReadNext /\ UNCHANGED feedVars
  <2>1. now' = now
    BY <1>1 DEF ReadNext, Calling, Ask, GiveUp, Proceed, Leave, HedgeFires, UpstreamAnswers,
                PrimaryFails, HedgeFails, Settles
  <2> QED
    BY <2>1, <1>0, <1>1, ReadsStep, FeedStays DEF GatewayInv
<1>2. CASE Hubbing
  <2>1. Feed'
    BY <1>0, <1>2, SubscribeKeepsFeed, UnsubscribeKeepsFeed DEF Hubbing
  <2>2. UNCHANGED <<readVars, now>>
    BY <1>2 DEF Hubbing, Subscribe, Unsubscribe
  <2> QED
    BY <2>1, <2>2, <1>0, FeedKeepsReads DEF GatewayInv, readVars
<1>3. CASE Poll
  <2>1. UNCHANGED <<readVars, now>>
    BY <1>3 DEF Poll
  <2> QED
    BY <2>1, <1>0, <1>3, PollKeepsFeed, FeedKeepsReads DEF GatewayInv, readVars
<1>4. CASE TickFails
  <2>1. /\ UNCHANGED <<readVars, now>> /\ watch' = Idle(watch.last)
        /\ UNCHANGED <<subs, running, logs, heard, gone, raced, stops>>
    BY <1>4 DEF TickFails
  <2> QED
    BY <2>1, <1>0, QuietTickKeepsFeed, FeedKeepsReads DEF GatewayInv, readVars
<1>5. CASE HeadRead \/ MissedRead
  BY <1>0, <1>5, HeadReadKeeps, MissedReadKeeps DEF GatewayInv
<1>6. CASE LogsRead
  <2>1. UNCHANGED <<readVars, now>>
    BY <1>6 DEF LogsRead
  <2> QED
    BY <2>1, <1>0, <1>6, LogsReadKeepsFeed, FeedKeepsReads DEF GatewayInv, readVars
<1>7. CASE DeliverLogs
  <2>1. UNCHANGED <<readVars, now>>
    BY <1>7 DEF DeliverLogs
  <2> QED
    BY <2>1, <1>0, <1>7, DeliverKeepsFeed, FeedKeepsReads DEF GatewayInv, readVars
<1>8. CASE TimePasses
  <2>1. UNCHANGED feedVars /\ now' \in Nat /\ now <= now'
    BY <1>0, <1>8 DEF TimePasses
  <2> QED
    BY <2>1, <1>0, <1>8, TimeKeepsReads, FeedStays DEF GatewayInv
<1>9. CASE UNCHANGED gatewayVars
  <2>1. UNCHANGED <<readVars, feedVars, now>>
    BY <1>9 DEF gatewayVars
  <2> QED
    BY <2>1, <1>0, FeedKeepsReads, FeedStays DEF GatewayInv, readVars
<1> QED
  BY <1>1, <1>2, <1>3, <1>4, <1>5, <1>6, <1>7, <1>8, <1>9 DEF GatewayNext, Ticking

\* The inductive invariant holds in every behaviour, whatever is scheduled and fails.
LEMMA GatewayInvariant == GatewaySpec => []GatewayInv
<1>1. FeedInit => GatewayInv
  BY GatewayStarts
<1>2. GatewayInv /\ [GatewayNext]_gatewayVars => GatewayInv'
  BY GatewayKeeps
<1> QED
  BY <1>1, <1>2, PTL DEF GatewaySpec

-----------------------------------------------------------------------------
(* Theorems *)

\* A slot that is handed over, timed out on or given back is neither lost nor doubled, and
\* nobody waits while one is free: InflightCap's count is the number of requests that hold
\* a slot, never above the cap, for any number of slots and requests (fastpath.ts:186-232).
THEOREM SlotsAreKept == GatewaySpec => []SlotsKept
<1>1. GatewayInv => SlotsKept
  BY DEF GatewayInv, Reads, SlotsTaken
<1> QED
  BY <1>1, GatewayInvariant, PTL

\* No answer of a call is older than the upstream's lag, the call's timeout and the time to
\* live together allow, also for those that joined a call late or were served from the
\* cache (fastpath.ts:112-152, main.ts:792-829).
THEOREM AnswersAreFresh == GatewaySpec => []AnswersFresh
<1>1. GatewayInv => AnswersFresh
  BY DEF GatewayInv, Reads
<1> QED
  BY <1>1, GatewayInvariant, PTL

\* Every subscriber of heads hears them in ascending order, and a block missing between two
\* of them was answered null or too far back, whatever ticks, failures, stops and starts
\* interleave and however far a tick has to catch up (subscribe.ts:249-288).
THEOREM HeadsComeInOrder == GatewaySpec => []HeadsInOrder
<1>1. GatewayInv => HeadsInOrder
  BY DEF GatewayInv, Feed, Served, HeadsHeard, HeadsInOrder
<1> QED
  BY <1>1, GatewayInvariant, PTL

\* A subscription that starts the watcher hears nothing that is older than the upstream's
\* lag at that instant, unless the watcher was once stopped in the middle of a tick
\* (subscribe.ts:238-247).
THEOREM SubscribersStartAtHead == GatewaySpec => []StartsAtHead
<1>1. GatewayInv => StartsAtHead
  BY DEF GatewayInv, Feed, Served, StartKept, StartsAtHead
<1> QED
  BY <1>1, GatewayInvariant, PTL

\* Whoever is subscribed is sent logs in block order, none twice, although their answers
\* arrive in any order and some fail, and sockets come and go: the ranges asked for between
\* two stops of the watcher ascend without meeting, and those from before a stop come before
\* those after it, which may repeat them (subscribe.ts:177-183, 238-247, 302-314).
THEOREM LogsComeInOrder == GatewaySpec => []LogsInOrder
<1>1. GatewayInv => LogsInOrder
  BY DEF GatewayInv, Feed, Served, RangesHeard, LogsInOrder
<1> QED
  BY <1>1, GatewayInvariant, PTL

=============================================================================
