-------------------------- MODULE MarketDataProofs --------------------------
(***************************************************************************)
(* MarketData's properties, for any number of requests and keys and any    *)
(* configuration of timeouts and retries.                                  *)
(***************************************************************************)
EXTENDS MarketData, NaturalFacts

\* The longest that the attempts up to this one and the pauses between them
\* can take.
Spent(attempt) == (attempt + 1) * Timeout + Backoff * (2^attempt - 1)

\* No attempt outlives its timer, and what it was sent is at most one
\* timeout older than the timer.
AttemptInv(r) ==
    pc[r] = "fetching" =>
        /\ fetch[r].key \in Keys
        /\ now <= fetch[r].until
        /\ fetch[r].until <= now + Timeout
        /\ fetch[r].until - fetch[r].startedAt <= Spent(fetch[r].attempt)
        /\ fetch[r].reply # None => fetch[r].until <= fetch[r].reply + Timeout

\* A pause is followed by another attempt, for which there is time.
PauseInv(r) ==
    pc[r] = "sleeping" =>
        /\ fetch[r].key \in Keys
        /\ now <= fetch[r].until
        /\ fetch[r].attempt < MaxRetries
        /\ fetch[r].until - fetch[r].startedAt
              <= Spent(fetch[r].attempt) + Pause(fetch[r].attempt)

\* An entry does not live longer than an attempt and its own life after the
\* exchange produced its datum.
CacheInv ==
    \A k \in Keys : cache[k] # None =>
        cache[k].expiresAt <= cache[k].data + Timeout + CacheTtl

IInv ==
    /\ TypeOK
    /\ \A r \in Requests : AttemptInv(r) /\ PauseInv(r)
    /\ CacheInv

-----------------------------------------------------------------------------
(* Arithmetic. *)

\* Pauses and the time spent are natural numbers; another attempt adds its
\* pause and its timeout.
LEMMA SpentGrows ==
    ASSUME NEW a \in Nat
    PROVE  /\ Pause(a) \in Nat
           /\ Spent(a) \in Nat
           /\ Spent(a + 1) = Spent(a) + Pause(a) + Timeout
           /\ \A m \in 0..a : Spent(m) <= Spent(a)
<1> DEFINE p == 2^a
<1>1. p \in Nat \ {0} /\ 2^(a + 1) = 2 * p
  BY PowerOfTwo
<1>2. Backoff * p \in Nat /\ Backoff * (p - 1) \in Nat /\ (a + 1) * Timeout \in Nat
  BY <1>1, TimingAssumption
<1>3. ((a + 1) + 1) * Timeout = (a + 1) * Timeout + Timeout
  BY TimingAssumption
<1>4. Backoff * (2 * p - 1) = Backoff * (p - 1) + Backoff * p
  BY <1>1, TimingAssumption
<1>5. ASSUME NEW m \in 0..a
      PROVE  Spent(m) <= Spent(a)
  <2> DEFINE q == 2^m
  <2>1. q \in Nat \ {0} /\ q <= p
    BY PowerOfTwo
  <2> HIDE DEF q, p
  <2>2. Backoff * (q - 1) <= Backoff * (p - 1)
    BY <1>1, <2>1, TimingAssumption, ProductGrows
  <2>3. (m + 1) * Timeout <= (a + 1) * Timeout
    BY TimingAssumption, ProductGrows
  <2>4. Backoff * (q - 1) \in Nat /\ (m + 1) * Timeout \in Nat
    BY <2>1, TimingAssumption
  <2> QED BY <1>2, <2>2, <2>3, <2>4 DEF Spent, p, q
<1> HIDE DEF p
<1>6. Spent(a) = (a + 1) * Timeout + Backoff * (p - 1) /\ Pause(a) = Backoff * p
  BY DEF Spent, Pause, p
<1>7. Spent(a + 1) = ((a + 1) + 1) * Timeout + Backoff * (2 * p - 1)
  BY <1>1 DEF Spent
<1> QED BY <1>2, <1>3, <1>4, <1>5, <1>6, <1>7, TimingAssumption

-----------------------------------------------------------------------------
\* The caches and the requests start empty.
LEMMA InitHolds == Init => IInv
BY TimingAssumption DEF Init, IInv, TypeOK, AttemptInv, PauseInv, CacheInv, NoFetch

\* Steps that are one request's own.
Own(r) ==
    Refuse(r) \/ Receive(r) \/ Serve(r) \/ Deliver(r) \/ DeliverMalformed(r)
      \/ FailAttempt(r) \/ Retry(r)

\* They leave the clock and the others' fetches alone.
LEMMA OneRequest ==
    ASSUME TypeOK, NEW r \in Requests, Own(r)
    PROVE  /\ now' = now
           /\ \A q \in Requests \ {r} :
                 pc'[q] = pc[q] /\ fetch'[q] = fetch[q] /\ answer'[q] = answer[q]
<1> USE DEF TypeOK, Finish, Attempt
<1>1. CASE Refuse(r)
  BY <1>1 DEF Refuse
<1>2. CASE Receive(r)
  BY <1>2 DEF Receive
<1>3. CASE Serve(r)
  BY <1>3 DEF Serve
<1>4. CASE Deliver(r)
  BY <1>4 DEF Deliver
<1>5. CASE DeliverMalformed(r)
  BY <1>5 DEF DeliverMalformed
<1>6. CASE FailAttempt(r)
  BY <1>6 DEF FailAttempt
<1>7. CASE Retry(r)
  BY <1>7 DEF Retry
<1> QED BY <1>1, <1>2, <1>3, <1>4, <1>5, <1>6, <1>7 DEF Own

\* No step leaves the types.
LEMMA TypeStep ==
    ASSUME IInv, NEW r \in Requests, Own(r)
    PROVE  TypeOK'
<1> USE TimingAssumption DEF TypeOK, Finish, Attempt, NoFetch, Waiting, Ended
<1>0. TypeOK /\ AttemptInv(r) /\ PauseInv(r) /\ now \in Nat
  BY DEF IInv
<1>1. CASE Refuse(r)
  BY <1>0, <1>1 DEF Refuse
<1>2. CASE Receive(r)
  <2>1. PICK k \in Keys : IF Cached(k) THEN Finish(r, "answered", cache[k].data)
                                       ELSE Attempt(r, k, 0, now)
    BY <1>2 DEF Receive
  <2>2. now' = now /\ cache' = cache
    BY <1>2 DEF Receive
  <2>3. CASE Cached(k)
    <3>1. cache[k].data \in 0..now
      BY <1>0, <2>3 DEF Cached
    <3>2. /\ pc' = [pc EXCEPT ![r] = "answered"]
          /\ fetch' = [fetch EXCEPT ![r] = NoFetch]
          /\ answer' = [answer EXCEPT ![r] = cache[k].data]
      BY <2>1, <2>3
    <3> QED BY <1>0, <2>2, <3>1, <3>2
  <2>4. CASE ~Cached(k)
    BY <1>0, <2>1, <2>2, <2>4
  <2> QED BY <2>3, <2>4
<1>3. CASE Serve(r)
  BY <1>0, <1>3 DEF Serve
<1>4. CASE Deliver(r)
  BY <1>0, <1>4 DEF Deliver, AttemptInv
<1>5. CASE DeliverMalformed(r)
  BY <1>0, <1>5 DEF DeliverMalformed
<1>6. CASE FailAttempt(r)
  <2>1. fetch[r].attempt \in Nat
    BY <1>0
  <2>2. Pause(fetch[r].attempt) \in Nat
    BY <2>1, SpentGrows
  <2>3. now + Pause(fetch[r].attempt) \in Nat
    BY <1>0, <2>2
  <2> QED BY <1>0, <1>6, <2>3 DEF FailAttempt
<1>7. CASE Retry(r)
  BY <1>0, <1>7 DEF Retry, PauseInv
<1> QED BY <1>1, <1>2, <1>3, <1>4, <1>5, <1>6, <1>7 DEF Own

\* The step keeps the retry loops within their time.
LEMMA LoopStep ==
    ASSUME IInv, NEW r \in Requests, Own(r), NEW q \in Requests
    PROVE  AttemptInv(q)' /\ PauseInv(q)'
<1> USE TimingAssumption
<1>0. /\ TypeOK /\ AttemptInv(q) /\ PauseInv(q) /\ AttemptInv(r) /\ PauseInv(r)
      /\ now \in Nat /\ now' = now
  BY OneRequest DEF IInv, TypeOK
<1>1. CASE q # r
  BY <1>0, <1>1, OneRequest DEF AttemptInv, PauseInv
<1>2. CASE q = r
  <2> USE <1>2
  <2>1. CASE Refuse(r) \/ Deliver(r) \/ DeliverMalformed(r)
    BY <1>0, <2>1 DEF Refuse, Deliver, DeliverMalformed, Finish, AttemptInv, PauseInv, TypeOK
  <2>2. CASE Receive(r)
    <3>1. PICK k \in Keys : IF Cached(k) THEN Finish(r, "answered", cache[k].data)
                                         ELSE Attempt(r, k, 0, now)
      BY <2>2 DEF Receive
    <3>2. CASE Cached(k)
      BY <1>0, <3>1, <3>2 DEF Finish, AttemptInv, PauseInv, TypeOK
    <3>3. CASE ~Cached(k)
      <4>1. Spent(0) = Timeout
        BY PowerOfTwo DEF Spent
      <4>2. /\ pc'[r] = "fetching"
            /\ fetch'[r] = [key |-> k, attempt |-> 0, until |-> now + Timeout,
                            reply |-> None, startedAt |-> now]
        BY <1>0, <3>1, <3>3 DEF Attempt, TypeOK
      <4> QED BY <1>0, <4>1, <4>2 DEF AttemptInv, PauseInv
    <3> QED BY <3>2, <3>3
  <2>3. CASE Serve(r)
    <3>1. /\ pc'[r] = "fetching" /\ fetch'[r].reply = now
          /\ \A f \in {"key", "attempt", "until", "startedAt"} : fetch'[r][f] = fetch[r][f]
      BY <1>0, <2>3 DEF Serve, TypeOK
    <3> QED BY <1>0, <2>3, <3>1 DEF Serve, AttemptInv, PauseInv, TypeOK
  <2>4. CASE FailAttempt(r)
    <3> DEFINE a == fetch[r].attempt
    <3>1. a \in Nat /\ fetch[r].until \in Nat /\ fetch[r].startedAt \in Nat
      BY <1>0 DEF TypeOK
    <3>2. Pause(a) \in Nat /\ Spent(a) \in Nat
      BY <3>1, SpentGrows
    <3>3. CASE a < MaxRetries
      <4>1. /\ pc'[r] = "sleeping" /\ fetch'[r].key = fetch[r].key
            /\ fetch'[r].attempt = a /\ fetch'[r].startedAt = fetch[r].startedAt
            /\ fetch'[r].until = now + Pause(a)
        BY <1>0, <2>4, <3>3 DEF FailAttempt, TypeOK
      <4> QED BY <1>0, <2>4, <3>1, <3>2, <3>3, <4>1 DEF FailAttempt, AttemptInv, PauseInv
    <3>4. CASE ~(a < MaxRetries)
      BY <1>0, <2>4, <3>4 DEF FailAttempt, Finish, AttemptInv, PauseInv, TypeOK
    <3> QED BY <3>3, <3>4
  <2>5. CASE Retry(r)
    <3> DEFINE a == fetch[r].attempt
    <3>1. a \in Nat /\ fetch[r].until \in Nat /\ fetch[r].startedAt \in Nat
      BY <1>0 DEF TypeOK
    <3>2. /\ Pause(a) \in Nat /\ Spent(a) \in Nat
          /\ Spent(a + 1) = Spent(a) + Pause(a) + Timeout
      BY <3>1, SpentGrows
    <3>3. /\ pc'[r] = "fetching"
          /\ fetch'[r] = [key |-> fetch[r].key, attempt |-> a + 1, until |-> now + Timeout,
                          reply |-> None, startedAt |-> fetch[r].startedAt]
      BY <1>0, <2>5 DEF Retry, Attempt, TypeOK
    <3> QED BY <1>0, <2>5, <3>1, <3>2, <3>3 DEF Retry, AttemptInv, PauseInv
  <2> QED BY <2>1, <2>2, <2>3, <2>4, <2>5 DEF Own
<1> QED BY <1>1, <1>2

\* Only an answer writes an entry, and it is as fresh as its attempt.
LEMMA CacheStep ==
    ASSUME IInv, NEW r \in Requests, Own(r)
    PROVE  CacheInv'
<1>1. CASE Deliver(r)
  <2>1. /\ fetch[r].key \in Keys /\ now <= fetch[r].until
        /\ fetch[r].until <= fetch[r].reply + Timeout
        /\ fetch[r].reply \in Nat /\ fetch[r].until \in Nat /\ now \in Nat
    BY <1>1, TimingAssumption DEF Deliver, IInv, AttemptInv, TypeOK
  <2>2. cache' = [cache EXCEPT ![fetch[r].key] =
                    [data |-> fetch[r].reply, expiresAt |-> now + CacheTtl]]
    BY <1>1 DEF Deliver
  <2> QED BY <2>1, <2>2, TimingAssumption DEF IInv, CacheInv, TypeOK
<1>2. CASE ~Deliver(r)
  <2>1. cache' = cache
    BY <1>2 DEF Own, Refuse, Receive, Serve, DeliverMalformed, FailAttempt, Retry
  <2> QED BY <2>1 DEF IInv, CacheInv
<1> QED BY <1>1, <1>2

\* Time passes no timer that is due.
LEMMA TickStep ==
    ASSUME IInv, Tick
    PROVE  IInv'
<1> USE TimingAssumption
<1>0. TypeOK /\ now \in Nat
  BY DEF IInv, TypeOK
<1>1. TypeOK'
  <2>1. 0..now \subseteq 0..now' /\ now' \in 0..MaxTime
    BY <1>0 DEF Tick, TypeOK
  <2>2. /\ cache' \in [Keys -> [data : 0..now', expiresAt : Nat] \cup {None}]
        /\ answer' \in [Requests -> 0..now' \cup {None}]
        /\ fetch' \in [Requests -> [key : Keys \cup {None}, attempt : 0..MaxRetries,
                                    until : Nat, reply : 0..now' \cup {None},
                                    startedAt : 0..now']]
    BY <1>0, <2>1 DEF Tick, TypeOK
  <2> QED BY <1>0, <2>1, <2>2 DEF Tick, TypeOK
<1>2. ASSUME NEW q \in Requests
      PROVE  AttemptInv(q)' /\ PauseInv(q)'
  <2>1. fetch[q].until \in Nat
    BY <1>0 DEF TypeOK
  <2> QED BY <1>0, <2>1 DEF Tick, Waiting, IInv, AttemptInv, PauseInv
<1>3. CacheInv'
  BY DEF Tick, IInv, CacheInv
<1> QED BY <1>1, <1>2, <1>3 DEF IInv

\* Every step keeps the strengthening.
LEMMA NextHolds == IInv /\ [Next]_vars => IInv'
<1> SUFFICES ASSUME IInv, [Next]_vars
             PROVE  IInv'
  OBVIOUS
<1>1. CASE \E r \in Requests : Own(r)
  BY <1>1, TypeStep, LoopStep, CacheStep DEF IInv
<1>2. CASE Tick
  BY <1>2, TickStep
<1>3. CASE UNCHANGED vars
  BY <1>3 DEF vars, IInv, TypeOK, AttemptInv, PauseInv, CacheInv
<1> QED BY <1>1, <1>2, <1>3 DEF Next, Own, TimeOver

-----------------------------------------------------------------------------
\* No attempt outlives its timer, nor an entry its datum by more than an
\* attempt and its own life, in any execution of the caches and retry loops.
THEOREM MarketInvariance == Spec => []IInv
BY InitHolds, NextHolds, PTL DEF Spec

\* The caches and the retry loops keep their types.
THEOREM MarketTypes == Spec => []TypeOK
<1>1. IInv => TypeOK
  BY DEF IInv
<1> QED BY <1>1, MarketInvariance, PTL

\* fetchWithRetry ends: a request is answered or given up within the time of
\* its attempts and the doubling pauses between them.
THEOREM RequestsEndInTime == Spec => []EndsInTime
<1>1. IInv => EndsInTime
  <2> SUFFICES ASSUME IInv, NEW r \in Requests, pc[r] \in Waiting
               PROVE  now - fetch[r].startedAt <= Spent(MaxRetries)
    BY DEF EndsInTime, Spent
  <2> DEFINE a == fetch[r].attempt
  <2>1. /\ a \in 0..MaxRetries /\ now \in Nat /\ fetch[r].until \in Nat
        /\ fetch[r].startedAt \in Nat
    BY TimingAssumption DEF IInv, TypeOK
  <2>2. /\ Spent(a) \in Nat /\ Spent(MaxRetries) \in Nat
        /\ \A m \in 0..MaxRetries : Spent(m) <= Spent(MaxRetries)
    <3>1. a \in Nat /\ MaxRetries \in Nat
      BY <2>1, TimingAssumption
    <3> QED BY <3>1, SpentGrows
  <2>3. CASE pc[r] = "fetching"
    <3>1. Spent(a) <= Spent(MaxRetries)
      BY <2>1, <2>2
    <3> QED BY <2>1, <2>2, <2>3, <3>1 DEF IInv, AttemptInv
  <2>4. CASE pc[r] = "sleeping"
    <3>1. a < MaxRetries /\ a + 1 \in 0..MaxRetries
      BY <2>1, <2>4, TimingAssumption DEF IInv, PauseInv
    <3>2. Pause(a) \in Nat /\ Spent(a + 1) = Spent(a) + Pause(a) + Timeout
      <4>1. a \in Nat
        BY <2>1, TimingAssumption
      <4> QED BY <4>1, SpentGrows
    <3>3. Spent(a + 1) <= Spent(MaxRetries)
      BY <2>2, <3>1
    <3> QED BY <2>1, <2>2, <2>4, <3>2, <3>3, TimingAssumption DEF IInv, PauseInv
  <2> QED BY <2>3, <2>4 DEF Waiting
<1> QED BY <1>1, MarketInvariance, PTL

\* An answer, from the exchange or from a cache, is no older than one attempt
\* plus the life of an entry, however refreshes overtake each other.
THEOREM AnswersFresh == Spec => FreshAnswers
<1> DEFINE Fresh(r) == answer'[r] # answer[r] /\ answer'[r] # None
                          => now - answer'[r] <= Timeout + CacheTtl
<1>1. IInv /\ [Next]_vars => [\A r \in Requests : Fresh(r)]_vars
  <2> SUFFICES ASSUME IInv, Next, NEW q \in Requests
               PROVE  Fresh(q)
    OBVIOUS
  <2> USE TimingAssumption
  <2>0. TypeOK /\ now \in Nat
    BY DEF IInv, TypeOK
  <2>1. CASE Own(q)
    <3>1. CASE Deliver(q)
      <4>1. answer'[q] = fetch[q].reply /\ fetch[q].reply # None
        BY <2>0, <3>1 DEF Deliver, Finish, TypeOK
      <4>2. /\ now <= fetch[q].until /\ fetch[q].until <= fetch[q].reply + Timeout
            /\ fetch[q].reply \in Nat /\ fetch[q].until \in Nat
        BY <2>0, <3>1, <4>1 DEF Deliver, IInv, AttemptInv, TypeOK
      <4> QED BY <2>0, <4>1, <4>2
    <3>2. CASE Receive(q)
      <4>1. PICK k \in Keys : IF Cached(k) THEN Finish(q, "answered", cache[k].data)
                                           ELSE Attempt(q, k, 0, now)
        BY <3>2 DEF Receive
      <4>2. CASE Cached(k)
        <5>1. answer'[q] = cache[k].data
          BY <2>0, <4>1, <4>2 DEF Finish, TypeOK
        <5>2. /\ cache[k].expiresAt > now /\ cache[k].data \in Nat /\ cache[k].expiresAt \in Nat
              /\ cache[k].expiresAt <= cache[k].data + Timeout + CacheTtl
          BY <2>0, <4>2 DEF Cached, IInv, CacheInv, TypeOK
        <5> QED BY <2>0, <5>1, <5>2
      <4>3. CASE ~Cached(k)
        BY <4>1, <4>3 DEF Attempt
      <4> QED BY <4>2, <4>3
    <3>3. CASE Refuse(q) \/ Serve(q) \/ DeliverMalformed(q) \/ FailAttempt(q) \/ Retry(q)
      BY <2>0, <3>3
      DEF Refuse, Serve, DeliverMalformed, FailAttempt, Retry, Finish, Attempt, TypeOK
    <3> QED BY <2>1, <3>1, <3>2, <3>3 DEF Own
  <2>2. CASE \E r \in Requests \ {q} : Own(r)
    BY <2>0, <2>2, OneRequest
  <2>3. CASE Tick \/ TimeOver
    BY <2>3 DEF Tick, TimeOver, vars
  <2> QED BY <2>1, <2>2, <2>3 DEF Next, Own
<1> QED BY <1>1, MarketInvariance, PTL DEF Spec, FreshAnswers

\* A refresh that was overtaken replaces a newer datum by one that is older
\* by at most an attempt's timeout.
THEOREM RegressionLimited == Spec => RegressionBounded
<1> DEFINE Close(k) == cache[k] # None /\ cache'[k] # None
                          => cache'[k].data >= cache[k].data - Timeout
<1>1. IInv /\ [Next]_vars => [\A k \in Keys : Close(k)]_vars
  <2> SUFFICES ASSUME IInv, Next, NEW k \in Keys
               PROVE  Close(k)
    OBVIOUS
  <2> USE TimingAssumption
  <2>0. TypeOK /\ now \in Nat /\ (cache[k] # None => cache[k].data \in 0..now)
    BY DEF IInv, TypeOK
  <2>1. ASSUME NEW r \in Requests, Deliver(r)
        PROVE  Close(k)
    <3>1. /\ now <= fetch[r].until /\ fetch[r].until <= fetch[r].reply + Timeout
          /\ fetch[r].reply \in Nat /\ fetch[r].until \in Nat
      BY <2>0, <2>1 DEF Deliver, IInv, AttemptInv, TypeOK
    <3>2. cache'[k] = cache[k] \/ cache'[k].data = fetch[r].reply
      BY <2>0, <2>1 DEF Deliver, TypeOK
    <3> QED BY <2>0, <3>1, <3>2
  <2>2. ASSUME NEW r \in Requests, Own(r), ~Deliver(r)
        PROVE  cache' = cache
    BY <2>2 DEF Own, Refuse, Receive, Serve, DeliverMalformed, FailAttempt, Retry
  <2>3. CASE Tick \/ TimeOver
    BY <2>0, <2>3 DEF Tick, TimeOver, vars
  <2> QED BY <2>0, <2>1, <2>2, <2>3 DEF Next, Own
<1> QED BY <1>1, MarketInvariance, PTL DEF Spec, RegressionBounded
=============================================================================
