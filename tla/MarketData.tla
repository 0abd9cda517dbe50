----------------------------- MODULE MarketData -----------------------------
(***************************************************************************)
(* MarketDataService's caches in front of the retrying fetch.  getTicker   *)
(* and getCandles differ in their keys only: a symbol, or symbol, interval *)
(* and limit.  A datum is the time at which the exchange produced it.      *)
(*                                                                         *)
(* Node runs one handler at a time, so the code between two awaits is one  *)
(* action; its timers fire when they are due, and time does not pass a due *)
(* timer.  Concurrent requests for one key do not share a fetch.           *)
(***************************************************************************)
EXTENDS Integers

CONSTANTS
    Requests,       \* concurrent requests; an identity is reused
    Keys,           \* valid cache keys
    OtherKeys,      \* unsupported symbols, invalid intervals and limits
    CacheTtl,       \* MARKET_DATA_CACHE_TTL_MS
    Timeout,        \* MARKET_DATA_REQUEST_TIMEOUT_MS
    MaxRetries,     \* MARKET_DATA_MAX_RETRIES
    Backoff,        \* the first pause between attempts; it doubles
    MaxTime,        \* bound on the clock
    None

ASSUME TimingAssumption ==
    /\ CacheTtl \in Nat /\ Timeout \in Nat \ {0} /\ Backoff \in Nat \ {0}
    /\ MaxRetries \in Nat /\ MaxTime \in Nat
    /\ None \notin Int
    /\ None \notin [data : Nat, expiresAt : Nat]
    /\ Keys \cap OtherKeys = {}

VARIABLES
    now,
    cache,      \* per key [data, expiresAt], or None
    pc,         \* per request what it waits for, or its outcome
    fetch,      \* per request the state of its retry loop
    answer      \* per request the datum it returned, or None

vars == <<now, cache, pc, fetch, answer>>

Waiting == {"fetching", "sleeping"}
Ended   == {"answered", "unavailable", "badRequest", "serverError"}

\* "until" is the attempt's deadline, or the end of the pause after it;
\* "reply" a response on its way; "startedAt" is auxiliary.
NoFetch == [key |-> None, attempt |-> 0, until |-> 0, reply |-> None, startedAt |-> 0]

Init ==
    /\ now = 0
    /\ cache = [k \in Keys |-> None]
    /\ pc = [r \in Requests |-> "idle"]
    /\ fetch = [r \in Requests |-> NoFetch]
    /\ answer = [r \in Requests |-> None]

Finish(r, outcome, datum) ==
    /\ pc' = [pc EXCEPT ![r] = outcome]
    /\ fetch' = [fetch EXCEPT ![r] = NoFetch]
    /\ answer' = [answer EXCEPT ![r] = datum]

\* An attempt starts with its own abort timer.
Attempt(r, key, number, startedAt) ==
    /\ pc' = [pc EXCEPT ![r] = "fetching"]
    /\ fetch' = [fetch EXCEPT ![r] =
                   [key |-> key, attempt |-> number, until |-> now + Timeout,
                    reply |-> None, startedAt |-> startedAt]]
    /\ UNCHANGED answer

-----------------------------------------------------------------------------
Idle(r) == pc[r] \in {"idle"} \cup Ended

Refuse(r) ==
    /\ Idle(r)
    /\ OtherKeys # {}
    /\ Finish(r, "badRequest", None)
    /\ UNCHANGED <<now, cache>>

\* Mutant: whatever is cached is served.
CachedEver(k) == cache[k] # None

Cached(k) == cache[k] # None /\ cache[k].expiresAt > now

Receive(r) ==
    /\ Idle(r)
    /\ \E k \in Keys :
         IF Cached(k) THEN Finish(r, "answered", cache[k].data)
                      ELSE Attempt(r, k, 0, now)
    /\ UNCHANGED <<now, cache>>

\* The exchange produces its answer to the current attempt.
Serve(r) ==
    /\ pc[r] = "fetching"
    /\ fetch[r].reply = None
    /\ fetch' = [fetch EXCEPT ![r].reply = now]
    /\ UNCHANGED <<now, cache, pc, answer>>

\* Whoever is answered last writes the entry.
Deliver(r) ==
    /\ pc[r] = "fetching"
    /\ fetch[r].reply # None
    /\ cache' = [cache EXCEPT ![fetch[r].key] =
                   [data |-> fetch[r].reply, expiresAt |-> now + CacheTtl]]
    /\ Finish(r, "answered", fetch[r].reply)
    /\ UNCHANGED now

\* A response of another shape than the provider expects.
DeliverMalformed(r) ==
    /\ pc[r] = "fetching"
    /\ fetch[r].reply # None
    /\ Finish(r, "serverError", None)
    /\ UNCHANGED <<now, cache>>

Pause(attempt) == Backoff * 2^attempt

\* Mutant: one attempt too many.
FailAttemptOnceMore(r) ==
    /\ pc[r] = "fetching"
    /\ IF fetch[r].attempt <= MaxRetries
         THEN /\ pc' = [pc EXCEPT ![r] = "sleeping"]
              /\ fetch' = [fetch EXCEPT ![r].reply = None,
                                        ![r].until = now + Pause(fetch[r].attempt)]
              /\ UNCHANGED answer
         ELSE Finish(r, "unavailable", None)
    /\ UNCHANGED <<now, cache>>

\* A network error, an error status, a body that does not parse, or the
\* abort timer: what was on its way is lost.
FailAttempt(r) ==
    /\ pc[r] = "fetching"
    /\ IF fetch[r].attempt < MaxRetries
         THEN /\ pc' = [pc EXCEPT ![r] = "sleeping"]
              /\ fetch' = [fetch EXCEPT ![r].reply = None,
                                        ![r].until = now + Pause(fetch[r].attempt)]
              /\ UNCHANGED answer
         ELSE Finish(r, "unavailable", None)
    /\ UNCHANGED <<now, cache>>

\* Mutant: an answer to the aborted attempt may still arrive.
RetryListening(r) ==
    /\ pc[r] = "sleeping"
    /\ now = fetch[r].until
    /\ pc' = [pc EXCEPT ![r] = "fetching"]
    /\ \E late \in {None, fetch[r].startedAt} :
         fetch' = [fetch EXCEPT ![r].attempt = @ + 1, ![r].until = now + Timeout,
                                ![r].reply = late]
    /\ UNCHANGED <<now, cache, answer>>

Retry(r) ==
    /\ pc[r] = "sleeping"
    /\ now = fetch[r].until
    /\ Attempt(r, fetch[r].key, fetch[r].attempt + 1, fetch[r].startedAt)
    /\ UNCHANGED <<now, cache>>

\* Time does not pass a timer that is due.
Tick ==
    /\ now < MaxTime
    /\ \A r \in Requests : pc[r] \in Waiting => now < fetch[r].until
    /\ now' = now + 1
    /\ UNCHANGED <<cache, pc, fetch, answer>>

\* The bound on the clock is reached.
TimeOver == now = MaxTime /\ UNCHANGED vars

Next ==
    \/ \E r \in Requests :
          \/ Refuse(r) \/ Receive(r) \/ Serve(r) \/ Deliver(r) \/ DeliverMalformed(r)
          \/ FailAttempt(r) \/ Retry(r)
    \/ Tick
    \/ TimeOver

Spec == Init /\ [][Next]_vars

-----------------------------------------------------------------------------
\* Types of the caches and the retry loops.
TypeOK ==
    /\ now \in 0..MaxTime
    /\ cache \in [Keys -> [data : 0..now, expiresAt : Nat] \cup {None}]
    /\ pc \in [Requests -> {"idle"} \cup Waiting \cup Ended]
    /\ fetch \in [Requests -> [key : Keys \cup {None}, attempt : 0..MaxRetries,
                               until : Nat, reply : 0..now \cup {None},
                               startedAt : 0..now]]
    /\ answer \in [Requests -> 0..now \cup {None}]

\* No answer is older than one attempt plus the life of a cache entry,
\* however refreshes overtake each other: fetch-with-retry.ts promises not to
\* return stale data.
FreshAnswers ==
    [][\A r \in Requests :
          answer'[r] # answer[r] /\ answer'[r] # None
             => now - answer'[r] <= Timeout + CacheTtl]_vars

\* Refreshes of one key may complete out of order, and an older datum then
\* replaces a newer one, but one older by at most an attempt's timeout: what
\* an aborted attempt was sent is never stored.
RegressionBounded ==
    [][\A k \in Keys :
          cache[k] # None /\ cache'[k] # None
             => cache'[k].data >= cache[k].data - Timeout]_vars

\* A request ends within the time of its attempts and the pauses between
\* them: "Never retries forever" (fetch-with-retry.ts).
EndsInTime ==
    \A r \in Requests :
        pc[r] \in Waiting =>
            now - fetch[r].startedAt
                <= (MaxRetries + 1) * Timeout + Backoff * (2^MaxRetries - 1)
=============================================================================
