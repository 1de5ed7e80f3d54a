---------------------------- MODULE ResultCache ----------------------------
(***************************************************************************)
(* createResultCache (src/src/utils/result_cache.ts): a result per key, a  *)
(* refresh once it has expired, and the expired result when the refresh    *)
(* fails.  Nothing keeps concurrent callers from refreshing side by side.  *)
(***************************************************************************)
EXTENDS Integers

CONSTANTS
    Caller,
    Key,
    ResultOf,   \* what a refresh of each key may find
    Falsy,      \* the results of each key that JavaScript takes for none: 0
    Expiry,     \* cacheExpiryMs of each key's cache
    MaxFetch,   \* bound: how long a refresh takes
    MaxTime,    \* bound: the clock runs over 0 .. MaxTime
    None

ASSUME CacheAssumption ==
    /\ Expiry \in [Key -> Nat]
    /\ MaxFetch \in Nat /\ MaxTime \in Nat
    /\ \A k \in Key : None \notin ResultOf[k]

VARIABLES
    now,
    cache,   \* resultCache
    call     \* getResultAsync, as far as each caller has come

cacheVars == <<now, cache, call>>

Time == 0 .. MaxTime
Results == UNION {ResultOf[k] : k \in Key}
\* `sampledAt' is when the upstream computed the result.
Entry == [timestamp : Time, result : Results, sampledAt : Time]
Call ==
    [state : {"idle", "fetching", "returned", "threw"}, key : Key \cup {None},
     asked : Time, held : Entry \cup {None}, answer : Entry \cup {None}, failed : BOOLEAN]
Idle == [state |-> "idle", key |-> None, asked |-> 0, held |-> None,
         answer |-> None, failed |-> FALSE]

CacheTypeOK ==
    /\ now \in Time
    /\ cache \in [Key -> Entry \cup {None}]
    /\ call \in [Caller -> Call]

CacheInit ==
    /\ now = 0
    /\ cache = [k \in Key |-> None]
    /\ call = [c \in Caller |-> Idle]

-----------------------------------------------------------------------------

HasResult(k) == cache[k] # None /\ cache[k].result \notin Falsy[k]
Expired(k) == cache[k].timestamp < now - Expiry[k]

GetResult(c, k) ==
    LET held == IF HasResult(k) THEN cache[k] ELSE None
        hit == HasResult(k) /\ ~Expired(k)
    IN
    /\ call[c].state = "idle"
    /\ call' = [call EXCEPT ![c] =
           [state |-> IF hit THEN "returned" ELSE "fetching", key |-> k, asked |-> now,
            held |-> held, answer |-> IF hit THEN held ELSE None, failed |-> FALSE]]
    /\ UNCHANGED <<now, cache>>

Fetches(c) ==
    /\ call[c].state = "fetching"
    /\ \E v \in ResultOf[call[c].key], t \in call[c].asked .. now :
           LET entry == [timestamp |-> now, result |-> v, sampledAt |-> t] IN
           /\ cache' = [cache EXCEPT ![call[c].key] = entry]
           /\ call' = [call EXCEPT ![c].state = "returned", ![c].answer = entry]
    /\ UNCHANGED now

\* Mutant: A failed refresh puts the expired result back as if it were new.
FetchFailsRenewing(c) ==
    /\ call[c].state = "fetching"
    /\ call' = [call EXCEPT ![c].state = IF call[c].held # None
                                         THEN "returned" ELSE "threw",
                            ![c].answer = call[c].held,
                            ![c].failed = TRUE]
    /\ cache' = IF call[c].held = None THEN cache
                ELSE [cache EXCEPT ![call[c].key] =
                          [call[c].held EXCEPT !.timestamp = now]]
    /\ UNCHANGED now

\* The result returned is the one read before the refresh began.
FetchFails(c) ==
    /\ call[c].state = "fetching"
    /\ call' = [call EXCEPT ![c].state = IF call[c].held # None
                                         THEN "returned" ELSE "threw",
                            ![c].answer = call[c].held,
                            ![c].failed = TRUE]
    /\ UNCHANGED <<now, cache>>

\* The environment: an upstream answers, or fails, within MaxFetch.
CacheTick ==
    /\ now < MaxTime
    /\ \A c \in Caller : call[c].state = "fetching" => now - call[c].asked < MaxFetch
    /\ now' = now + 1
    /\ UNCHANGED <<cache, call>>

\* The caller goes on with what it was given.
Take(c) ==
    /\ call[c].state \in {"returned", "threw"}
    /\ call' = [call EXCEPT ![c] = Idle]
    /\ UNCHANGED <<now, cache>>

\* A cache under callers of which any may come at any time.
CacheNext(keys) ==
    \/ \E c \in Caller : \/ \E k \in keys : GetResult(c, k)
                         \/ Fetches(c) \/ FetchFails(c) \/ Take(c)
    \/ CacheTick

-----------------------------------------------------------------------------

\* What a caller is served was computed by the upstream no longer ago than the
\* expiry and one refresh, however the refreshes of concurrent callers overtake
\* each other -- unless the caller's own refresh has just failed
\* (result_cache.ts:22-35).
ServedIsRecent ==
    \A c \in Caller :
        call[c].state = "returned" /\ ~call[c].failed =>
            call[c].answer.sampledAt >= call[c].asked - Expiry[call[c].key] - MaxFetch
=============================================================================
