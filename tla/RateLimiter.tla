---------------------------- MODULE RateLimiter ----------------------------
(* The fixed-window rate limiter (web/rate_limit.py): one bucket per client *)
(* identifier, started by the first request of a window, in a table that    *)
(* evicts when it is full.                                                  *)
EXTENDS Integers, FiniteSets

CONSTANTS
    Ids,         \* client identifiers
    MaxRequests, \* requests admitted per bucket
    Window,      \* window_seconds, in ticks
    MaxEntries,  \* capacity of the table
    NoBucket

VARIABLE buckets

Tracked(b) == {i \in Ids : b[i] # NoBucket}
Without(b, gone) == [i \in Ids |-> IF i \in gone THEN NoBucket ELSE b[i]]

Stale(b, now) == {i \in Tracked(b) : b[i].start < now - Window}
Oldest(b) == {i \in Tracked(b) : \A j \in Tracked(b) : b[i].start <= b[j].start}

(* _maybe_evict: nothing below capacity; otherwise the stale buckets, and   *)
(* one of the oldest when that was not enough.                              *)
Evicted(b, now) ==
    LET kept == Without(b, Stale(b, now)) IN
    IF Cardinality(Tracked(b)) < MaxEntries THEN {b}
    ELSE IF Cardinality(Tracked(kept)) < MaxEntries THEN {kept}
    ELSE {Without(kept, {i}) : i \in Oldest(kept)}

Expired(b, i, now) == b[i] = NoBucket \/ now - b[i].start >= Window
Admits(b, i, now) == Expired(b, i, now) \/ b[i].count < MaxRequests

(* Mutant of After: the request that opens a window is not counted.         *)
AfterUncounted(b, i, now) ==
    IF Expired(b, i, now) THEN [b EXCEPT ![i] = [start |-> now, count |-> 0]]
    ELSE IF b[i].count < MaxRequests THEN [b EXCEPT ![i].count = @ + 1]
    ELSE b

After(b, i, now) ==
    IF Expired(b, i, now) THEN [b EXCEPT ![i] = [start |-> now, count |-> 1]]
    ELSE IF b[i].count < MaxRequests THEN [b EXCEPT ![i].count = @ + 1]
    ELSE b

(* allow(i) at time now answers ok; table b is what the eviction left.      *)
Allow(i, now, ok, b) ==
    /\ b \in Evicted(buckets, now)
    /\ ok = Admits(b, i, now)
    /\ buckets' = After(b, i, now)
=============================================================================
