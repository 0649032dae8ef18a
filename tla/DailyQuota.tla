----------------------------- MODULE DailyQuota -----------------------------
(* The daily quota (web/quota.py): per client identifier the scans charged  *)
(* on a UTC day, in a table that evicts when it is full.                    *)
EXTENDS Integers, FiniteSets

CONSTANTS
    Ids,        \* client identifiers
    Limit,      \* IOC_WEB_DAILY_QUOTA; any integer is accepted
    MaxEntries, \* capacity of the table
    NoDay

VARIABLE days

Tracked(q) == {i \in Ids : q[i] # NoDay}
Without(q, gone) == [i \in Ids |-> IF i \in gone THEN NoDay ELSE q[i]]

Stale(q, today) == {i \in Tracked(q) : q[i].day < today}
LeastUsed(q) == {i \in Tracked(q) : \A j \in Tracked(q) : q[i].used <= q[j].used}

(* Mutant of Evicted: one entry more than the capacity is let in.           *)
EvictedLate(q, today) ==
    LET kept == Without(q, Stale(q, today)) IN
    IF Cardinality(Tracked(q)) <= MaxEntries THEN {q}
    ELSE IF Cardinality(Tracked(kept)) <= MaxEntries THEN {kept}
    ELSE {Without(kept, {i}) : i \in LeastUsed(kept)}

(* _maybe_evict: nothing below capacity; otherwise the entries of earlier   *)
(* days, and one of the least used when that was not enough.                *)
Evicted(q, today) ==
    LET kept == Without(q, Stale(q, today)) IN
    IF Cardinality(Tracked(q)) < MaxEntries THEN {q}
    ELSE IF Cardinality(Tracked(kept)) < MaxEntries THEN {kept}
    ELSE {Without(kept, {i}) : i \in LeastUsed(kept)}

(* status(i).used *)
Used(q, i, today) == IF q[i] # NoDay /\ q[i].day = today THEN q[i].used ELSE 0
Exhausted(q, i, today) == Used(q, i, today) >= Limit

Charged(q, i, today) ==
    LET used == Used(q, i, today) IN
    [q EXCEPT ![i] = [day |-> today, used |-> IF used + 1 > Limit THEN used ELSE used + 1]]

(* consume(i) on day today; table q is what the eviction left.              *)
Consume(i, today, q) ==
    /\ q \in Evicted(days, today)
    /\ days' = Charged(q, i, today)
=============================================================================
