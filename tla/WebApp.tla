------------------------------- MODULE WebApp -------------------------------
(* The request handlers of the web demo (web/app.py) over its rate limiter  *)
(* and its daily quota: the middleware asks the limiter, the handler waits  *)
(* for the body, looks at the quota, charges it and awaits the lookup; a    *)
(* request that brings its own keys is not charged.  One event loop serves  *)
(* all requests, so two handlers interleave only where one awaits; the      *)
(* clock moves at any moment, midnight between two of its reads included.   *)
EXTENDS Integers, Sequences, FiniteSets

CONSTANTS
    Ids,          \* client identifiers
    Requests,     \* requests the server can have open at once
    MaxRequests, Window,
    Limit, DayLength, \* length of a day, in ticks
    MaxEntries,
    MaxClock,     \* bound on the clock
    NoBucket, NoDay, NoClient

ASSUME WebAppAssumption ==
    /\ MaxRequests \in Nat \ {0} /\ Window \in Nat \ {0} /\ MaxEntries \in Nat \ {0}
    /\ Limit \in Int
    /\ DayLength \in Nat \ {0}
    /\ MaxClock \in Nat
    /\ NoClient \notin Ids
    /\ NoBucket \notin [start : Nat, count : Nat]
    /\ NoDay \notin [day : Nat, used : Nat]

VARIABLES
    clock,
    buckets,   \* the limiter's table
    days,      \* the quota's table
    phase,     \* where each open request is, "none" when there is none
    client,    \* whose it is
    ran,       \* history: scans with the server's keys, by client, today,
               \* counted up to one more than Limit
    recent,    \* history: moments of admission, by client, one window back,
               \* the last 2 * MaxRequests of them, until its bucket is lost
    lostBuckets, \* history: clients whose live bucket was evicted
    lostDays     \* history: clients whose entry of today was evicted

tables == <<buckets, days>>
history == <<ran, recent, lostBuckets, lostDays>>
vars == <<clock, tables, phase, client, history>>

Limiter == INSTANCE RateLimiter
Quota == INSTANCE DailyQuota

Today == clock \div DayLength

(* Mutant of LoopFree: an await between the quota's check and its charge.   *)
LoopBusy == TRUE

(* No handler is between two calls with no await in between.                *)
LoopFree == \A r \in Requests : phase[r] # "charging"

Goes(r, p) == phase' = [phase EXCEPT ![r] = p]
Closes(r) == Goes(r, "none") /\ client' = [client EXCEPT ![r] = NoClient]

Lately(times) ==
    IF Len(times) > 2 * MaxRequests THEN Tail(times) ELSE times

(* The moments of a client whose live bucket was evicted are not followed.  *)
Followed(moments) == [i \in Ids |-> IF i \in lostBuckets' THEN <<>> ELSE moments[i]]

(* What is left of these moments one window before now.                     *)
InWindow(times, now) ==
    LET gone == {n \in DOMAIN times : times[n] <= now - Window}
    IN  SubSeq(times, Cardinality(gone) + 1, Len(times))

-----------------------------------------------------------------------------
Init ==
    /\ clock = 0
    /\ buckets = [i \in Ids |-> NoBucket]
    /\ days = [i \in Ids |-> NoDay]
    /\ phase = [r \in Requests |-> "none"]
    /\ client = [r \in Requests |-> NoClient]
    /\ ran = [i \in Ids |-> 0]
    /\ recent = [i \in Ids |-> <<>>]
    /\ lostBuckets = {} /\ lostDays = {}

(* enforce_limits: the limiter is asked; a refused request gets 429.        *)
Arrive(r, i) ==
    /\ LoopFree
    /\ phase[r] = "none"
    /\ \E ok \in BOOLEAN, b \in Limiter!Evicted(buckets, clock) :
        /\ Limiter!Allow(i, clock, ok, b)
        /\ lostBuckets' = lostBuckets \cup {j \in Ids : b[j] # buckets[j] /\ clock - buckets[j].start < Window}
        /\ IF ok
           THEN /\ Goes(r, "body")
                /\ client' = [client EXCEPT ![r] = i]
                /\ recent' = Followed([recent EXCEPT ![i] = Lately(Append(@, clock))])
           ELSE UNCHANGED <<phase, client>> /\ recent' = Followed(recent)
    /\ UNCHANGED <<clock, days, ran, lostDays>>

(* The body is here and the handler answers without a lookup: the quota     *)
(* endpoint, a malformed body, a text without IOCs.                         *)
AnswerAtOnce(r) ==
    /\ LoopFree
    /\ phase[r] = "body"
    /\ Closes(r)
    /\ UNCHANGED <<clock, tables, history>>

(* The body brings keys: the lookup runs on them.                           *)
LookupWithOwnKeys(r) ==
    /\ LoopFree
    /\ phase[r] = "body"
    /\ Goes(r, "lookup")
    /\ UNCHANGED <<clock, tables, client, history>>

(* q.status: 402 when it is used up.                                        *)
CheckQuota(r) ==
    /\ LoopFree
    /\ phase[r] = "body"
    /\ IF Quota!Exhausted(days, client[r], Today)
       THEN Closes(r)
       ELSE Goes(r, "charging") /\ UNCHANGED client
    /\ UNCHANGED <<clock, tables, history>>

(* q.consume, whose answer is not looked at, and the lookup starts.         *)
Charge(r) ==
    /\ phase[r] = "charging"
    /\ \E q \in Quota!Evicted(days, Today) :
        /\ Quota!Consume(client[r], Today, q)
        /\ lostDays' = lostDays \cup {j \in Ids : q[j] # days[j] /\ days[j].day = Today}
    /\ ran' = [ran EXCEPT ![client[r]] = IF @ > Limit THEN @ ELSE @ + 1]
    /\ Goes(r, "lookup")
    /\ UNCHANGED <<clock, buckets, client, recent, lostBuckets>>

(* The lookup returned, or raised: 200 or 500; nothing is given back.       *)
Finish(r) ==
    /\ LoopFree
    /\ phase[r] = "lookup"
    /\ Closes(r)
    /\ UNCHANGED <<clock, tables, history>>

(* The process restarts: both tables are in its memory, and the histories   *)
(* are those of one process.                                                *)
Restart ==
    /\ buckets' = [i \in Ids |-> NoBucket]
    /\ days' = [i \in Ids |-> NoDay]
    /\ phase' = [r \in Requests |-> "none"]
    /\ client' = [r \in Requests |-> NoClient]
    /\ ran' = [i \in Ids |-> 0]
    /\ recent' = [i \in Ids |-> <<>>]
    /\ lostBuckets' = {} /\ lostDays' = {}
    /\ UNCHANGED clock

(* Time passes; the histories are those of this day and this window.        *)
Tick ==
    /\ clock < MaxClock
    /\ clock' = clock + 1
    /\ IF clock' \div DayLength # Today
       THEN ran' = [i \in Ids |-> 0] /\ lostDays' = {}
       ELSE UNCHANGED <<ran, lostDays>>
    /\ recent' = [i \in Ids |-> InWindow(recent[i], clock + 1)]
    /\ UNCHANGED <<tables, phase, client, lostBuckets>>

Next ==
    \/ \E r \in Requests, i \in Ids : Arrive(r, i)
    \/ \E r \in Requests :
          AnswerAtOnce(r) \/ LookupWithOwnKeys(r) \/ CheckQuota(r) \/ Charge(r) \/ Finish(r)
    \/ Restart
    \/ Tick

Spec == Init /\ [][Next]_vars

-----------------------------------------------------------------------------
(* Neither table outgrows its capacity (quota.py:92, rate_limit.py:61).     *)
TablesBounded ==
    /\ Cardinality(Quota!Tracked(days)) <= MaxEntries
    /\ Cardinality(Limiter!Tracked(buckets)) <= MaxEntries

(* The quota counts exactly the scans of today that ran on the server's     *)
(* keys, and so caps them (app.py:376-379): whatever is in flight at        *)
(* midnight, whoever interleaves, unless the entry was evicted that day.    *)
ScansCounted ==
    \A i \in Ids \ lostDays :
        /\ ran[i] = Quota!Used(days, i, Today)
        /\ ran[i] <= IF Limit > 0 THEN Limit ELSE 0

(* In any Window ticks a client is admitted less than 2 * MaxRequests times *)
(* (rate_limit.py:48, a fixed window): the last of one bucket and all of    *)
(* the next, unless its bucket was evicted while in use.                    *)
BurstBounded ==
    \A i \in Ids \ lostBuckets : Len(recent[i]) <= 2 * MaxRequests - 1

(* quota.py:3 "this one limits *how much of the owner's TI API budget* a    *)
(* single visitor can burn in a UTC day": no client gets more than Limit    *)
(* scans in a day while the process lives.                                  *)
BudgetHolds ==
    \A i \in Ids : ran[i] <= IF Limit > 0 THEN Limit ELSE 0
=============================================================================
