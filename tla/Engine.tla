------------------------------- MODULE Engine -------------------------------
(* The asynchronous lookup engine (engine.py) over the shared cache: every  *)
(* request fans out into one task per (source, IOC) pair; a task reads the  *)
(* cache, on a miss waits for one of the engine's slots, calls the source   *)
(* and writes the answer back.  Several engines - the server's, the one a   *)
(* bring-your-own-keys request builds for itself, those of other processes  *)
(* on the same database file - run side by side.                            *)
EXTENDS Integers, Sequences, SequencesExt, FiniteSets

CONSTANTS
    Engines,        \* Engine objects, each with its own semaphore
    Requests,       \* calls of lookup_one / lookup_many
    Sources, Iocs,
    HostOf,         \* HostOf[r]: the engine request r is made to
    CachedEngines,  \* the engines built with a TICache
    Configured,     \* Configured[e]: the sources whose keys e has
    Supported,      \* Supported[s]: the IOCs whose type s supports
    MaxConcurrency, \* slots of each engine
    TTL,            \* IOC_CACHE_TTL, seconds
    MaxFlight,      \* longest time from a source's answer to its delivery
    SourceMayRaise, \* a source may raise instead of returning an error
    CacheMayRaise,  \* TICache.set may raise (database locked)
    MaxCrashes,     \* bound on process exits
    MaxClock,       \* bound on the clock
    NoRow, NoAnswer, ErrorResult, Exception

ASSUME EngineAssumption ==
    /\ IsFiniteSet(Requests) /\ IsFiniteSet(Sources) /\ IsFiniteSet(Iocs)
    /\ HostOf \in [Requests -> Engines]
    /\ CachedEngines \subseteq Engines
    /\ Configured \in [Engines -> SUBSET Sources]
    /\ Supported \in [Sources -> SUBSET Iocs]
    /\ MaxConcurrency \in Nat \ {0}
    /\ TTL \in Int
    /\ MaxFlight \in Nat
    /\ SourceMayRaise \in BOOLEAN /\ CacheMayRaise \in BOOLEAN
    /\ MaxCrashes \in Nat
    /\ MaxClock \in Nat

Keys == Sources \X Iocs
Tasks == Requests \X Keys

RequestOf(t) == t[1]
KeyOf(t) == t[2]
EngineOf(t) == HostOf[t[1]]

(* An answer of a source: the key asked, the moment the source evaluated it *)
(* and the engine whose API keys paid for it.                               *)
Answers == [key : Keys, at : Nat, via : Engines]

ASSUME SentinelAssumption ==
    /\ NoAnswer \notin Answers /\ ErrorResult \notin Answers /\ Exception \notin Answers
    /\ NoAnswer # ErrorResult /\ NoAnswer # Exception /\ ErrorResult # Exception

VARIABLES
    clock,    \* wall clock, whole seconds
    rows,     \* the ti_cache table
    req,      \* status of each request
    batch,    \* the IOCs of each request
    pc,       \* where each task is
    begun,    \* history: when a task short of its answer missed the cache
    res,      \* the outcome a task holds
    permits,  \* value of each engine's semaphore
    waiters,  \* futures queued on each engine's semaphore
    crashes   \* process exits so far

taskVars == <<pc, begun, res>>
slotVars == <<permits, waiters>>
vars == <<clock, rows, req, batch, taskVars, slotVars, crashes>>

Cache == INSTANCE TICache WITH Payloads <- Answers, TicksPerSecond <- 1

(* Offered[e]: the pairs engine e looks up, active_sources x supports.      *)
Offered == [e \in Engines |-> {k \in Keys : k[1] \in Configured[e] /\ k[2] \in Supported[k[1]]}]

Lookups(r, b) ==
    {t \in Tasks : RequestOf(t) = r /\ KeyOf(t)[2] \in b /\ KeyOf(t) \in Offered[HostOf[r]]}

TasksOf(r) == {t \in Tasks : RequestOf(t) = r /\ pc[t] # "none"}

(* Tasks that hold a slot: the semaphore's value is already paid.           *)
Holding == {"granted", "calling", "answered"}
Holders(e) == {t \in Tasks : EngineOf(t) = e /\ pc[t] \in Holding}

TaskStates == {"none", "ready", "waiting", "done", "failed", "lost"} \cup Holding

-----------------------------------------------------------------------------
(* asyncio.Semaphore.  A waiter keeps its place in the queue until it runs  *)
(* again, and a newcomer queues behind it even when a slot is free.         *)

(* The first n waiters of queue q that were not woken yet.                  *)
Woken(q, n) ==
    LET asleep == {i \in DOMAIN q : pc[q[i]] = "waiting"}
    IN  {q[i] : i \in {i \in asleep : Cardinality({j \in asleep : j < i}) < n}}

(* Task t goes to state s; n slots of engine e are free and the first k     *)
(* sleepers of its queue q are handed one each.                             *)
MoveAndWake(t, s, e, n, q, k) ==
    /\ pc' = [u \in Tasks |-> IF u = t THEN s
                              ELSE IF u \in Woken(q, k) THEN "granted" ELSE pc[u]]
    /\ permits' = [permits EXCEPT ![e] = n - Cardinality(Woken(q, k))]
    /\ waiters' = [waiters EXCEPT ![e] = q]

Acquire(t, e) ==
    IF permits[e] > 0 /\ waiters[e] = <<>>
    THEN /\ pc' = [pc EXCEPT ![t] = "calling"]
         /\ permits' = [permits EXCEPT ![e] = @ - 1]
         /\ UNCHANGED waiters
    ELSE /\ pc' = [pc EXCEPT ![t] = "waiting"]
         /\ waiters' = [waiters EXCEPT ![e] = Append(@, t)]
         /\ UNCHANGED permits

(* release() wakes one sleeper at most.                                     *)
Release(t, s, e) == MoveAndWake(t, s, e, permits[e] + 1, waiters[e], 1)

-----------------------------------------------------------------------------
Init ==
    /\ clock = 0
    /\ rows = [k \in Keys |-> NoRow]
    /\ req = [r \in Requests |-> "idle"]
    /\ batch = [r \in Requests |-> {}]
    /\ pc = [t \in Tasks |-> "none"]
    /\ begun = [t \in Tasks |-> 0]
    /\ res = [t \in Tasks |-> NoAnswer]
    /\ permits = [e \in Engines |-> MaxConcurrency]
    /\ waiters = [e \in Engines |-> <<>>]
    /\ crashes = 0

(* lookup_many: one task per IOC and applicable source.  An IOC without     *)
(* applicable source answers UNKNOWN at once and has no task.               *)
Submit(r, b) ==
    /\ req[r] = "idle"
    /\ req' = [req EXCEPT ![r] = "open"]
    /\ batch' = [batch EXCEPT ![r] = b]
    /\ pc' = [t \in Tasks |-> IF t \in Lookups(r, b) THEN "ready" ELSE pc[t]]
    /\ UNCHANGED <<clock, rows, begun, res, slotVars, crashes>>

(* Mutant of CacheHit: expired rows are served.                             *)
CacheHitExpired(t) == EngineOf(t) \in CachedEngines /\ rows[KeyOf(t)] # NoRow

CacheHit(t) == EngineOf(t) \in CachedEngines /\ Cache!Hit(KeyOf(t))

(* Mutant of BeginHit: the cache entry is returned, not the result in it.   *)
BeginHitEntry(t) ==
    /\ pc[t] = "ready"
    /\ CacheHit(t)
    /\ pc' = [pc EXCEPT ![t] = "done"]
    /\ res' = [res EXCEPT ![t] = rows[KeyOf(t)]]
    /\ UNCHANGED <<clock, rows, req, batch, begun, slotVars, crashes>>

(* _lookup_cached up to its first suspension, on a hit: no slot is taken.   *)
BeginHit(t) ==
    /\ pc[t] = "ready"
    /\ CacheHit(t)
    /\ pc' = [pc EXCEPT ![t] = "done"]
    /\ res' = [res EXCEPT ![t] = rows[KeyOf(t)].payload]
    /\ UNCHANGED <<clock, rows, req, batch, begun, slotVars, crashes>>

(* Mutant of BeginMiss: the source is called without a look at the cache.   *)
BeginUncached(t) ==
    /\ pc[t] = "ready"
    /\ begun' = [begun EXCEPT ![t] = clock]
    /\ Acquire(t, EngineOf(t))
    /\ UNCHANGED <<clock, rows, req, batch, res, crashes>>

(* The same on a miss: take a slot or queue for one.                        *)
BeginMiss(t) ==
    /\ pc[t] = "ready"
    /\ ~CacheHit(t)
    /\ begun' = [begun EXCEPT ![t] = clock]
    /\ Acquire(t, EngineOf(t))
    /\ UNCHANGED <<clock, rows, req, batch, res, crashes>>

(* Mutant of Resume: free slots are not passed on.                          *)
ResumeAlone(t) ==
    /\ pc[t] = "granted"
    /\ LET e == EngineOf(t)
           q == waiters[e]
       IN  \E i \in DOMAIN q :
               q[i] = t /\ MoveAndWake(t, "calling", e, permits[e], RemoveAt(q, i), 0)
    /\ UNCHANGED <<clock, rows, req, batch, begun, res, crashes>>

(* A woken waiter runs: it leaves the queue, passes free slots on to those  *)
(* behind it, and calls the source.  The cache is not read again.           *)
Resume(t) ==
    /\ pc[t] = "granted"
    /\ LET e == EngineOf(t)
           q == waiters[e]
       IN  \E i \in DOMAIN q :
               /\ q[i] = t
               /\ MoveAndWake(t, "calling", e, permits[e], RemoveAt(q, i), permits[e])
    /\ UNCHANGED <<clock, rows, req, batch, begun, res, crashes>>

(* The source evaluates the query; the reply is now under way.              *)
SourceReplies(t) ==
    /\ pc[t] = "calling"
    /\ pc' = [pc EXCEPT ![t] = "answered"]
    /\ \E a \in {[key |-> KeyOf(t), at |-> clock, via |-> EngineOf(t)], ErrorResult}
                \cup (IF SourceMayRaise THEN {Exception} ELSE {}) :
           res' = [res EXCEPT ![t] = a]
    /\ begun' = [begun EXCEPT ![t] = 0]
    /\ UNCHANGED <<clock, rows, req, batch, slotVars, crashes>>

(* Mutant of DeliverResult: the cache is written whoever asked.             *)
DeliverMixed(t) ==
    /\ pc[t] = "answered"
    /\ res[t] # Exception
    /\ Release(t, "done", EngineOf(t))
    /\ rows' = IF res[t] # ErrorResult
               THEN [rows EXCEPT ![KeyOf(t)] = Cache!NewRow(res[t], clock)]
               ELSE rows
    /\ UNCHANGED <<clock, req, batch, begun, res, crashes>>

(* The reply arrives: the slot is released and, in the same step, a result  *)
(* without error is written to the cache.                                   *)
DeliverResult(t) ==
    /\ pc[t] = "answered"
    /\ res[t] # Exception
    /\ Release(t, "done", EngineOf(t))
    /\ rows' = IF EngineOf(t) \in CachedEngines /\ res[t] # ErrorResult
               THEN [rows EXCEPT ![KeyOf(t)] = Cache!NewRow(res[t], clock)]
               ELSE rows
    /\ UNCHANGED <<clock, req, batch, begun, res, crashes>>

(* Mutant of DeliverException: the slot is not released.                    *)
DeliverLeaking(t) ==
    /\ pc[t] = "answered"
    /\ res[t] = Exception
    /\ pc' = [pc EXCEPT ![t] = "failed"]
    /\ UNCHANGED <<clock, rows, req, batch, begun, res, slotVars, crashes>>

(* The source raised: the slot is released and the exception propagates.    *)
DeliverException(t) ==
    /\ pc[t] = "answered"
    /\ res[t] = Exception
    /\ Release(t, "failed", EngineOf(t))
    /\ UNCHANGED <<clock, rows, req, batch, begun, res, crashes>>

(* The cache write raised: a good answer is lost with it.                   *)
CacheSetRaises(t) ==
    /\ CacheMayRaise
    /\ pc[t] = "answered"
    /\ EngineOf(t) \in CachedEngines
    /\ res[t] \in Answers
    /\ Release(t, "failed", EngineOf(t))
    /\ res' = [res EXCEPT ![t] = Exception]
    /\ UNCHANGED <<clock, rows, req, batch, begun, crashes>>

(* gather() of gather()s: all results, or the first exception; the tasks    *)
(* that are still running then go on without their request.                 *)
Return(r) ==
    /\ req[r] = "open"
    /\ \A t \in TasksOf(r) : pc[t] = "done"
    /\ req' = [req EXCEPT ![r] = "returned"]
    /\ UNCHANGED <<clock, rows, batch, taskVars, slotVars, crashes>>

Raise(r) ==
    /\ req[r] = "open"
    /\ \E t \in TasksOf(r) : pc[t] = "failed"
    /\ req' = [req EXCEPT ![r] = "raised"]
    /\ UNCHANGED <<clock, rows, batch, taskVars, slotVars, crashes>>

(* The process of engine e ends and another one takes its place: tasks,     *)
(* slots and open requests are gone, the table stays.                       *)
ProcessExit(e) ==
    /\ crashes < MaxCrashes
    /\ crashes' = crashes + 1
    /\ req' = [r \in Requests |-> IF HostOf[r] = e /\ req[r] = "open" THEN "lost" ELSE req[r]]
    /\ pc' = [t \in Tasks |-> IF EngineOf(t) = e /\ pc[t] \notin {"none", "done", "failed"}
                              THEN "lost" ELSE pc[t]]
    /\ permits' = [permits EXCEPT ![e] = MaxConcurrency]
    /\ waiters' = [waiters EXCEPT ![e] = <<>>]
    /\ UNCHANGED <<clock, rows, batch, begun, res>>

(* Time passes; a reply under way is delivered within MaxFlight seconds.    *)
Tick ==
    /\ clock < MaxClock
    /\ \A t \in Tasks : pc[t] = "answered" /\ res[t] \in Answers => clock < res[t].at + MaxFlight
    /\ clock' = clock + 1
    /\ UNCHANGED <<rows, req, batch, taskVars, slotVars, crashes>>

Step(t) ==
    \/ BeginHit(t) \/ BeginMiss(t) \/ Resume(t) \/ SourceReplies(t)
    \/ DeliverResult(t) \/ DeliverException(t) \/ CacheSetRaises(t)

Finish(r) == Return(r) \/ Raise(r)

Next ==
    \/ \E r \in Requests, b \in SUBSET Iocs : Submit(r, b)
    \/ \E t \in Tasks : Step(t)
    \/ \E r \in Requests : Finish(r)
    \/ \E e \in Engines : ProcessExit(e)
    \/ Tick

Spec == Init /\ [][Next]_vars

(* The event loop runs every ready task, the sources answer (their clients  *)
(* time out), and a gather whose awaitables are settled resumes.            *)
Fairness ==
    /\ \A t \in Tasks : WF_vars(Step(t))
    /\ \A r \in Requests : WF_vars(Finish(r))

FairSpec == Spec /\ Fairness

-----------------------------------------------------------------------------
(* Every variable keeps its type.                                           *)
TypeOK ==
    /\ clock \in Nat
    /\ rows \in [Keys -> Cache!Row \cup {NoRow}]
    /\ req \in [Requests -> {"idle", "open", "returned", "raised", "lost"}]
    /\ batch \in [Requests -> SUBSET Iocs]
    /\ pc \in [Tasks -> TaskStates]
    /\ begun \in [Tasks -> Nat]
    /\ res \in [Tasks -> Answers \cup {NoAnswer, ErrorResult, Exception}]
    /\ permits \in [Engines -> Nat]
    /\ waiters \in [Engines -> Seq(Tasks)]
    /\ crashes \in Nat

(* Free slots and held slots of an engine always add up to MaxConcurrency   *)
(* (engine.py:68): no path through a call - result, exception, failed cache *)
(* write, orphaned task - leaks a slot or returns it twice, so never more   *)
(* than MaxConcurrency calls are in flight.                                 *)
SlotsConserved ==
    \A e \in Engines : permits[e] + Cardinality(Holders(e)) = MaxConcurrency

(* A free slot next to a sleeping waiter is always on its way to it: some   *)
(* woken waiter has yet to run and will pass the slot on.                   *)
NoLostWakeup ==
    \A e \in Engines :
        permits[e] > 0 /\ (\E t \in Tasks : EngineOf(t) = e /\ pc[t] = "waiting")
            => \E t \in Tasks : EngineOf(t) = e /\ pc[t] = "granted"

(* Each stored row answers its own key, comes from a call made with the     *)
(* keys of an engine that shares the cache (app.py:192: results of          *)
(* bring-your-own-keys requests never mix with it), was at most MaxFlight   *)
(* old when stored, and is never an error.                                  *)
RowsTruthful ==
    \A k \in Keys : rows[k] # NoRow =>
        LET a == rows[k].payload IN
        /\ a \in Answers
        /\ a.key = k
        /\ a.via \in CachedEngines
        /\ rows[k].cachedAt - a.at \in 0..MaxFlight
        /\ rows[k].expiresAt = rows[k].cachedAt + TTL

(* A task that is about to call, or is calling, a source although the cache *)
(* holds a fresh row found that row missing: the row was written after the  *)
(* task had read the cache (engine.py:88 is read before the slot at :92 and *)
(* never again).  A row that was there is never paid for twice.             *)
CallJustified ==
    \A t \in Tasks :
        /\ pc[t] \in {"waiting", "granted", "calling"}
        /\ CacheHit(t)
        => rows[KeyOf(t)].cachedAt >= begun[t]

(* What the engine promises its callers (LookupService).                    *)
MaxAge == MaxFlight + (IF TTL > 0 THEN TTL - 1 ELSE 0)

Service == INSTANCE LookupService
    WITH reply <- [t \in Tasks |-> IF pc[t] = "done" THEN res[t] ELSE NoAnswer],
         broken <- {t \in Tasks : pc[t] = "failed"}

(* The engine implements the service: whatever the interleaving, every task *)
(* is answered at most once, with an answer for its own key that is no      *)
(* older than MaxAge and was obtained with keys its request may use.        *)
ImplementsService == Service!Spec

(* Every request is closed in the end: results, an exception, or lost with  *)
(* its process; no task waits for a slot for ever.                          *)
EveryRequestCloses ==
    \A r \in Requests : req[r] = "open" ~> req[r] # "open"
=============================================================================
