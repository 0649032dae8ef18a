--------------------------- MODULE LookupService ---------------------------
(* What the lookup engine promises its callers, with no cache, no slots and *)
(* no queues: each lookup of a request gets at most one reply, a truthful   *)
(* and recent answer for that very key obtained with keys the request may   *)
(* use, or an error; a request returns only when all its lookups have a     *)
(* reply, and fails only when one of its lookups failed.                    *)
EXTENDS Integers

CONSTANTS
    Requests, Sources, Iocs, Engines,
    HostOf,        \* the engine a request is made to
    CachedEngines, \* the engines that share the cache
    Offered,       \* Offered[e]: the (source, ioc) pairs engine e looks up
    ErrorResult,   \* a result whose error field is set
    NoAnswer,      \* no reply yet
    MaxAge         \* the oldest a served answer may be

VARIABLES
    clock,
    req,     \* status of each request
    batch,   \* the IOCs of each request
    reply,   \* the reply of each task
    broken   \* tasks whose lookup raised

serviceVars == <<clock, req, batch, reply, broken>>

Tasks == Requests \X (Sources \X Iocs)

(* The lookups of request r for the batch b.                                *)
Lookups(r, b) ==
    {t \in Tasks : t[1] = r /\ t[2][2] \in b /\ t[2] \in Offered[HostOf[r]]}

Init ==
    /\ clock = 0
    /\ req = [r \in Requests |-> "idle"]
    /\ batch = [r \in Requests |-> {}]
    /\ reply = [t \in Tasks |-> NoAnswer]
    /\ broken = {}

Tick ==
    /\ clock' = clock + 1
    /\ UNCHANGED <<req, batch, reply, broken>>

Submit(r, b) ==
    /\ req[r] = "idle"
    /\ req' = [req EXCEPT ![r] = "open"]
    /\ batch' = [batch EXCEPT ![r] = b]
    /\ UNCHANGED <<clock, reply, broken>>

(* An engine without the cache sees only what its own keys bought; the      *)
(* others only what an engine with the cache bought.                        *)
MayUse(e) == IF e \in CachedEngines THEN CachedEngines ELSE {e}

(* The answers task t may be given now.                                     *)
Acceptable(t) ==
    [key : {t[2]},
     at  : {c \in (clock - MaxAge)..clock : c >= 0},
     via : MayUse(HostOf[t[1]])]

Reply(t, a) ==
    /\ reply[t] = NoAnswer
    /\ t \in Lookups(t[1], batch[t[1]])
    /\ t \notin broken
    /\ reply' = [reply EXCEPT ![t] = a]
    /\ UNCHANGED <<clock, req, batch, broken>>

Break(t) ==
    /\ reply[t] = NoAnswer
    /\ t \in Lookups(t[1], batch[t[1]])
    /\ broken' = broken \cup {t}
    /\ UNCHANGED <<clock, req, batch, reply>>

Return(r) ==
    /\ req[r] = "open"
    /\ \A t \in Lookups(r, batch[r]) : reply[t] # NoAnswer
    /\ req' = [req EXCEPT ![r] = "returned"]
    /\ UNCHANGED <<clock, batch, reply, broken>>

Raise(r) ==
    /\ req[r] = "open"
    /\ Lookups(r, batch[r]) \cap broken # {}
    /\ req' = [req EXCEPT ![r] = "raised"]
    /\ UNCHANGED <<clock, batch, reply, broken>>

Lose(R) ==
    /\ \A r \in R : req[r] = "open"
    /\ req' = [r \in Requests |-> IF r \in R THEN "lost" ELSE req[r]]
    /\ UNCHANGED <<clock, batch, reply, broken>>

Next ==
    \/ Tick
    \/ \E r \in Requests, b \in SUBSET Iocs : Submit(r, b)
    \/ \E t \in Tasks : \E a \in Acceptable(t) \cup {ErrorResult} : Reply(t, a)
    \/ \E t \in Tasks : Break(t)
    \/ \E r \in Requests : Return(r) \/ Raise(r)
    \/ \E R \in SUBSET Requests : Lose(R)

Spec == Init /\ [][Next]_serviceVars
=============================================================================
