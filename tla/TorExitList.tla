---------------------------- MODULE TorExitList ----------------------------
(* The list of Tor exits that all lookups of a process share                *)
(* (sources/tor_exit.py). A lookup that finds no list, or an old one,       *)
(* fetches it, and so does every other that comes before the answer: the    *)
(* answers replace the list in the order they arrive. A list is known by    *)
(* the moment the server made it.                                           *)
EXTENDS Integers, FiniteSets

CONSTANTS
    Askers,     \* lookups that may be open at once
    Refresh,    \* _REFRESH_SECONDS
    MaxFlight,  \* the timeout of a fetch
    MaxTime     \* bound on the clock

VARIABLES
    input,   \* the moments at which the published list is empty
    work,    \* [now, taken, empty, loaded, since]: the clock, the list, open fetches
    report   \* the latest answer: when it was given and from which list
vars == <<input, work, report>>

Nothing == [at |-> -1, taken |-> -1]
Idle == -1
Init ==
    /\ input \in {{}, {1}, {2, 3}}
    /\ work = [now |-> 0, taken |-> -1, empty |-> TRUE, loaded |-> 0, since |-> [a \in Askers |-> Idle], done |-> FALSE]
    /\ report = Nothing

FreshForever == ~work.empty   \* mutant: a list once loaded is kept
Fresh == ~work.empty /\ work.now - work.loaded < Refresh

(* lookup, as far as its answer or the fetch.                               *)
AnswerFromList(a) ==
    /\ work.since[a] = Idle /\ Fresh
    /\ report' = [at |-> work.now, taken |-> work.taken]
    /\ UNCHANGED <<input, work>>
StartFetch(a) ==
    /\ work.since[a] = Idle /\ ~Fresh
    /\ work' = [work EXCEPT !.since[a] = work.now]
    /\ UNCHANGED <<input, report>>

(* The answer replaces the list, whatever was fetched meanwhile.            *)
FetchArrives(a) ==
    /\ work.since[a] # Idle
    /\ \E t \in work.since[a]..work.now :
          /\ work' = [work EXCEPT !.taken = t, !.empty = t \in input, !.loaded = work.now, !.since[a] = Idle]
          /\ report' = [at |-> work.now, taken |-> t]
    /\ UNCHANGED input
FetchFails(a) ==
    /\ work.since[a] # Idle
    /\ work' = [work EXCEPT !.since[a] = Idle]
    /\ UNCHANGED <<input, report>>

Tick ==
    /\ work.now < MaxTime
    /\ \A a \in Askers : work.since[a] = Idle \/ work.now - work.since[a] < MaxFlight
    /\ work' = [work EXCEPT !.now = @ + 1]
    /\ UNCHANGED <<input, report>>

Next ==
    \/ \E a \in Askers : AnswerFromList(a) \/ StartFetch(a) \/ FetchArrives(a) \/ FetchFails(a)
    \/ Tick
Spec == Init /\ [][Next]_vars
=============================================================================
