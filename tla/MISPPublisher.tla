--------------------------- MODULE MISPPublisher ---------------------------
(* Pushing verdicts to a MISP instance (misp_publisher.py) through the      *)
(* retrying POST (_retry.py): each verdict is searched for; a known IOC     *)
(* gets a sighting, the others go into one new event.  The server is used   *)
(* by others, and may carry out a request whose answer is lost or an error. *)
EXTENDS Integers, Sequences, SequencesExt, FiniteSets

CONSTANTS
    Iocs,
    Mappable,     \* the IOCs whose type to_misp maps to an attribute
    Batch,        \* the IOCs pushed, in order
    MaxAttempts,  \* max_attempts of retry_post
    MaxPushes,    \* bound on runs of the command
    MaxForeign    \* bound on attributes others add

ASSUME PublisherAssumption ==
    /\ Mappable \subseteq Iocs
    /\ Batch \in Seq(Iocs) /\ Batch # <<>>
    /\ MaxAttempts \in Nat \ {0}
    /\ MaxPushes \in Nat /\ MaxForeign \in Nat

VARIABLES
    events,    \* the server: in how many events each IOC is an attribute
    foreign,   \* attributes others added
    step,      \* "idle", "search", "sight", "create", "done" or "raised"
    attempt,   \* attempts made for the current POST
    todo,      \* verdicts not yet searched for
    fresh,     \* new_verdicts
    pushes,    \* runs of the command so far
    created,   \* history: attributes this push has added to the server
    sightings, \* history: sightings this push has added to the server
    trouble    \* history: this push had a failed answer or company

server == <<events, foreign>>
push == <<step, attempt, todo, fresh>>
history == <<created, sightings, trouble>>
vars == <<server, push, pushes, history>>

(* What becomes of one POST: the answer, and whether the server carried it  *)
(* out.  "garbled" is a 200 whose body is no JSON, "refused" any other      *)
(* answer below 500, "error" a 5xx, "lost" a transport error.               *)
Answers == {"ok", "garbled", "refused", "error", "lost"}
HandledWith(answer) ==
    CASE answer \in {"ok", "garbled"} -> {TRUE}
      [] answer = "refused"           -> {FALSE}
      [] OTHER                        -> BOOLEAN

(* retry_post tries again.                                                  *)
Retried(answer) == answer \in {"error", "lost"} /\ attempt + 1 < MaxAttempts

-----------------------------------------------------------------------------
Init ==
    /\ events = [i \in Iocs |-> 0]
    /\ foreign = 0
    /\ step = "idle" /\ attempt = 0 /\ todo = <<>> /\ fresh = <<>>
    /\ pushes = 0
    /\ created = [i \in Iocs |-> 0]
    /\ sightings = [i \in Iocs |-> 0]
    /\ trouble = FALSE

(* The command is run, for the first time or again.                         *)
Start ==
    /\ step \in {"idle", "done", "raised"}
    /\ pushes < MaxPushes
    /\ pushes' = pushes + 1
    /\ step' = "search" /\ attempt' = 0 /\ todo' = Batch /\ fresh' = <<>>
    /\ created' = [i \in Iocs |-> 0]
    /\ sightings' = [i \in Iocs |-> 0]
    /\ trouble' = FALSE
    /\ UNCHANGED server

(* Someone else adds an attribute.                                          *)
Foreign(i) ==
    /\ foreign < MaxForeign
    /\ foreign' = foreign + 1
    /\ events' = [events EXCEPT ![i] = @ + 1]
    /\ trouble' = TRUE
    /\ UNCHANGED <<push, pushes, created, sightings>>

(* After the first verdict: the next one, or the event, or the end.         *)
NextVerdict(newFresh) ==
    /\ todo' = Tail(todo)
    /\ fresh' = newFresh
    /\ attempt' = 0
    /\ step' = IF Tail(todo) # <<>> THEN "search"
               ELSE IF newFresh # <<>> THEN "create" ELSE "done"

Again ==
    /\ attempt' = attempt + 1
    /\ UNCHANGED <<step, todo, fresh>>

(* Mutant of Search: every verdict goes into the event.                     *)
SearchAll(answer) ==
    /\ step = "search"
    /\ trouble' = (trouble \/ answer # "ok")
    /\ IF Retried(answer) THEN Again
       ELSE IF answer = "ok" /\ events[Head(todo)] > 0
       THEN step' = "sight" /\ attempt' = 0 /\ fresh' = Append(fresh, Head(todo)) /\ UNCHANGED todo
       ELSE NextVerdict(Append(fresh, Head(todo)))
    /\ UNCHANGED <<server, pushes, created, sightings>>

(* Mutant of Search: after the last attempt the verdict is searched again.  *)
SearchForever(answer) ==
    /\ step = "search"
    /\ trouble' = (trouble \/ answer # "ok")
    /\ IF Retried(answer) THEN Again
       ELSE IF answer \in {"error", "lost"} THEN attempt' = 0 /\ UNCHANGED <<step, todo, fresh>>
       ELSE IF answer = "ok" /\ events[Head(todo)] > 0
       THEN step' = "sight" /\ attempt' = 0 /\ UNCHANGED <<todo, fresh>>
       ELSE NextVerdict(Append(fresh, Head(todo)))
    /\ UNCHANGED <<server, pushes, created, sightings>>

(* _find_attribute_uuid: any failure reads as "not there".                  *)
Search(answer) ==
    /\ step = "search"
    /\ trouble' = (trouble \/ answer # "ok")
    /\ IF Retried(answer) THEN Again
       ELSE IF answer = "ok" /\ events[Head(todo)] > 0
       THEN step' = "sight" /\ attempt' = 0 /\ UNCHANGED <<todo, fresh>>
       ELSE NextVerdict(Append(fresh, Head(todo)))
    /\ UNCHANGED <<server, pushes, created, sightings>>

(* _add_sighting: any failure is ignored.                                   *)
Sight(answer, handled) ==
    /\ step = "sight"
    /\ trouble' = (trouble \/ answer # "ok")
    /\ sightings' = IF handled THEN [sightings EXCEPT ![Head(todo)] = @ + 1] ELSE sightings
    /\ IF Retried(answer) THEN Again ELSE NextVerdict(fresh)
    /\ UNCHANGED <<server, pushes, created>>

(* The server stores an event with the attributes to_misp gave it.          *)
Stored == {i \in Mappable : Contains(fresh, i)}
Added(count) == [i \in Iocs |-> count[i] + (IF i \in Stored THEN 1 ELSE 0)]

(* Mutant of Create: a refusal is not noticed.                              *)
CreateUnchecked(answer, handled) ==
    /\ step = "create"
    /\ trouble' = (trouble \/ answer # "ok")
    /\ events' = IF handled THEN Added(events) ELSE events
    /\ created' = IF handled THEN Added(created) ELSE created
    /\ IF Retried(answer) THEN Again
       ELSE /\ step' = IF answer \in {"ok", "refused"} THEN "done" ELSE "raised"
            /\ attempt' = 0
            /\ UNCHANGED <<todo, fresh>>
    /\ UNCHANGED <<foreign, pushes, sightings>>

(* _create_event: the POST is not idempotent, and is retried all the same.  *)
Create(answer, handled) ==
    /\ step = "create"
    /\ trouble' = (trouble \/ answer # "ok")
    /\ events' = IF handled THEN Added(events) ELSE events
    /\ created' = IF handled THEN Added(created) ELSE created
    /\ IF Retried(answer) THEN Again
       ELSE /\ step' = IF answer = "ok" THEN "done" ELSE "raised"
            /\ attempt' = 0
            /\ UNCHANGED <<todo, fresh>>
    /\ UNCHANGED <<foreign, pushes, sightings>>

Post ==
    \E answer \in Answers :
        \/ Search(answer)
        \/ \E handled \in HandledWith(answer) : Sight(answer, handled) \/ Create(answer, handled)

Next ==
    \/ Start
    \/ \E i \in Iocs : Foreign(i)
    \/ Post

Spec == Init /\ [][Next]_vars

(* Every POST is answered or times out (30 s).                              *)
FairSpec == Spec /\ WF_vars(Post)

-----------------------------------------------------------------------------
Sent == {Batch[n] : n \in DOMAIN Batch}

(* After a push that reported success the server has every IOC that can be  *)
(* an attribute, whatever was lost, retried or done twice on the way        *)
(* (misp_publisher.py:46-73).                                               *)
NothingLost ==
    step = "done" => \A i \in Sent \cap Mappable : events[i] > 0

(* When every answer arrives and nobody else writes, a push adds each IOC   *)
(* at most once, and none that the server had: pushing again adds sightings *)
(* only.                                                                    *)
SmartWhenReliable ==
    ~trouble => \A i \in Iocs : created[i] = 0 \/ (created[i] = 1 /\ events[i] = 1)

(* Every push comes to an end, successful or raised.                        *)
PushEnds == (step = "search") ~> (step \in {"done", "raised"})

(* misp_publisher.py:4 "IOC already has an attribute in MISP -> POST        *)
(* /sightings/add (avoids duplicate events)": no push puts the same IOC     *)
(* into more than one event.                                                *)
NoDuplicateEvents == \A i \in Iocs : created[i] <= 1
=============================================================================
