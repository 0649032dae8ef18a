--------------------------- MODULE PublisherProofs ---------------------------
(* Proofs about pushing verdicts to MISP, for any batch, any number of      *)
(* attempts and pushes, and any amount of company on the server.            *)
EXTENDS MISPPublisher, SequenceTheorems, TLAPS

-----------------------------------------------------------------------------
(* What becomes of the members of a sequence.                               *)

LEMMA ContainsAppend ==
    ASSUME NEW S, NEW s \in Seq(S), NEW e \in S, NEW i
    PROVE  Contains(Append(s, e), i) <=> Contains(s, i) \/ i = e
  BY DEF Contains

LEMMA ContainsTail ==
    ASSUME NEW S, NEW s \in Seq(S), s # <<>>, NEW i
    PROVE  Contains(s, i) => i = Head(s) \/ Contains(Tail(s), i)
  <1> SUFFICES ASSUME NEW k \in 1..Len(s), s[k] = i, k # 1
               PROVE  Contains(Tail(s), i)
    BY DEF Contains
  <1>1. k - 1 \in 1..Len(Tail(s)) /\ Tail(s)[k - 1] = i
    BY HeadTailProperties
  <1> QED
    BY <1>1 DEF Contains

LEMMA NothingInEmpty == \A i : ~Contains(<<>>, i)
  BY DEF Contains

LEMMA SomethingInNonempty ==
    ASSUME NEW S, NEW s \in Seq(S), s # <<>>
    PROVE  Head(s) \in S /\ Tail(s) \in Seq(S)
  BY HeadTailProperties

LEMMA SentInBatch == \A i \in Sent : Contains(Batch, i)
  BY PublisherAssumption DEF Sent, Contains

-----------------------------------------------------------------------------
Types ==
    /\ events \in [Iocs -> Nat]
    /\ step \in {"idle", "search", "sight", "create", "done", "raised"}
    /\ todo \in Seq(Iocs) /\ fresh \in Seq(Iocs)
    /\ created \in [Iocs -> Nat]
    /\ trouble \in BOOLEAN

Searching == step \in {"search", "sight"}
Running == step \in {"search", "sight", "create"}

(* What step the push is at fits what is left of the batch; the verdict a   *)
(* sighting is added for is on the server.                                  *)
Shape ==
    /\ Searching => todo # <<>>
    /\ step = "create" => todo = <<>>
    /\ step = "sight" => events[Head(todo)] > 0

(* A verdict that was sent is still to be searched for, or was not found    *)
(* and goes into the event, or is on the server.                            *)
Accounted ==
    Running => \A i \in Sent : Contains(todo, i) \/ Contains(fresh, i) \/ events[i] > 0

(* While every answer arrived and nobody else wrote, the verdicts of the    *)
(* event are not on the server until it is created, and creating it is the  *)
(* last thing a push does.                                                  *)
Unsent ==
    ~trouble /\ (Running \/ step = "idle") =>
        \A i \in Iocs : created[i] = 0 /\ (Contains(fresh, i) => events[i] = 0)
NotRaised == ~trouble => step # "raised"

PushInv ==
    Types /\ Shape /\ Accounted /\ NothingLost /\ Unsent /\ NotRaised /\ SmartWhenReliable

-----------------------------------------------------------------------------
LEMMA PushInitInv == Init => PushInv
  <1> SUFFICES ASSUME Init PROVE PushInv
    OBVIOUS
  <1>1. Types
    <2>1. <<>> \in Seq(Iocs) /\ [i \in Iocs |-> 0] \in [Iocs -> Nat]
      BY EmptySeq
    <2> QED
      BY <2>1 DEF Init, Types
  <1>2. Accounted /\ Shape /\ NothingLost
    BY DEF Init, Accounted, Shape, Searching, Running, NothingLost
  <1>3. Unsent /\ NotRaised /\ SmartWhenReliable
    BY NothingInEmpty DEF Init, Unsent, NotRaised, SmartWhenReliable
  <1> QED
    BY <1>1, <1>2, <1>3 DEF PushInv

(* After a verdict the push goes on with the rest of the batch, and what it *)
(* does next fits what is left of it.                                       *)
LEMMA NextVerdictFacts ==
    ASSUME Types, todo # <<>>, NEW f \in Seq(Iocs), NextVerdict(f)
    PROVE  /\ todo' \in Seq(Iocs) /\ fresh' = f
           /\ step' \in {"search", "create", "done"}
           /\ step' = "search" <=> todo' # <<>>
           /\ step' = "done" => f = <<>>
           /\ \A i : Contains(todo, i) => i = Head(todo) \/ Contains(todo', i)
  <1>1. Tail(todo) \in Seq(Iocs)
    BY SomethingInNonempty DEF Types
  <1>2. \A i : Contains(todo, i) => i = Head(todo) \/ Contains(Tail(todo), i)
    BY ContainsTail DEF Types
  <1> QED
    BY <1>1, <1>2 DEF NextVerdict

LEMMA AddedFacts ==
    ASSUME NEW count \in [Iocs -> Nat]
    PROVE  /\ Added(count) \in [Iocs -> Nat]
           /\ \A i \in Iocs : /\ i \in Stored => Added(count)[i] = count[i] + 1
                              /\ i \notin Stored => Added(count)[i] = count[i]
  BY DEF Added

-----------------------------------------------------------------------------
(* One lemma per action.                                                    *)

LEMMA StartInv == PushInv /\ Start => PushInv'
  <1> SUFFICES ASSUME PushInv, Start PROVE PushInv'
    OBVIOUS
  <1>1. Types'
    <2>1. <<>> \in Seq(Iocs) /\ [i \in Iocs |-> 0] \in [Iocs -> Nat]
      BY EmptySeq
    <2> QED
      BY <2>1, PublisherAssumption DEF Start, PushInv, Types, server
  <1>2. Shape' /\ Accounted'
    BY SentInBatch, PublisherAssumption DEF Start, Shape, Accounted, Searching, Running
  <1>3. NothingLost' /\ Unsent' /\ NotRaised' /\ SmartWhenReliable'
    BY NothingInEmpty DEF Start, NothingLost, Unsent, NotRaised, SmartWhenReliable
  <1> QED
    BY <1>1, <1>2, <1>3 DEF PushInv

LEMMA ForeignInv == ASSUME PushInv, NEW j \in Iocs, Foreign(j) PROVE PushInv'
  <1>1. Types' /\ trouble' /\ \A i \in Iocs : events'[i] >= events[i]
    BY DEF Foreign, PushInv, Types, push
  <1>2. step' = step /\ todo' = todo /\ fresh' = fresh
    BY DEF Foreign, push
  <1>3. \A i \in Sent : i \in Iocs
    BY PublisherAssumption DEF Sent
  <1>4. \A i \in Iocs : events[i] \in Nat /\ events'[i] \in Nat /\ (events[i] > 0 => events'[i] > 0)
    BY <1>1 DEF PushInv, Types
  <1>5. Shape'
    BY <1>2, <1>4, SomethingInNonempty DEF PushInv, Types, Shape, Searching
  <1>6. Accounted' /\ NothingLost'
    BY <1>2, <1>3, <1>4 DEF PushInv, Accounted, NothingLost, Running
  <1>7. Unsent' /\ NotRaised' /\ SmartWhenReliable'
    BY <1>1 DEF Unsent, NotRaised, SmartWhenReliable
  <1> QED
    BY <1>1, <1>5, <1>6, <1>7 DEF PushInv

(* A failed attempt that is tried again has been noticed.                   *)
LEMMA RetriedNoticed ==
    ASSUME NEW answer, Retried(answer), trouble' = (trouble \/ answer # "ok")
    PROVE  trouble'
  BY DEF Retried

LEMMA SearchInv == ASSUME PushInv, NEW answer \in Answers, Search(answer) PROVE PushInv'
  <1> DEFINE h == Head(todo)
  <1>1. /\ step = "search" /\ todo # <<>> /\ Running /\ Searching
        /\ events' = events /\ created' = created
        /\ trouble' = (trouble \/ answer # "ok") /\ trouble \in BOOLEAN
        /\ events \in [Iocs -> Nat] /\ created \in [Iocs -> Nat]
    BY DEF Search, PushInv, Shape, Searching, Running, server, Types
  <1>2. h \in Iocs /\ todo \in Seq(Iocs) /\ fresh \in Seq(Iocs) /\ Append(fresh, h) \in Seq(Iocs)
    BY <1>1, SomethingInNonempty DEF PushInv, Types
  <1>3. CASE Retried(answer)
    <2>1. step' = step /\ todo' = todo /\ fresh' = fresh /\ trouble'
      BY <1>1, <1>3, RetriedNoticed DEF Search, Again
    <2> QED
      BY <1>1, <2>1 DEF PushInv, Types, Shape, Accounted, NothingLost, Unsent, NotRaised,
                        SmartWhenReliable, Searching, Running
  <1>4. CASE ~Retried(answer) /\ answer = "ok" /\ events[h] > 0
    <2>1. step' = "sight" /\ todo' = todo /\ fresh' = fresh
      BY <1>4 DEF Search
    <2>2. Types' /\ Shape'
      BY <1>1, <1>4, <2>1 DEF PushInv, Types, Shape, Searching
    <2>3. Accounted' /\ NothingLost'
      BY <1>1, <2>1 DEF PushInv, Accounted, NothingLost, Running
    <2>4. Unsent' /\ NotRaised' /\ SmartWhenReliable'
      BY <1>1, <2>1 DEF PushInv, Unsent, NotRaised, SmartWhenReliable, Running
    <2> QED
      BY <2>2, <2>3, <2>4 DEF PushInv
  <1>5. CASE ~Retried(answer) /\ ~(answer = "ok" /\ events[h] > 0)
    <2>1. NextVerdict(Append(fresh, h))
      BY <1>5 DEF Search
    <2>2. /\ todo' \in Seq(Iocs) /\ fresh' = Append(fresh, h)
          /\ step' \in {"search", "create", "done"}
          /\ step' = "search" <=> todo' # <<>>
          /\ step' = "done" => Append(fresh, h) = <<>>
          /\ \A i : Contains(todo, i) => i = h \/ Contains(todo', i)
      BY <1>1, <1>2, <2>1, NextVerdictFacts DEF PushInv
    <2>3. \A i : Contains(fresh', i) <=> Contains(fresh, i) \/ i = h
      BY <1>2, <2>2, ContainsAppend
    <2>4. Append(fresh, h) # <<>>
      BY <1>2, ContainsAppend, NothingInEmpty
    <2>5. Types' /\ Shape'
      BY <1>1, <1>2, <2>2 DEF PushInv, Types, Shape, Searching
    <2>6. Accounted' /\ NothingLost'
      BY <1>1, <2>2, <2>3, <2>4 DEF PushInv, Accounted, NothingLost, Running
    <2>7. ~trouble' => events[h] = 0
      <3>1. ~trouble' => answer = "ok"
        BY <1>1
      <3>2. events[h] \in Nat
        BY <1>1, <1>2
      <3> QED
        BY <1>5, <3>1, <3>2
    <2>8. Unsent' /\ NotRaised' /\ SmartWhenReliable'
      BY <1>1, <2>2, <2>3, <2>7 DEF PushInv, Unsent, NotRaised, SmartWhenReliable, Running
    <2> QED
      BY <2>5, <2>6, <2>8 DEF PushInv
  <1> QED
    BY <1>3, <1>4, <1>5

LEMMA SightInv ==
    ASSUME PushInv, NEW answer \in Answers, NEW handled \in BOOLEAN, Sight(answer, handled)
    PROVE  PushInv'
  <1> DEFINE h == Head(todo)
  <1>1. /\ step = "sight" /\ todo # <<>> /\ Running /\ Searching /\ events[h] > 0
        /\ events' = events /\ created' = created
        /\ trouble' = (trouble \/ answer # "ok") /\ trouble \in BOOLEAN
        /\ events \in [Iocs -> Nat] /\ created \in [Iocs -> Nat]
    BY DEF Sight, PushInv, Shape, Searching, Running, server, Types
  <1>2. h \in Iocs /\ todo \in Seq(Iocs) /\ fresh \in Seq(Iocs)
    BY <1>1, SomethingInNonempty DEF PushInv, Types
  <1>3. CASE Retried(answer)
    <2>1. step' = step /\ todo' = todo /\ fresh' = fresh /\ trouble'
      BY <1>1, <1>3, RetriedNoticed DEF Sight, Again
    <2> QED
      BY <1>1, <2>1 DEF PushInv, Types, Shape, Accounted, NothingLost, Unsent, NotRaised,
                        SmartWhenReliable, Searching, Running
  <1>4. CASE ~Retried(answer)
    <2>1. NextVerdict(fresh)
      BY <1>4 DEF Sight
    <2>2. /\ todo' \in Seq(Iocs) /\ fresh' = fresh
          /\ step' \in {"search", "create", "done"}
          /\ step' = "search" <=> todo' # <<>>
          /\ step' = "done" => fresh = <<>>
          /\ \A i : Contains(todo, i) => i = h \/ Contains(todo', i)
      BY <1>1, <1>2, <2>1, NextVerdictFacts DEF PushInv
    <2>3. Types' /\ Shape'
      BY <1>1, <1>2, <2>2 DEF PushInv, Types, Shape, Searching
    <2>4. \A i \in Sent : Contains(todo', i) \/ Contains(fresh', i) \/ events'[i] > 0
      BY <1>1, <2>2 DEF PushInv, Accounted
    <2>5. Accounted' /\ NothingLost'
      BY <2>2, <2>4, NothingInEmpty DEF Accounted, NothingLost
    <2>6. Unsent' /\ NotRaised' /\ SmartWhenReliable'
      BY <1>1, <2>2 DEF PushInv, Unsent, NotRaised, SmartWhenReliable, Running
    <2> QED
      BY <2>3, <2>5, <2>6 DEF PushInv
  <1> QED
    BY <1>3, <1>4

(* A request that was answered "ok" has been carried out.                   *)
LEMMA HandledFacts ==
    ASSUME NEW answer \in Answers, NEW handled \in HandledWith(answer)
    PROVE  handled \in BOOLEAN /\ (answer = "ok" => handled)
  <1>1. answer \in {"ok", "garbled"} => HandledWith(answer) = {TRUE}
    BY Zenon DEF HandledWith
  <1>2. answer = "refused" => HandledWith(answer) = {FALSE}
    BY Zenon DEF HandledWith
  <1>3. answer \in {"error", "lost"} => HandledWith(answer) = BOOLEAN
    BY Zenon DEF HandledWith
  <1>4. handled \in {TRUE} \/ handled \in {FALSE} \/ handled \in BOOLEAN
    BY <1>1, <1>2, <1>3, Zenon DEF Answers
  <1>5. answer = "ok" => handled \in {TRUE}
    BY <1>1
  <1> QED
    BY <1>4, <1>5

LEMMA CreateInv ==
    ASSUME PushInv, NEW answer \in Answers, NEW handled \in HandledWith(answer), Create(answer, handled)
    PROVE  PushInv'
  <1>1. /\ step = "create" /\ todo = <<>> /\ Running
        /\ events' = (IF handled THEN Added(events) ELSE events)
        /\ created' = (IF handled THEN Added(created) ELSE created)
        /\ trouble' = (trouble \/ answer # "ok") /\ trouble \in BOOLEAN
        /\ events \in [Iocs -> Nat] /\ created \in [Iocs -> Nat]
        /\ fresh \in Seq(Iocs)
    BY DEF Create, PushInv, Shape, Running, Types
  <1>2. /\ todo' = todo /\ fresh' = fresh
        /\ step' \in {"create", "done", "raised"}
        /\ step' = "done" <=> ~Retried(answer) /\ answer = "ok"
        /\ step' = "create" <=> Retried(answer)
    BY <1>1 DEF Create, Again
  <1>3. handled \in BOOLEAN /\ (answer = "ok" => handled) /\ (Retried(answer) => answer # "ok")
    BY HandledFacts DEF Retried
  <1>4. /\ events' \in [Iocs -> Nat] /\ created' \in [Iocs -> Nat]
        /\ \A i \in Iocs : events'[i] >= events[i]
        /\ handled => \A i \in Iocs : i \in Stored => events'[i] = events[i] + 1 /\ created'[i] = created[i] + 1
        /\ \A i \in Iocs : i \notin Stored => events'[i] = events[i] /\ created'[i] = created[i]
    <2>1. \A i \in Iocs : events[i] \in Nat /\ created[i] \in Nat
      BY <1>1
    <2>2. CASE handled
      <3>1. events' = Added(events) /\ created' = Added(created)
        BY <1>1, <2>2
      <3>2. /\ events' \in [Iocs -> Nat] /\ created' \in [Iocs -> Nat]
            /\ \A i \in Stored \cap Iocs : events'[i] = events[i] + 1 /\ created'[i] = created[i] + 1
            /\ \A i \in Iocs \ Stored : events'[i] = events[i] /\ created'[i] = created[i]
        BY <1>1, <3>1, AddedFacts
      <3>3. \A i \in Iocs : events'[i] >= events[i]
        BY <2>1, <3>2
      <3> QED
        BY <3>2, <3>3
    <2>3. CASE ~handled
      <3>1. events' = events /\ created' = created
        BY <1>1, <2>3
      <3> QED
        BY <1>1, <2>1, <2>3, <3>1
    <2> QED
      BY <2>2, <2>3
  <1>5. \A i \in Sent : i \in Iocs
    BY PublisherAssumption DEF Sent
  <1>6. Types' /\ Shape'
    BY <1>1, <1>2, <1>3, <1>4 DEF PushInv, Types, Shape, Searching
  <1>7. \A i \in Iocs : events[i] > 0 => events'[i] > 0
    BY <1>1, <1>4
  <1>8. Accounted'
    BY <1>1, <1>2, <1>5, <1>7 DEF PushInv, Accounted, Running
  <1>9. NothingLost'
    <2> SUFFICES ASSUME step' = "done", NEW i \in Sent, i \in Mappable
                 PROVE  events'[i] > 0
      BY DEF NothingLost
    <2>1. Contains(fresh, i) \/ events[i] > 0
      BY <1>1, NothingInEmpty DEF PushInv, Accounted
    <2>2. handled
      BY <1>2, <1>3
    <2>3. CASE Contains(fresh, i)
      BY <1>1, <1>4, <1>5, <2>2, <2>3 DEF Stored
    <2> QED
      BY <1>5, <1>7, <2>1, <2>3
  <1>10. Unsent' /\ NotRaised'
    BY <1>1, <1>2, <1>3 DEF Unsent, NotRaised, Running
  <1>11. SmartWhenReliable'
    <2> SUFFICES ASSUME ~trouble', NEW i \in Iocs
                 PROVE  created'[i] = 0 \/ (created'[i] = 1 /\ events'[i] = 1)
      BY DEF SmartWhenReliable
    <2>1. ~trouble /\ handled
      BY <1>1, <1>3
    <2>2. created[i] = 0 /\ (Contains(fresh, i) => events[i] = 0)
      BY <1>1, <2>1 DEF PushInv, Unsent
    <2>3. i \in Stored => Contains(fresh, i)
      BY DEF Stored
    <2> QED
      BY <1>4, <2>1, <2>2, <2>3
  <1> QED
    BY <1>6, <1>8, <1>9, <1>10, <1>11 DEF PushInv

LEMMA PushStepInv == PushInv /\ [Next]_vars => PushInv'
  <1> SUFFICES ASSUME PushInv, [Next]_vars PROVE PushInv'
    OBVIOUS
  <1>1. CASE UNCHANGED vars
    BY <1>1 DEF vars, server, push, history, PushInv, Types, Shape, Accounted, NothingLost, Unsent,
                NotRaised, SmartWhenReliable, Searching, Running
  <1>2. ASSUME NEW answer \in Answers, NEW handled \in HandledWith(answer), Sight(answer, handled)
        PROVE  PushInv'
    <2>1. handled \in BOOLEAN
      BY HandledFacts
    <2> QED
      BY <1>2, <2>1, SightInv
  <1> QED
    BY <1>1, <1>2, StartInv, ForeignInv, SearchInv, CreateInv DEF Next, Post

(* After a push that reported success the server has every IOC that can be  *)
(* an attribute, however many attempts were lost, refused or done twice     *)
(* (misp_publisher.py:46-73).                                               *)
THEOREM NothingLostTheorem == Spec => []NothingLost
  <1>1. PushInv => NothingLost
    BY DEF PushInv
  <1> QED
    BY <1>1, PushInitInv, PushStepInv, PTL DEF Spec

(* A push whose answers all arrive, with nobody else writing, adds no IOC   *)
(* the server had, and none twice.                                          *)
THEOREM SmartTheorem == Spec => []SmartWhenReliable
  <1>1. PushInv => SmartWhenReliable
    BY DEF PushInv
  <1> QED
    BY <1>1, PushInitInv, PushStepInv, PTL DEF Spec
=============================================================================
