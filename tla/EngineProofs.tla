---------------------------- MODULE EngineProofs ----------------------------
(* Proofs about the lookup engine, for any number of engines, requests,     *)
(* sources and slots.                                                       *)
EXTENDS Engine, SetLemmas, FiniteSetTheorems, SequenceTheorems, TLAPS

-----------------------------------------------------------------------------
(* Typing.                                                                  *)

LEMMA TaskFacts ==
    ASSUME NEW t \in Tasks
    PROVE  /\ RequestOf(t) \in Requests
           /\ KeyOf(t) \in Keys
           /\ EngineOf(t) \in Engines
           /\ EngineOf(t) = HostOf[RequestOf(t)]
  BY EngineAssumption DEF Tasks, RequestOf, KeyOf, EngineOf

LEMMA NewRowType ==
    ASSUME NEW a \in Answers, NEW c \in Nat
    PROVE  /\ Cache!NewRow(a, c) \in Cache!Row
           /\ Cache!NewRow(a, c).payload = a
           /\ Cache!NewRow(a, c).cachedAt = c
           /\ Cache!NewRow(a, c).expiresAt = c + TTL
  <1>1. Cache!Seconds(c) = c /\ c \in Int
    BY DEF Cache!Seconds
  <1> QED
    BY <1>1, EngineAssumption DEF Cache!NewRow, Cache!Row

LEMMA RemoveAtType ==
    ASSUME NEW S, NEW q \in Seq(S), NEW i \in DOMAIN q
    PROVE  RemoveAt(q, i) \in Seq(S)
  BY DEF RemoveAt

(* Waking keeps the types of the task and slot variables.                   *)
LEMMA MoveAndWakeType ==
    ASSUME TypeOK, NEW t \in Tasks, NEW s \in TaskStates, NEW e \in Engines,
           NEW n \in Nat, NEW k \in Nat, NEW q \in Seq(Tasks),
           MoveAndWake(t, s, e, n, q, k),
           n - Cardinality(Woken(q, k)) \in Nat
    PROVE  /\ pc' \in [Tasks -> TaskStates]
           /\ permits' \in [Engines -> Nat]
           /\ waiters' \in [Engines -> Seq(Tasks)]
  BY DEF MoveAndWake, TypeOK, TaskStates, Holding

-----------------------------------------------------------------------------
(* How many a release wakes.                                                *)

LEMMA FiniteTasks == IsFiniteSet(Tasks)
  <1>1. IsFiniteSet(Keys)
    BY EngineAssumption, FS_Product DEF Keys
  <1> QED
    BY <1>1, EngineAssumption, FS_Product DEF Tasks

(* At most n sleepers are woken, each of them a sleeper of the queue: the   *)
(* rank of a sleeper among the sleepers tells those chosen apart.           *)
LEMMA WokenBound ==
    ASSUME NEW q \in Seq(Tasks), NEW n \in Nat
    PROVE  /\ IsFiniteSet(Woken(q, n))
           /\ Cardinality(Woken(q, n)) \in Nat
           /\ Cardinality(Woken(q, n)) <= n
           /\ \A u \in Woken(q, n) : u \in Tasks /\ pc[u] = "waiting"
           /\ \A u \in Woken(q, n) : \E i \in DOMAIN q : q[i] = u
  <1> DEFINE asleep == {i \in DOMAIN q : pc[q[i]] = "waiting"}
             before(i) == {j \in asleep : j < i}
             rank(i) == Cardinality(before(i))
             chosen == {i \in asleep : rank(i) < n}
             ranking == [i \in chosen |-> rank(i)]
             places == [i \in chosen |-> q[i]]
  <1>1. /\ IsFiniteSet(asleep)
        /\ asleep \subseteq Nat
    <2>1. DOMAIN q = 1..Len(q) /\ Len(q) \in Nat
      OBVIOUS
    <2>2. IsFiniteSet(1..Len(q))
      BY <2>1, FS_Interval
    <2> QED
      BY <2>1, <2>2, FS_Subset
  <1>2. \A i \in asleep : IsFiniteSet(before(i)) /\ rank(i) \in Nat
    BY <1>1, FS_Subset, FS_CardinalityType
  <1>3. \A i, j \in asleep : i < j => rank(i) < rank(j)
    <2> SUFFICES ASSUME NEW i \in asleep, NEW j \in asleep, i < j
                 PROVE  rank(i) < rank(j)
      OBVIOUS
    <2>1. before(i) \subseteq before(j) /\ i \in before(j) /\ i \notin before(i)
      BY <1>1
    <2>2. rank(i) <= rank(j) /\ rank(i) # rank(j)
      BY <2>1, <1>2, FS_Subset
    <2>3. rank(i) \in Nat /\ rank(j) \in Nat
      BY <1>2
    <2> HIDE DEF rank
    <2> QED
      BY <2>2, <2>3
  <1>4. ranking \in Injection(chosen, 0..(n-1))
    <2>1. \A i \in chosen : rank(i) \in 0..(n-1)
      <3> SUFFICES ASSUME NEW i \in chosen
                   PROVE  rank(i) \in 0..(n-1)
        OBVIOUS
      <3>1. rank(i) \in Nat /\ rank(i) < n
        BY <1>2
      <3> HIDE DEF rank
      <3> QED
        BY <3>1
    <2>2. \A i, j \in chosen : ranking[i] = ranking[j] => i = j
      <3> SUFFICES ASSUME NEW i \in chosen, NEW j \in chosen, rank(i) = rank(j)
                   PROVE  i = j
        OBVIOUS
      <3>1. i \in Nat /\ j \in Nat /\ rank(i) \in Nat /\ rank(j) \in Nat
        BY <1>1, <1>2
      <3>2. i < j \/ j < i \/ i = j
        BY <3>1
      <3> HIDE DEF rank
      <3> QED
        BY <3>1, <3>2, <1>3
    <2> HIDE DEF rank
    <2> QED
      BY <2>1, <2>2 DEF Injection, IsInjective
  <1>5. IsFiniteSet(chosen) /\ Cardinality(chosen) <= n
    <2>1. IsFiniteSet(0..(n-1)) /\ Cardinality(0..(n-1)) = n
      BY FS_Interval
    <2> QED
      BY <1>4, <2>1, FS_Injection
  <1>6. Woken(q, n) = {q[i] : i \in chosen}
    BY DEF Woken
  <1>7. places \in Surjection(chosen, Woken(q, n))
    BY <1>6 DEF Surjection
  <1>8. IsFiniteSet(Woken(q, n)) /\ Cardinality(Woken(q, n)) <= Cardinality(chosen)
    BY <1>5, <1>7, FS_Surjection
  <1>9. Cardinality(Woken(q, n)) \in Nat /\ Cardinality(chosen) \in Nat
    BY <1>5, <1>8, FS_CardinalityType
  <1>10. Cardinality(Woken(q, n)) <= n
    BY <1>5, <1>8, <1>9
  <1>11. ASSUME NEW u \in Woken(q, n)
         PROVE  u \in Tasks /\ pc[u] = "waiting" /\ \E i \in DOMAIN q : q[i] = u
    <2> HIDE DEF rank
    <2>1. PICK i \in chosen : u = q[i]
      BY <1>6
    <2>2. i \in DOMAIN q /\ pc[q[i]] = "waiting"
      OBVIOUS
    <2>3. q[i] \in Tasks
      BY <2>2
    <2> QED
      BY <2>1, <2>2, <2>3
  <1> QED
    BY <1>8, <1>9, <1>10, <1>11

-----------------------------------------------------------------------------
(* Typing is inductive together with: a task that was answered holds the    *)
(* answer.                                                                  *)
AnsweredOK == \A t \in Tasks : pc[t] \in {"answered", "done"} => res[t] # NoAnswer

TypeInv == TypeOK /\ AnsweredOK

LEMMA InitTypeInv == Init => TypeInv
  BY EngineAssumption DEF Init, TypeInv, TypeOK, AnsweredOK, TaskStates, Holding

(* What a release or a resume does to the task and slot variables.          *)
LEMMA WakeType ==
    ASSUME TypeInv, NEW t \in Tasks, NEW s \in TaskStates, NEW e \in Engines,
           NEW n \in Nat, NEW k \in Nat, k <= n, NEW q \in Seq(Tasks),
           MoveAndWake(t, s, e, n, q, k)
    PROVE  /\ pc' \in [Tasks -> TaskStates]
           /\ permits' \in [Engines -> Nat]
           /\ waiters' \in [Engines -> Seq(Tasks)]
           /\ \A u \in Tasks : u # t => pc'[u] = pc[u] \/ (pc[u] = "waiting" /\ pc'[u] = "granted")
           /\ pc'[t] = s
  <1>1. n - Cardinality(Woken(q, k)) \in Nat
    BY WokenBound, SMTT(30)
  <1>2. /\ pc' \in [Tasks -> TaskStates]
        /\ permits' \in [Engines -> Nat]
        /\ waiters' \in [Engines -> Seq(Tasks)]
    BY <1>1, MoveAndWakeType DEF TypeInv
  <1>3. \A u \in Woken(q, k) : pc[u] = "waiting"
    BY WokenBound
  <1> QED
    BY <1>2, <1>3 DEF MoveAndWake

LEMMA ReleaseType ==
    ASSUME TypeInv, NEW t \in Tasks, NEW s \in TaskStates, Release(t, s, EngineOf(t))
    PROVE  /\ pc' \in [Tasks -> TaskStates]
           /\ permits' \in [Engines -> Nat]
           /\ waiters' \in [Engines -> Seq(Tasks)]
           /\ \A u \in Tasks : u # t => pc'[u] = pc[u] \/ (pc[u] = "waiting" /\ pc'[u] = "granted")
           /\ pc'[t] = s
  <1>1. EngineOf(t) \in Engines
    BY TaskFacts
  <1>2. permits[EngineOf(t)] + 1 \in Nat /\ 1 <= permits[EngineOf(t)] + 1
        /\ waiters[EngineOf(t)] \in Seq(Tasks)
    BY <1>1 DEF TypeInv, TypeOK
  <1> QED
    BY <1>1, <1>2, WakeType DEF Release

LEMMA TypeInvStep ==
    ASSUME TypeInv, [Next]_vars
    PROVE  TypeInv'
  <1> USE DEF TypeInv
  <1>1. ASSUME NEW r \in Requests, NEW b \in SUBSET Iocs, Submit(r, b)
        PROVE  TypeInv'
    BY <1>1 DEF Submit, slotVars, TypeOK, AnsweredOK, TaskStates
  <1>2. ASSUME NEW t \in Tasks, BeginHit(t)
        PROVE  TypeInv'
    <2>1. rows[KeyOf(t)] \in Cache!Row
      BY <1>2, TaskFacts DEF BeginHit, CacheHit, Cache!Hit, Cache!Fresh, TypeOK
    <2>2. rows[KeyOf(t)].payload \in Answers
      BY <2>1 DEF Cache!Row
    <2> QED
      BY <1>2, <2>2, SentinelAssumption DEF BeginHit, slotVars, TypeOK, AnsweredOK, TaskStates
  <1>3. ASSUME NEW t \in Tasks, BeginMiss(t)
        PROVE  TypeInv'
    <2>1. EngineOf(t) \in Engines
      BY TaskFacts
    <2>2. CASE permits[EngineOf(t)] > 0 /\ waiters[EngineOf(t)] = <<>>
      <3>1. permits' = [permits EXCEPT ![EngineOf(t)] = permits[EngineOf(t)] - 1]
            /\ pc' = [pc EXCEPT ![t] = "calling"]
            /\ UNCHANGED waiters
        BY <1>3, <2>2 DEF BeginMiss, Acquire
      <3>2. permits[EngineOf(t)] - 1 \in Nat
        BY <2>1, <2>2 DEF TypeOK
      <3>3. permits' \in [Engines -> Nat]
        BY <2>1, <3>1, <3>2 DEF TypeOK
      <3> QED
        BY <1>3, <3>1, <3>3 DEF BeginMiss, TypeOK, AnsweredOK, TaskStates, Holding
    <2>3. CASE ~(permits[EngineOf(t)] > 0 /\ waiters[EngineOf(t)] = <<>>)
      <3>1. Append(waiters[EngineOf(t)], t) \in Seq(Tasks)
        BY <2>1 DEF TypeOK
      <3> QED
        BY <1>3, <2>1, <2>3, <3>1 DEF BeginMiss, Acquire, TypeOK, AnsweredOK, TaskStates, Holding
    <2> QED
      BY <2>2, <2>3
  <1>4. ASSUME NEW t \in Tasks, Resume(t)
        PROVE  TypeInv'
    <2> DEFINE e == EngineOf(t)
               q == waiters[e]
    <2>1. e \in Engines /\ q \in Seq(Tasks) /\ permits[e] \in Nat
      BY TaskFacts DEF TypeOK
    <2>2. PICK i \in DOMAIN q : MoveAndWake(t, "calling", e, permits[e], RemoveAt(q, i), permits[e])
      BY <1>4 DEF Resume
    <2>3. RemoveAt(q, i) \in Seq(Tasks)
      BY <2>1, RemoveAtType
    <2>4. /\ pc' \in [Tasks -> TaskStates]
          /\ permits' \in [Engines -> Nat]
          /\ waiters' \in [Engines -> Seq(Tasks)]
          /\ \A u \in Tasks : u # t => pc'[u] = pc[u] \/ (pc[u] = "waiting" /\ pc'[u] = "granted")
          /\ pc'[t] = "calling"
      <3> HIDE DEF e, q
      <3> QED
        BY <2>1, <2>2, <2>3, WakeType DEF TaskStates, Holding
    <2> QED
      BY <1>4, <2>4 DEF Resume, TypeOK, AnsweredOK
  <1>5. ASSUME NEW t \in Tasks, SourceReplies(t)
        PROVE  TypeInv'
    <2>1. [key |-> KeyOf(t), at |-> clock, via |-> EngineOf(t)] \in Answers
      BY TaskFacts DEF TypeOK, Answers
    <2> QED
      BY <1>5, <2>1, SentinelAssumption
         DEF SourceReplies, slotVars, TypeOK, AnsweredOK, TaskStates, Holding
  <1>6. ASSUME NEW t \in Tasks, DeliverResult(t)
        PROVE  TypeInv'
    <2>1. res[t] \in Answers \cup {ErrorResult}
      BY <1>6 DEF DeliverResult, TypeOK, AnsweredOK
    <2>2. rows' \in [Keys -> Cache!Row \cup {NoRow}]
      <3>1. CASE res[t] = ErrorResult
        BY <1>6, <3>1 DEF DeliverResult, TypeOK
      <3>2. CASE res[t] \in Answers
        <4>1. Cache!NewRow(res[t], clock) \in Cache!Row
          BY <3>2, NewRowType DEF TypeOK
        <4> QED
          BY <1>6, <4>1 DEF DeliverResult, TypeOK
      <3> QED
        BY <2>1, <3>1, <3>2
    <2>3. Release(t, "done", EngineOf(t)) /\ "done" \in TaskStates
      BY <1>6 DEF DeliverResult, TaskStates
    <2> QED
      BY <1>6, <2>2, <2>3, ReleaseType DEF DeliverResult, TypeOK, AnsweredOK
  <1>7. ASSUME NEW t \in Tasks, DeliverException(t)
        PROVE  TypeInv'
    <2>1. Release(t, "failed", EngineOf(t)) /\ "failed" \in TaskStates
      BY <1>7 DEF DeliverException, TaskStates
    <2> QED
      BY <1>7, <2>1, ReleaseType DEF DeliverException, TypeOK, AnsweredOK
  <1>8. ASSUME NEW t \in Tasks, CacheSetRaises(t)
        PROVE  TypeInv'
    <2>1. Release(t, "failed", EngineOf(t)) /\ "failed" \in TaskStates
      BY <1>8 DEF CacheSetRaises, TaskStates
    <2> QED
      BY <1>8, <2>1, ReleaseType, SentinelAssumption DEF CacheSetRaises, TypeOK, AnsweredOK
  <1>9. ASSUME NEW r \in Requests, Finish(r)
        PROVE  TypeInv'
    BY <1>9 DEF Finish, Return, Raise, taskVars, slotVars, TypeOK, AnsweredOK
  <1>10. ASSUME NEW e \in Engines, ProcessExit(e)
         PROVE  TypeInv'
    <2>1. <<>> \in Seq(Tasks)
      OBVIOUS
    <2> QED
      BY <1>10, <2>1, EngineAssumption DEF ProcessExit, TypeOK, AnsweredOK, TaskStates
  <1>11. CASE Tick
    BY <1>11 DEF Tick, taskVars, slotVars, TypeOK, AnsweredOK
  <1>12. CASE UNCHANGED vars
    BY <1>12 DEF vars, taskVars, slotVars, TypeOK, AnsweredOK
  <1> QED
    BY <1>1, <1>2, <1>3, <1>4, <1>5, <1>6, <1>7, <1>8, <1>9, <1>10, <1>11, <1>12
       DEF Next, Step

(* TypeOK holds in every state the engine reaches.                          *)
THEOREM EngineTyped == Spec => []TypeOK
  <1>1. Spec => []TypeInv
    BY InitTypeInv, TypeInvStep, PTL DEF Spec
  <1>2. TypeInv => TypeOK
    BY DEF TypeInv
  <1> QED
    BY <1>1, <1>2, PTL

-----------------------------------------------------------------------------
(* Slots.  The sum is inductive together with: a request that was not       *)
(* submitted has no running task, and a queue holds tasks of its own engine.*)
IdleOK == \A t \in Tasks : req[RequestOf(t)] = "idle" => pc[t] = "none"

QueueOK == \A e \in Engines : \A i \in DOMAIN waiters[e] : EngineOf(waiters[e][i]) = e

SlotInv == TypeInv /\ IdleOK /\ QueueOK /\ SlotsConserved

LEMMA HoldersFinite ==
    ASSUME NEW e
    PROVE  IsFiniteSet(Holders(e)) /\ Cardinality(Holders(e)) \in Nat
  <1>1. Holders(e) \subseteq Tasks
    BY DEF Holders
  <1> QED
    BY <1>1, FiniteTasks, FS_Subset, FS_CardinalityType

LEMMA InitSlotInv == Init => SlotInv
  <1> SUFFICES ASSUME Init PROVE SlotInv
    OBVIOUS
  <1>1. \A e \in Engines : Holders(e) = {}
    BY DEF Init, Holders, Holding
  <1>2. SlotsConserved
    <2> SUFFICES ASSUME NEW e \in Engines
                 PROVE  permits[e] + Cardinality(Holders(e)) = MaxConcurrency
      BY DEF SlotsConserved
    <2>1. Cardinality(Holders(e)) = 0
      BY <1>1, FS_EmptySet
    <2>2. permits[e] = MaxConcurrency
      BY DEF Init
    <2> QED
      BY <2>1, <2>2, EngineAssumption
  <1>3. IdleOK /\ QueueOK
    BY DEF Init, IdleOK, QueueOK
  <1> QED
    BY <1>2, <1>3, InitTypeInv DEF SlotInv

(* A step that leaves every holder and every semaphore value alone.         *)
LEMMA SlotsUntouched ==
    ASSUME SlotsConserved, UNCHANGED permits,
           \A u \in Tasks : pc[u] \in Holding <=> pc'[u] \in Holding
    PROVE  SlotsConserved'
  <1>1. \A e : Holders(e)' = Holders(e)
    BY DEF Holders
  <1> QED
    BY <1>1 DEF SlotsConserved

(* A release, and a resume that passes slots on, keep the sum: the n free   *)
(* slots are split between the woken, who were not holding one, and the     *)
(* value left.                                                              *)
LEMMA WakeSlots ==
    ASSUME SlotInv, NEW t \in Tasks, NEW s \in TaskStates, NEW e \in Engines, e = EngineOf(t),
           pc[t] \in Holding,
           NEW n \in Nat, NEW k \in Nat, k <= n, NEW q \in Seq(Tasks),
           \A i \in DOMAIN q : EngineOf(q[i]) = e,
           n = permits[e] + (IF s \in Holding THEN 0 ELSE 1),
           MoveAndWake(t, s, e, n, q, k)
    PROVE  SlotsConserved' /\ QueueOK'
  <1> USE DEF SlotInv, TypeInv, TypeOK
  <1> DEFINE W == Woken(q, k)
             H == Holders(e)
             base == IF s \in Holding THEN H ELSE H \ {t}
  <1>1. /\ IsFiniteSet(W) /\ Cardinality(W) \in Nat /\ Cardinality(W) <= n
        /\ \A u \in W : u \in Tasks /\ pc[u] = "waiting" /\ EngineOf(u) = e
    <2>1. /\ IsFiniteSet(W) /\ Cardinality(W) \in Nat /\ Cardinality(W) <= k
          /\ \A u \in W : u \in Tasks /\ pc[u] = "waiting"
          /\ \A u \in W : \E i \in DOMAIN q : q[i] = u
      BY WokenBound
    <2>2. \A u \in W : EngineOf(u) = e
      BY <2>1
    <2> HIDE DEF W
    <2> QED
      BY <2>1, <2>2
  <1>2. IsFiniteSet(H) /\ Cardinality(H) \in Nat /\ t \in H
    BY HoldersFinite DEF Holders
  <1>3. /\ IsFiniteSet(base)
        /\ Cardinality(base) = IF s \in Holding THEN Cardinality(H) ELSE Cardinality(H) - 1
    <2> HIDE DEF H
    <2> QED
      BY <1>2, FS_RemoveElement
  <1>4. base \cap W = {}
    BY <1>1 DEF Holders, Holding
  <1>5. Holders(e)' = base \cup W
    <2>1. pc' = [u \in Tasks |-> IF u = t THEN s ELSE IF u \in W THEN "granted" ELSE pc[u]]
      BY DEF MoveAndWake
    <2>2. t \notin W
      BY <1>1 DEF Holding
    <2>3. Holders(e)' = {u \in Tasks : EngineOf(u) = e /\ pc'[u] \in Holding}
      BY DEF Holders
    <2> QED
      BY <2>1, <2>2, <2>3, <1>1 DEF Holders, Holding
  <1>6. Cardinality(Holders(e)') = Cardinality(base) + Cardinality(W)
    <2>1. Cardinality(base \cap W) = 0
      BY <1>4, FS_EmptySet
    <2>2. Cardinality(base \cup W) = Cardinality(base) + Cardinality(W) - Cardinality(base \cap W)
      <3> HIDE DEF base, W
      <3> QED
        BY <1>1, <1>3, FS_Union
    <2>3. Cardinality(base) \in Nat
      <3> HIDE DEF base
      <3> QED
        BY <1>3, FS_CardinalityType
    <2> HIDE DEF base, W
    <2> QED
      BY <1>1, <1>5, <2>1, <2>2, <2>3
  <1>7. permits'[e] = n - Cardinality(W)
    BY DEF MoveAndWake
  <1>8. permits'[e] + Cardinality(Holders(e)') = MaxConcurrency
    <2>1. permits[e] + Cardinality(H) = MaxConcurrency
      BY DEF SlotsConserved
    <2>2. permits[e] \in Nat
      OBVIOUS
    <2> HIDE DEF base, W, H
    <2> QED
      BY <1>1, <1>2, <1>3, <1>6, <1>7, <2>1, <2>2, SMTT(30)
  <1>9. ASSUME NEW d \in Engines, d # e
        PROVE  permits'[d] + Cardinality(Holders(d)') = MaxConcurrency
    <2>1. permits'[d] = permits[d]
      BY <1>9 DEF MoveAndWake
    <2>2. Holders(d)' = Holders(d)
      <3>1. \A u \in Tasks : EngineOf(u) = d => pc'[u] = pc[u]
        BY <1>1, <1>9 DEF MoveAndWake
      <3> QED
        BY <3>1 DEF Holders
    <2> QED
      BY <2>1, <2>2 DEF SlotsConserved
  <1>10. SlotsConserved'
    BY <1>8, <1>9 DEF SlotsConserved
  <1>11. QueueOK'
    BY DEF MoveAndWake, QueueOK
  <1> QED
    BY <1>10, <1>11

LEMMA ReleaseSlots ==
    ASSUME SlotInv, NEW t \in Tasks, NEW s \in TaskStates \ Holding,
           pc[t] \in Holding, Release(t, s, EngineOf(t))
    PROVE  SlotsConserved' /\ QueueOK'
  <1> DEFINE e == EngineOf(t)
  <1>1. /\ e \in Engines /\ permits[e] \in Nat /\ waiters[e] \in Seq(Tasks)
        /\ \A i \in DOMAIN waiters[e] : EngineOf(waiters[e][i]) = e
    BY TaskFacts DEF SlotInv, TypeInv, TypeOK, QueueOK
  <1>2. MoveAndWake(t, s, e, permits[e] + 1, waiters[e], 1)
    BY DEF Release
  <1>3. permits[e] + 1 \in Nat /\ 1 <= permits[e] + 1
    BY <1>1
  <1> QED
    BY <1>1, <1>2, <1>3, WakeSlots

(* Moving and waking tasks that run leaves the others where they are.       *)
LEMMA WakeLeavesNone ==
    ASSUME NEW t \in Tasks, pc[t] # "none", NEW s, NEW e, NEW n,
           NEW q \in Seq(Tasks), NEW k \in Nat, MoveAndWake(t, s, e, n, q, k)
    PROVE  \A u \in Tasks : pc[u] = "none" => pc'[u] = "none"
  <1>1. \A u \in Woken(q, k) : pc[u] = "waiting"
    BY WokenBound
  <1> QED
    BY <1>1 DEF MoveAndWake

LEMMA ConcatRight ==
    ASSUME NEW S, NEW l \in Seq(S), NEW r \in Seq(S), NEW j \in 1..(Len(l) + Len(r)), j > Len(l)
    PROVE  (l \o r)[j] = r[j - Len(l)]
  OBVIOUS

(* Behind the place that is taken out every element moves up by one.        *)
LEMMA RemoveAtIndex ==
    ASSUME NEW S, NEW q \in Seq(S), NEW i \in DOMAIN q
    PROVE  /\ DOMAIN RemoveAt(q, i) = 1..(Len(q) - 1)
           /\ \A j \in 1..(Len(q) - 1) : j < i => RemoveAt(q, i)[j] = q[j]
           /\ \A j \in 1..(Len(q) - 1) : j >= i => RemoveAt(q, i)[j] = q[j + 1]
  <1> DEFINE left == SubSeq(q, 1, i-1)
             right == SubSeq(q, i+1, Len(q))
  <1>1. /\ i \in 1..Len(q) /\ Len(q) \in Nat
        /\ left \in Seq(S) /\ Len(left) = i - 1 /\ \A m \in 1..(i-1) : left[m] = q[m]
    OBVIOUS
  <1>2. /\ right \in Seq(S) /\ Len(right) = Len(q) - i
        /\ \A m \in 1..(Len(q)-i) : right[m] = q[m+i]
    BY <1>1
  <1>3. RemoveAt(q, i) = left \o right
    BY DEF RemoveAt
  <1>4. DOMAIN RemoveAt(q, i) = 1..(Len(q) - 1)
    <2> HIDE DEF left, right
    <2> QED
      BY <1>1, <1>2, <1>3
  <1>5. ASSUME NEW j \in 1..(Len(q) - 1), j < i
        PROVE  RemoveAt(q, i)[j] = q[j]
    <2>1. RemoveAt(q, i)[j] = left[j]
      <3> HIDE DEF left, right
      <3> QED
        BY <1>1, <1>2, <1>3, <1>5
    <2> QED
      BY <1>1, <1>5, <2>1
  <1>6. ASSUME NEW j \in 1..(Len(q) - 1), j >= i
        PROVE  RemoveAt(q, i)[j] = q[j + 1]
    <2>1. RemoveAt(q, i)[j] = right[j - (i - 1)]
      <3>1. j \in 1..((i - 1) + (Len(q) - i)) /\ j > i - 1
        BY <1>1, <1>6
      <3> HIDE DEF left, right
      <3>2. j \in 1..(Len(left) + Len(right)) /\ j > Len(left)
        BY <1>1, <1>2, <3>1
      <3>3. (left \o right)[j] = right[j - Len(left)]
        BY <1>1, <1>2, <3>2, ConcatRight
      <3> QED
        BY <1>1, <1>3, <3>3
    <2>2. j - (i - 1) \in 1..(Len(q) - i) /\ j + 1 \in 1..Len(q)
      BY <1>1, <1>6
    <2>3. right[j - (i - 1)] = q[(j - (i - 1)) + i]
      BY <1>2, <2>2
    <2>4. (j - (i - 1)) + i = j + 1
      BY <1>1
    <2> QED
      BY <2>1, <2>3, <2>4
  <1> QED
    BY <1>4, <1>5, <1>6

LEMMA RemoveAtElements ==
    ASSUME NEW S, NEW q \in Seq(S), NEW i \in DOMAIN q, NEW j \in DOMAIN RemoveAt(q, i)
    PROVE  \E m \in DOMAIN q : RemoveAt(q, i)[j] = q[m]
  <1>1. Len(q) \in Nat /\ DOMAIN q = 1..Len(q) /\ i \in 1..Len(q)
    OBVIOUS
  <1>2. j \in 1..(Len(q) - 1)
    BY RemoveAtIndex
  <1>3. CASE j < i
    BY <1>1, <1>2, <1>3, RemoveAtIndex
  <1>4. CASE j >= i
    <2>1. j + 1 \in DOMAIN q
      BY <1>1, <1>2
    <2> QED
      BY <1>2, <1>4, <2>1, RemoveAtIndex
  <1> QED
    BY <1>1, <1>2, <1>3, <1>4

(* Taking one place out of a queue without duplicates takes its element out *)
(* and no other.                                                            *)
LEMMA RemoveAtKeeps ==
    ASSUME NEW S, NEW q \in Seq(S), NEW i \in DOMAIN q,
           \A m, l \in DOMAIN q : q[m] = q[l] => m = l
    PROVE  /\ \A j \in DOMAIN RemoveAt(q, i) : RemoveAt(q, i)[j] # q[i]
           /\ \A j, l \in DOMAIN RemoveAt(q, i) : RemoveAt(q, i)[j] = RemoveAt(q, i)[l] => j = l
           /\ \A m \in DOMAIN q : m # i => \E j \in DOMAIN RemoveAt(q, i) : RemoveAt(q, i)[j] = q[m]
  <1> DEFINE p == RemoveAt(q, i)
             from == [j \in 1..(Len(q) - 1) |-> IF j < i THEN j ELSE j + 1]
  <1>1. Len(q) \in Nat /\ DOMAIN q = 1..Len(q) /\ i \in 1..Len(q)
    OBVIOUS
  <1>2. /\ DOMAIN p = 1..(Len(q) - 1)
        /\ \A j \in 1..(Len(q) - 1) : p[j] = q[from[j]]
    <2>1. DOMAIN p = 1..(Len(q) - 1)
      BY RemoveAtIndex
    <2>2. ASSUME NEW j \in 1..(Len(q) - 1) PROVE p[j] = q[from[j]]
      <3>1. j < i \/ j >= i
        BY <1>1
      <3>2. from[j] = IF j < i THEN j ELSE j + 1
        OBVIOUS
      <3>3. j >= i => ~(j < i)
        BY <1>1
      <3> HIDE DEF from
      <3> QED
        BY <3>1, <3>2, <3>3, RemoveAtIndex
    <2> QED
      BY <2>1, <2>2
  <1>3. \A j \in 1..(Len(q) - 1) : from[j] \in 1..Len(q) /\ from[j] # i
    BY <1>1
  <1>4. \A j, l \in 1..(Len(q) - 1) : from[j] = from[l] => j = l
    BY <1>1
  <1>5. ASSUME NEW m \in 1..Len(q), m # i
        PROVE  \E j \in 1..(Len(q) - 1) : from[j] = m
    <2>1. CASE m < i
      <3>1. m \in 1..(Len(q) - 1) /\ from[m] = m
        BY <1>1, <2>1
      <3> QED
        BY <3>1
    <2>2. CASE m > i
      <3>1. m - 1 \in 1..(Len(q) - 1) /\ from[m - 1] = (m - 1) + 1 /\ (m - 1) + 1 = m
        BY <1>1, <2>2
      <3> QED
        BY <3>1
    <2> QED
      BY <1>1, <1>5, <2>1, <2>2
  <1> HIDE DEF p, from
  <1>6. \A j \in DOMAIN p : p[j] # q[i]
    BY <1>1, <1>2, <1>3
  <1>7. \A j, l \in DOMAIN p : p[j] = p[l] => j = l
    BY <1>1, <1>2, <1>3, <1>4
  <1>8. ASSUME NEW m \in DOMAIN q, m # i
        PROVE  \E j \in DOMAIN p : p[j] = q[m]
    <2>1. PICK j \in 1..(Len(q) - 1) : from[j] = m
      BY <1>1, <1>5, <1>8
    <2>2. j \in DOMAIN p /\ p[j] = q[m]
      BY <1>2, <2>1
    <2> QED
      BY <2>2
  <1> QED
    BY <1>6, <1>7, <1>8 DEF p

LEMMA SlotInvStep ==
    ASSUME SlotInv, [Next]_vars
    PROVE  SlotInv'
  <1> USE DEF SlotInv
  <1>0. TypeInv'
    BY TypeInvStep
  <1> SUFFICES IdleOK' /\ QueueOK' /\ SlotsConserved'
    BY <1>0
  <1>1. ASSUME NEW r \in Requests, NEW b \in SUBSET Iocs, Submit(r, b)
        PROVE  IdleOK' /\ QueueOK' /\ SlotsConserved'
    <2>1. \A u \in Lookups(r, b) : pc[u] = "none"
      BY <1>1 DEF Submit, Lookups, IdleOK
    <2>2. \A u \in Tasks : pc[u] \in Holding <=> pc'[u] \in Holding
      BY <1>1, <2>1 DEF Submit, Holding
    <2>3. SlotsConserved'
      BY <1>1, <2>2, SlotsUntouched DEF Submit, slotVars
    <2>4. IdleOK'
      BY <1>1, TaskFacts DEF Submit, Lookups, IdleOK, TypeInv, TypeOK
    <2> QED
      BY <1>1, <2>3, <2>4 DEF Submit, slotVars, QueueOK
  <1>2. ASSUME NEW t \in Tasks, BeginHit(t)
        PROVE  IdleOK' /\ QueueOK' /\ SlotsConserved'
    <2>1. \A u \in Tasks : pc[u] \in Holding <=> pc'[u] \in Holding
      BY <1>2 DEF BeginHit, Holding, TypeInv, TypeOK
    <2>2. SlotsConserved'
      BY <1>2, <2>1, SlotsUntouched DEF BeginHit, slotVars
    <2> QED
      BY <1>2, <2>2 DEF BeginHit, slotVars, IdleOK, QueueOK, TypeInv, TypeOK
  <1>3. ASSUME NEW t \in Tasks, BeginMiss(t)
        PROVE  IdleOK' /\ QueueOK' /\ SlotsConserved'
    <2> DEFINE e == EngineOf(t)
    <2>1. e \in Engines /\ permits[e] \in Nat /\ waiters[e] \in Seq(Tasks) /\ pc[t] = "ready"
      BY <1>3, TaskFacts DEF BeginMiss, TypeInv, TypeOK
    <2>2. CASE permits[e] > 0 /\ waiters[e] = <<>>
      <3>1. /\ pc' = [pc EXCEPT ![t] = "calling"]
            /\ permits' = [permits EXCEPT ![e] = permits[e] - 1]
            /\ UNCHANGED <<waiters, req>>
        BY <1>3, <2>2 DEF BeginMiss, Acquire
      <3>2. Holders(e)' = Holders(e) \cup {t} /\ t \notin Holders(e)
        BY <2>1, <3>1 DEF Holders, Holding, TypeInv, TypeOK
      <3>3. Cardinality(Holders(e)') = Cardinality(Holders(e)) + 1
        BY <3>2, HoldersFinite, FS_AddElement
      <3>4. permits'[e] + Cardinality(Holders(e)') = MaxConcurrency
        <4>1. permits'[e] = permits[e] - 1
          BY <2>1, <3>1 DEF TypeInv, TypeOK
        <4>2. permits[e] + Cardinality(Holders(e)) = MaxConcurrency
          BY <2>1 DEF SlotsConserved
        <4>3. Cardinality(Holders(e)) \in Nat
          BY HoldersFinite
        <4> QED
          BY <2>1, <3>3, <4>1, <4>2, <4>3
      <3>5. ASSUME NEW d \in Engines, d # e
            PROVE  permits'[d] + Cardinality(Holders(d)') = MaxConcurrency
        <4>1. permits'[d] = permits[d]
          BY <3>1, <3>5 DEF TypeInv, TypeOK
        <4>2. Holders(d)' = Holders(d)
          BY <3>1, <3>5 DEF Holders, TypeInv, TypeOK
        <4> QED
          BY <4>1, <4>2 DEF SlotsConserved
      <3>6. SlotsConserved'
        BY <3>4, <3>5 DEF SlotsConserved
      <3> QED
        BY <2>1, <3>1, <3>6 DEF IdleOK, QueueOK, TypeInv, TypeOK
    <2>3. CASE ~(permits[e] > 0 /\ waiters[e] = <<>>)
      <3>1. /\ pc' = [pc EXCEPT ![t] = "waiting"]
            /\ waiters' = [waiters EXCEPT ![e] = Append(waiters[e], t)]
            /\ UNCHANGED <<permits, req>>
        BY <1>3, <2>3 DEF BeginMiss, Acquire
      <3>2. \A u \in Tasks : pc[u] \in Holding <=> pc'[u] \in Holding
        BY <2>1, <3>1 DEF Holding, TypeInv, TypeOK
      <3>3. SlotsConserved'
        BY <3>1, <3>2, SlotsUntouched
      <3>4. \A i \in DOMAIN Append(waiters[e], t) : EngineOf(Append(waiters[e], t)[i]) = e
        <4>1. \A i \in DOMAIN waiters[e] : EngineOf(waiters[e][i]) = e
          BY <2>1 DEF QueueOK
        <4> QED
          BY <2>1, <4>1
      <3>5. QueueOK'
        BY <2>1, <3>1, <3>4 DEF QueueOK, TypeInv, TypeOK
      <3> QED
        BY <2>1, <3>1, <3>3, <3>5 DEF IdleOK, TypeInv, TypeOK
    <2> QED
      BY <2>2, <2>3
  <1>4. ASSUME NEW t \in Tasks, Resume(t)
        PROVE  IdleOK' /\ QueueOK' /\ SlotsConserved'
    <2> DEFINE e == EngineOf(t)
               q == waiters[e]
    <2>1. /\ e \in Engines /\ q \in Seq(Tasks) /\ permits[e] \in Nat
          /\ \A i \in DOMAIN q : EngineOf(q[i]) = e
      BY TaskFacts DEF TypeInv, TypeOK, QueueOK
    <2>2. PICK i \in DOMAIN q : MoveAndWake(t, "calling", e, permits[e], RemoveAt(q, i), permits[e])
      BY <1>4 DEF Resume
    <2>3. /\ RemoveAt(q, i) \in Seq(Tasks)
          /\ \A j \in DOMAIN RemoveAt(q, i) : EngineOf(RemoveAt(q, i)[j]) = e
      <3> HIDE DEF q
      <3>1. RemoveAt(q, i) \in Seq(Tasks)
        BY <2>1, RemoveAtType
      <3>2. \A j \in DOMAIN RemoveAt(q, i) : \E m \in DOMAIN q : RemoveAt(q, i)[j] = q[m]
        BY <2>1, RemoveAtElements
      <3> QED
        BY <2>1, <3>1, <3>2
    <2>4. SlotsConserved' /\ QueueOK'
      <3>1. pc[t] \in Holding /\ "calling" \in TaskStates /\ "calling" \in Holding
        BY <1>4 DEF Resume, TaskStates, Holding
      <3>2. permits[e] = permits[e] + 0 /\ permits[e] <= permits[e]
        BY <2>1
      <3> HIDE DEF q
      <3> QED
        BY <2>1, <2>2, <2>3, <3>1, <3>2, WakeSlots
    <2>5. IdleOK'
      <3>1. pc[t] # "none" /\ UNCHANGED req
        BY <1>4 DEF Resume
      <3>2. \A u \in Tasks : pc[u] = "none" => pc'[u] = "none"
        <4> HIDE DEF q, e
        <4> QED
          BY <2>1, <2>2, <2>3, <3>1, WakeLeavesNone
      <3> QED
        BY <3>1, <3>2 DEF IdleOK
    <2> QED
      BY <2>4, <2>5
  <1>5. ASSUME NEW t \in Tasks, SourceReplies(t)
        PROVE  IdleOK' /\ QueueOK' /\ SlotsConserved'
    <2>1. \A u \in Tasks : pc[u] \in Holding <=> pc'[u] \in Holding
      BY <1>5 DEF SourceReplies, Holding, TypeInv, TypeOK
    <2>2. SlotsConserved'
      BY <1>5, <2>1, SlotsUntouched DEF SourceReplies, slotVars
    <2> QED
      BY <1>5, <2>2 DEF SourceReplies, slotVars, IdleOK, QueueOK, TypeInv, TypeOK
  <1>6. ASSUME NEW t \in Tasks, NEW s \in {"done", "failed"},
               pc[t] = "answered", Release(t, s, EngineOf(t)), UNCHANGED req
        PROVE  IdleOK' /\ QueueOK' /\ SlotsConserved'
    <2>1. s \in TaskStates \ Holding /\ pc[t] \in Holding
      BY <1>6 DEF TaskStates, Holding
    <2>2. SlotsConserved' /\ QueueOK'
      BY <1>6, <2>1, ReleaseSlots
    <2>3. IdleOK'
      <3>1. /\ waiters[EngineOf(t)] \in Seq(Tasks) /\ pc[t] # "none"
            /\ MoveAndWake(t, s, EngineOf(t), permits[EngineOf(t)] + 1, waiters[EngineOf(t)], 1)
        BY <1>6, TaskFacts DEF Release, TypeInv, TypeOK
      <3>2. \A u \in Tasks : pc[u] = "none" => pc'[u] = "none"
        BY <3>1, WakeLeavesNone
      <3> QED
        BY <1>6, <3>2 DEF IdleOK
    <2> QED
      BY <2>2, <2>3
  <1>7. ASSUME NEW r \in Requests, Finish(r)
        PROVE  IdleOK' /\ QueueOK' /\ SlotsConserved'
    <2>1. UNCHANGED <<pc, permits, waiters>>
      BY <1>7 DEF Finish, Return, Raise, taskVars, slotVars
    <2>2. \A x \in Requests : req'[x] = "idle" => req[x] = "idle"
      BY <1>7 DEF Finish, Return, Raise, TypeInv, TypeOK
    <2>3. SlotsConserved'
      BY <2>1, SlotsUntouched
    <2> QED
      BY <2>1, <2>2, <2>3, TaskFacts DEF IdleOK, QueueOK
  <1>8. ASSUME NEW e \in Engines, ProcessExit(e)
        PROVE  IdleOK' /\ QueueOK' /\ SlotsConserved'
    <2>1. Holders(e)' = {}
      BY <1>8 DEF ProcessExit, Holders, Holding
    <2>2. permits'[e] = MaxConcurrency
      BY <1>8 DEF ProcessExit, TypeInv, TypeOK
    <2>3. permits'[e] + Cardinality(Holders(e)') = MaxConcurrency
      BY <2>1, <2>2, FS_EmptySet, EngineAssumption
    <2>4. ASSUME NEW d \in Engines, d # e
          PROVE  permits'[d] + Cardinality(Holders(d)') = MaxConcurrency
      <3>1. permits'[d] = permits[d]
        BY <1>8, <2>4 DEF ProcessExit, TypeInv, TypeOK
      <3>2. Holders(d)' = Holders(d)
        BY <1>8, <2>4 DEF ProcessExit, Holders
      <3> QED
        BY <3>1, <3>2 DEF SlotsConserved
    <2>5. SlotsConserved'
      BY <2>3, <2>4 DEF SlotsConserved
    <2>6. IdleOK'
      BY <1>8, TaskFacts DEF ProcessExit, IdleOK, TypeInv, TypeOK
    <2>7. QueueOK'
      BY <1>8 DEF ProcessExit, QueueOK, TypeInv, TypeOK
    <2> QED
      BY <2>5, <2>6, <2>7
  <1>9. CASE Tick \/ UNCHANGED vars
    <2>1. UNCHANGED <<pc, permits, waiters, req>>
      BY <1>9 DEF Tick, vars, taskVars, slotVars
    <2>2. SlotsConserved'
      BY <2>1, SlotsUntouched
    <2> QED
      BY <2>1, <2>2 DEF IdleOK, QueueOK
  <1> QED
    BY <1>1, <1>2, <1>3, <1>4, <1>5, <1>6, <1>7, <1>8, <1>9
       DEF Next, Step, DeliverResult, DeliverException, CacheSetRaises

(* Free and held slots of every engine always add up to MaxConcurrency.     *)
THEOREM SlotsNeverLeak == Spec => []SlotsConserved
  <1>1. Spec => []SlotInv
    BY InitSlotInv, SlotInvStep, PTL DEF Spec
  <1>2. SlotInv => SlotsConserved
    BY DEF SlotInv
  <1> QED
    BY <1>1, <1>2, PTL

-----------------------------------------------------------------------------
(* The cache.  What a row says is inductive together with what the answers  *)
(* under way say; CallJustified with the order of the two time stamps.      *)
InFlightOK ==
    \A t \in Tasks : pc[t] = "answered" /\ res[t] \in Answers =>
        /\ res[t].key = KeyOf(t)
        /\ res[t].via = EngineOf(t)
        /\ res[t].at <= clock /\ clock <= res[t].at + MaxFlight

BegunOK == \A t \in Tasks : begun[t] <= clock

RowInv == TypeInv /\ InFlightOK /\ RowsTruthful /\ BegunOK /\ CallJustified

Undecided == {"waiting", "granted", "calling"}

LEMMA InitRowInv == Init => RowInv
  <1> SUFFICES ASSUME Init PROVE RowInv
    OBVIOUS
  <1>1. InFlightOK /\ RowsTruthful /\ BegunOK /\ CallJustified
    BY DEF Init, InFlightOK, RowsTruthful, BegunOK, CallJustified
  <1> QED
    BY <1>1, InitTypeInv DEF RowInv

LEMMA HitMeaning ==
    ASSUME TypeOK, NEW k \in Keys
    PROVE  Cache!Hit(k) <=> rows[k] # NoRow /\ rows[k].expiresAt > clock
  BY DEF Cache!Hit, Cache!Fresh, Cache!Seconds, TypeOK

(* A step that leaves rows, clock and stamps alone and starts no wait keeps *)
(* the four facts, if it makes up no answer.                                *)
LEMMA RowsUntouched ==
    ASSUME RowInv, UNCHANGED <<rows, clock, begun>>,
           \A t \in Tasks : pc'[t] \in Undecided => pc[t] \in Undecided,
           \A t \in Tasks : pc'[t] = "answered" => pc[t] = "answered" /\ res'[t] = res[t]
    PROVE  InFlightOK' /\ RowsTruthful' /\ BegunOK' /\ CallJustified'
  <1> USE DEF RowInv
  <1>1. \A k \in Keys : Cache!Hit(k)' <=> Cache!Hit(k)
    BY DEF Cache!Hit
  <1>2. InFlightOK' /\ BegunOK' /\ RowsTruthful'
    BY DEF InFlightOK, BegunOK, RowsTruthful
  <1>3. CallJustified'
    BY <1>1, TaskFacts DEF CallJustified, CacheHit, Undecided
  <1> QED
    BY <1>2, <1>3

LEMMA RowInvStep ==
    ASSUME RowInv, [Next]_vars
    PROVE  RowInv'
  <1> USE DEF RowInv
  <1>0. TypeInv'
    BY TypeInvStep
  <1> SUFFICES InFlightOK' /\ RowsTruthful' /\ BegunOK' /\ CallJustified'
    BY <1>0
  <1>1. ASSUME NEW r \in Requests, NEW b \in SUBSET Iocs, Submit(r, b)
        PROVE  InFlightOK' /\ RowsTruthful' /\ BegunOK' /\ CallJustified'
    BY <1>1, RowsUntouched DEF Submit, Undecided, TypeInv, TypeOK
  <1>2. ASSUME NEW t \in Tasks, BeginHit(t)
        PROVE  InFlightOK' /\ RowsTruthful' /\ BegunOK' /\ CallJustified'
    BY <1>2, RowsUntouched DEF BeginHit, Undecided, TypeInv, TypeOK
  <1>3. ASSUME NEW t \in Tasks, BeginMiss(t)
        PROVE  InFlightOK' /\ RowsTruthful' /\ BegunOK' /\ CallJustified'
    <2>1. /\ \A u \in Tasks : u # t => pc'[u] = pc[u] /\ begun'[u] = begun[u]
          /\ pc'[t] \in {"calling", "waiting"} /\ begun'[t] = clock
          /\ UNCHANGED <<rows, clock, res>>
      BY <1>3 DEF BeginMiss, Acquire, TypeInv, TypeOK
    <2>2. InFlightOK' /\ RowsTruthful'
      BY <2>1 DEF InFlightOK, RowsTruthful
    <2>3. BegunOK'
      BY <2>1 DEF BegunOK, TypeInv, TypeOK
    <2>4. \A k \in Keys : Cache!Hit(k)' <=> Cache!Hit(k)
      BY <2>1 DEF Cache!Hit
    <2>5. ~CacheHit(t)
      BY <1>3 DEF BeginMiss
    <2>6. CallJustified'
      BY <2>1, <2>4, <2>5, TaskFacts DEF CallJustified, CacheHit
    <2> QED
      BY <2>2, <2>3, <2>6
  <1>4. ASSUME NEW t \in Tasks, Resume(t)
        PROVE  InFlightOK' /\ RowsTruthful' /\ BegunOK' /\ CallJustified'
    <2> DEFINE e == EngineOf(t)
               q == waiters[e]
    <2>1. e \in Engines /\ q \in Seq(Tasks) /\ permits[e] \in Nat
      BY TaskFacts DEF TypeInv, TypeOK
    <2>2. PICK i \in DOMAIN q : MoveAndWake(t, "calling", e, permits[e], RemoveAt(q, i), permits[e])
      BY <1>4 DEF Resume
    <2>3. RemoveAt(q, i) \in Seq(Tasks)
      BY <2>1, RemoveAtType
    <2>4. /\ \A u \in Tasks : u # t => pc'[u] = pc[u] \/ (pc[u] = "waiting" /\ pc'[u] = "granted")
          /\ pc'[t] = "calling"
      <3> HIDE DEF e, q
      <3> QED
        BY <2>1, <2>2, <2>3, WakeType DEF TaskStates, Holding
    <2>5. pc[t] = "granted" /\ UNCHANGED <<rows, clock, begun, res>>
      BY <1>4 DEF Resume
    <2> QED
      BY <2>4, <2>5, RowsUntouched DEF Undecided
  <1>5. ASSUME NEW t \in Tasks, SourceReplies(t)
        PROVE  InFlightOK' /\ RowsTruthful' /\ BegunOK' /\ CallJustified'
    <2> DEFINE a == [key |-> KeyOf(t), at |-> clock, via |-> EngineOf(t)]
    <2>1. /\ \A u \in Tasks : u # t => pc'[u] = pc[u] /\ begun'[u] = begun[u] /\ res'[u] = res[u]
          /\ pc'[t] = "answered" /\ begun'[t] = 0
          /\ res'[t] \in {a, ErrorResult, Exception}
          /\ UNCHANGED <<rows, clock>>
      BY <1>5 DEF SourceReplies, TypeInv, TypeOK
    <2>2. InFlightOK'
      <3>1. res'[t] \in Answers => res'[t] = a
        BY <2>1, SentinelAssumption
      <3>2. a.key = KeyOf(t) /\ a.via = EngineOf(t) /\ a.at <= clock /\ clock <= a.at + MaxFlight
        BY EngineAssumption DEF TypeInv, TypeOK
      <3> QED
        BY <2>1, <3>1, <3>2 DEF InFlightOK
    <2>3. BegunOK' /\ RowsTruthful'
      BY <2>1 DEF BegunOK, RowsTruthful, TypeInv, TypeOK
    <2>4. \A k \in Keys : Cache!Hit(k)' <=> Cache!Hit(k)
      BY <2>1 DEF Cache!Hit
    <2>5. CallJustified'
      BY <2>1, <2>4, TaskFacts DEF CallJustified, CacheHit
    <2> QED
      BY <2>2, <2>3, <2>5
  <1>6. ASSUME NEW t \in Tasks, DeliverResult(t)
        PROVE  InFlightOK' /\ RowsTruthful' /\ BegunOK' /\ CallJustified'
    <2>1. /\ \A u \in Tasks : u # t => pc'[u] = pc[u] \/ (pc[u] = "waiting" /\ pc'[u] = "granted")
          /\ pc'[t] = "done"
      BY <1>6, ReleaseType DEF DeliverResult, TaskStates
    <2>2. pc[t] = "answered" /\ UNCHANGED <<clock, begun, res>>
      BY <1>6 DEF DeliverResult
    <2>3. CASE UNCHANGED rows
      BY <2>1, <2>2, <2>3, RowsUntouched DEF Undecided
    <2>4. CASE ~UNCHANGED rows
      <3> DEFINE row == Cache!NewRow(res[t], clock)
      <3>1. /\ EngineOf(t) \in CachedEngines
            /\ res[t] \in Answers
            /\ rows' = [rows EXCEPT ![KeyOf(t)] = row]
        BY <1>6, <2>4 DEF DeliverResult, TypeInv, TypeOK, AnsweredOK
      <3>2. clock \in Nat /\ res[t].at \in Nat
        BY <3>1 DEF TypeInv, TypeOK, Answers
      <3>3. /\ row.payload = res[t] /\ row.cachedAt = clock /\ row.expiresAt = clock + TTL
        BY <3>1, <3>2, NewRowType
      <3>4. /\ res[t].key = KeyOf(t) /\ res[t].via = EngineOf(t)
            /\ row.cachedAt - res[t].at \in 0..MaxFlight
        BY <2>2, <3>1, <3>2, <3>3, EngineAssumption DEF InFlightOK
      <3>5. rows'[KeyOf(t)] = row /\ \A k \in Keys : k # KeyOf(t) => rows'[k] = rows[k]
        BY <3>1, TaskFacts DEF TypeInv, TypeOK
      <3>6. RowsTruthful'
        <4> SUFFICES ASSUME NEW k \in Keys, rows'[k] # NoRow
                     PROVE  /\ rows'[k].payload \in Answers
                            /\ rows'[k].payload.key = k
                            /\ rows'[k].payload.via \in CachedEngines
                            /\ rows'[k].cachedAt - rows'[k].payload.at \in 0..MaxFlight
                            /\ rows'[k].expiresAt = rows'[k].cachedAt + TTL
          BY DEF RowsTruthful
        <4>1. CASE k = KeyOf(t)
          <5> HIDE DEF row
          <5> QED
            BY <3>1, <3>3, <3>4, <3>5, <4>1
        <4>2. CASE k # KeyOf(t)
          BY <3>5, <4>2 DEF RowsTruthful
        <4> QED
          BY <4>1, <4>2
      <3>7. InFlightOK' /\ BegunOK'
        BY <2>1, <2>2 DEF InFlightOK, BegunOK
      <3>8. CallJustified'
        <4> SUFFICES ASSUME NEW u \in Tasks, pc'[u] \in Undecided,
                            EngineOf(u) \in CachedEngines, Cache!Hit(KeyOf(u))'
                     PROVE  rows'[KeyOf(u)].cachedAt >= begun'[u]
          BY DEF CallJustified, CacheHit, Undecided
        <4>1. pc[u] \in Undecided
          BY <2>1 DEF Undecided
        <4>2. CASE KeyOf(u) = KeyOf(t)
          <5> HIDE DEF row
          <5>1. begun[u] \in Nat /\ begun[u] <= clock
            BY DEF BegunOK, TypeInv, TypeOK
          <5> QED
            BY <2>2, <3>2, <3>3, <3>5, <4>2, <5>1
        <4>3. CASE KeyOf(u) # KeyOf(t)
          <5>1. KeyOf(u) \in Keys /\ rows'[KeyOf(u)] = rows[KeyOf(u)]
            BY <3>5, <4>3, TaskFacts
          <5>2. Cache!Hit(KeyOf(u))
            BY <2>2, <5>1 DEF Cache!Hit
          <5> QED
            BY <2>2, <4>1, <5>1, <5>2 DEF CallJustified, CacheHit, Undecided
        <4> QED
          BY <4>2, <4>3
      <3> QED
        BY <3>6, <3>7, <3>8
    <2> QED
      BY <2>3, <2>4
  <1>7. ASSUME NEW t \in Tasks, DeliverException(t) \/ CacheSetRaises(t)
        PROVE  InFlightOK' /\ RowsTruthful' /\ BegunOK' /\ CallJustified'
    <2>1. /\ Release(t, "failed", EngineOf(t)) /\ "failed" \in TaskStates
          /\ UNCHANGED <<rows, clock, begun>>
          /\ \A u \in Tasks : u # t => res'[u] = res[u]
      BY <1>7 DEF DeliverException, CacheSetRaises, TaskStates, TypeInv, TypeOK
    <2>2. /\ \A u \in Tasks : u # t => pc'[u] = pc[u] \/ (pc[u] = "waiting" /\ pc'[u] = "granted")
          /\ pc'[t] = "failed"
      BY <2>1, ReleaseType
    <2> QED
      BY <2>1, <2>2, RowsUntouched DEF Undecided
  <1>8. ASSUME NEW r \in Requests, Finish(r)
        PROVE  InFlightOK' /\ RowsTruthful' /\ BegunOK' /\ CallJustified'
    BY <1>8, RowsUntouched DEF Finish, Return, Raise, taskVars
  <1>9. ASSUME NEW e \in Engines, ProcessExit(e)
        PROVE  InFlightOK' /\ RowsTruthful' /\ BegunOK' /\ CallJustified'
    BY <1>9, RowsUntouched DEF ProcessExit, Undecided
  <1>10. CASE Tick
    <2>1. clock' = clock + 1 /\ UNCHANGED <<rows, pc, begun, res>>
      BY <1>10 DEF Tick, taskVars
    <2>2. InFlightOK'
      <3> SUFFICES ASSUME NEW t \in Tasks, pc[t] = "answered", res[t] \in Answers
                   PROVE  /\ res[t].key = KeyOf(t) /\ res[t].via = EngineOf(t)
                          /\ res[t].at <= clock + 1 /\ clock + 1 <= res[t].at + MaxFlight
        BY <2>1 DEF InFlightOK
      <3>1. clock \in Nat /\ res[t].at \in Nat /\ clock < res[t].at + MaxFlight
        BY <1>10 DEF Tick, TypeInv, TypeOK, Answers
      <3> QED
        BY <3>1, EngineAssumption DEF InFlightOK
    <2>3. BegunOK' /\ RowsTruthful'
      BY <2>1 DEF BegunOK, RowsTruthful, TypeInv, TypeOK
    <2>4. \A k \in Keys : Cache!Hit(k)' => Cache!Hit(k)
      <3> SUFFICES ASSUME NEW k \in Keys, Cache!Hit(k)'
                   PROVE  Cache!Hit(k)
        OBVIOUS
      <3>1. rows[k] # NoRow /\ rows[k].expiresAt > clock + 1
        BY <1>0, <2>1 DEF Cache!Hit, Cache!Fresh, Cache!Seconds, TypeInv, TypeOK
      <3>2. rows[k].expiresAt \in Int /\ clock \in Nat
        BY <3>1 DEF TypeInv, TypeOK, Cache!Row
      <3> QED
        BY <3>1, <3>2, HitMeaning DEF TypeInv
    <2>5. CallJustified'
      BY <2>1, <2>4, TaskFacts DEF CallJustified, CacheHit
    <2> QED
      BY <2>2, <2>3, <2>5
  <1>11. CASE UNCHANGED vars
    BY <1>11, RowsUntouched DEF vars, taskVars
  <1> QED
    BY <1>1, <1>2, <1>3, <1>4, <1>5, <1>6, <1>7, <1>8, <1>9, <1>10, <1>11 DEF Next, Step

(* Every stored row is a recent, truthful answer for its own key, bought by *)
(* an engine that shares the cache.                                         *)
THEOREM CacheTruthful == Spec => []RowsTruthful
  <1>1. Spec => []RowInv
    BY InitRowInv, RowInvStep, PTL DEF Spec
  <1>2. RowInv => RowsTruthful
    BY DEF RowInv
  <1> QED
    BY <1>1, <1>2, PTL

(* A call for a key with a fresh row is only made by a task that missed it. *)
THEOREM CallsJustified == Spec => []CallJustified
  <1>1. Spec => []RowInv
    BY InitRowInv, RowInvStep, PTL DEF Spec
  <1>2. RowInv => CallJustified
    BY DEF RowInv
  <1> QED
    BY <1>1, <1>2, PTL

-----------------------------------------------------------------------------
(* The queue of a semaphore.  That no wake-up is lost is inductive together *)
(* with: a queue holds each waiting or woken task of its engine once, and   *)
(* nothing else.                                                            *)
Queued == {"waiting", "granted"}

QueuedOK ==
    \A e \in Engines :
        /\ \A i \in DOMAIN waiters[e] : pc[waiters[e][i]] \in Queued
        /\ \A i, j \in DOMAIN waiters[e] : waiters[e][i] = waiters[e][j] => i = j

WaitersQueued ==
    \A t \in Tasks : pc[t] \in Queued =>
        \E i \in DOMAIN waiters[EngineOf(t)] : waiters[EngineOf(t)][i] = t

WaitInv == SlotInv /\ QueuedOK /\ WaitersQueued /\ NoLostWakeup

(* Fewer than n are woken only when no sleeper of the queue is left.        *)
LEMMA WokenAll ==
    ASSUME NEW q \in Seq(Tasks), NEW n \in Nat,
           \A i, j \in DOMAIN q : q[i] = q[j] => i = j,
           Cardinality(Woken(q, n)) < n
    PROVE  \A i \in DOMAIN q : pc[q[i]] = "waiting" => q[i] \in Woken(q, n)
  <1> DEFINE asleep == {i \in DOMAIN q : pc[q[i]] = "waiting"}
             before(i) == {j \in asleep : j < i}
             rank(i) == Cardinality(before(i))
             chosen == {i \in asleep : rank(i) < n}
             passed == asleep \ chosen
  <1>1. asleep \subseteq DOMAIN q /\ asleep \subseteq Nat
    OBVIOUS
  <1>2. Woken(q, n) = {q[i] : i \in chosen}
    BY DEF Woken
  <1>3. SUFFICES ASSUME passed # {} PROVE FALSE
    <2> SUFFICES ASSUME NEW i \in DOMAIN q, pc[q[i]] = "waiting"
                 PROVE  q[i] \in Woken(q, n)
      OBVIOUS
    <2>1. i \in asleep
      OBVIOUS
    <2> HIDE DEF asleep, chosen
    <2> QED
      BY <1>2, <2>1
  <1>4. PICK i \in passed : \A j \in passed : i <= j
    <2>1. passed \subseteq Nat
      BY <1>1
    <2> HIDE DEF passed
    <2> QED
      BY <1>3, <2>1, LeastNatural
  <1>5. before(i) \subseteq chosen
    <2> SUFFICES ASSUME NEW j \in before(i) PROVE j \in chosen
      OBVIOUS
    <2>1. j \in asleep /\ j \in Nat /\ i \in Nat /\ j < i
      BY <1>1
    <2>2. j \notin passed
      <3> HIDE DEF passed, asleep
      <3> QED
        BY <1>4, <2>1
    <2> HIDE DEF asleep, chosen
    <2> QED
      BY <2>1, <2>2
  <1> DEFINE early == {q[j] : j \in before(i)}
             places == [j \in before(i) |-> q[j]]
  <1>6. early \subseteq Woken(q, n)
    <2> HIDE DEF before, chosen
    <2> QED
      BY <1>2, <1>5
  <1>7. IsFiniteSet(before(i)) /\ rank(i) \in Nat
    <2>1. DOMAIN q = 1..Len(q) /\ Len(q) \in Nat
      OBVIOUS
    <2>2. IsFiniteSet(1..Len(q)) /\ before(i) \subseteq 1..Len(q)
      BY <2>1, FS_Interval
    <2> HIDE DEF before
    <2> QED
      BY <2>2, FS_Subset, FS_CardinalityType
  <1>8. Cardinality(early) = rank(i)
    <2>1. \A j, l \in before(i) : q[j] = q[l] => j = l
      BY <1>1
    <2>2. places \in Bijection(before(i), early)
      <3> HIDE DEF before
      <3> QED
        BY <2>1 DEF Bijection, Injection, IsInjective, Surjection
    <2> HIDE DEF before, places, early
    <2>3. ExistsBijection(before(i), early)
      BY <2>2 DEF ExistsBijection
    <2> QED
      BY <1>7, <2>3, FS_Bijection
  <1>9. rank(i) <= Cardinality(Woken(q, n)) /\ Cardinality(Woken(q, n)) \in Nat
    <2> HIDE DEF early, rank
    <2> QED
      BY <1>6, <1>8, WokenBound, FS_Subset
  <1>10. ~(rank(i) < n)
    <2> HIDE DEF rank
    <2> QED
      OBVIOUS
  <1> HIDE DEF rank
  <1> QED
    BY <1>7, <1>9, <1>10

(* A step that leaves the queues and the slots alone, and who waits.        *)
LEMMA WaitUntouched ==
    ASSUME QueuedOK, WaitersQueued, NoLostWakeup, UNCHANGED <<waiters, permits>>,
           \A e \in Engines : \A i \in DOMAIN waiters[e] : waiters[e][i] \in Tasks,
           \A u \in Tasks : pc[u] \in Queued \/ pc'[u] \in Queued => pc'[u] = pc[u]
    PROVE  QueuedOK' /\ WaitersQueued' /\ NoLostWakeup'
  <1>1. QueuedOK'
    BY DEF QueuedOK
  <1>2. WaitersQueued'
    BY DEF WaitersQueued
  <1>3. NoLostWakeup'
    BY DEF NoLostWakeup, Queued
  <1> QED
    BY <1>1, <1>2, <1>3

(* Task t leaves or stays out of the queue; the n free slots go to its      *)
(* first k sleepers: a slot is left over only when a sleeper was woken or   *)
(* none is there.                                                           *)
LEMMA WakeWaits ==
    ASSUME WaitInv, NEW t \in Tasks, NEW s \in TaskStates \ Queued,
           NEW e \in Engines, e = EngineOf(t),
           NEW n \in Nat, NEW k \in Nat, k <= n, k >= 1 \/ n = 0, NEW q \in Seq(Tasks),
           \A i \in DOMAIN q : q[i] # t /\ pc[q[i]] \in Queued /\ EngineOf(q[i]) = e,
           \A i, j \in DOMAIN q : q[i] = q[j] => i = j,
           \A u \in Tasks : u # t /\ EngineOf(u) = e /\ pc[u] \in Queued => \E i \in DOMAIN q : q[i] = u,
           MoveAndWake(t, s, e, n, q, k)
    PROVE  QueuedOK' /\ WaitersQueued' /\ NoLostWakeup'
  <1> DEFINE W == Woken(q, k)
  <1>1. /\ Cardinality(W) \in Nat /\ Cardinality(W) <= k /\ IsFiniteSet(W)
        /\ \A u \in W : u \in Tasks /\ u # t /\ pc[u] = "waiting" /\ EngineOf(u) = e
    <2>1. /\ Cardinality(W) \in Nat /\ Cardinality(W) <= k /\ IsFiniteSet(W)
          /\ \A u \in W : u \in Tasks /\ pc[u] = "waiting"
          /\ \A u \in W : \E i \in DOMAIN q : q[i] = u
      BY WokenBound
    <2> HIDE DEF W
    <2> QED
      BY <2>1
  <1>2. /\ pc' = [u \in Tasks |-> IF u = t THEN s ELSE IF u \in W THEN "granted" ELSE pc[u]]
        /\ permits'[e] = n - Cardinality(W)
        /\ waiters'[e] = q
        /\ \A d \in Engines : d # e => permits'[d] = permits[d] /\ waiters'[d] = waiters[d]
    BY DEF MoveAndWake, WaitInv, SlotInv, TypeInv, TypeOK
  <1> HIDE DEF W
  <1>3. /\ \A u \in Tasks : u # t => (pc'[u] \in Queued <=> pc[u] \in Queued)
        /\ pc'[t] \notin Queued
        /\ \A u \in W : pc'[u] = "granted"
        /\ \A u \in Tasks : EngineOf(u) # e => pc'[u] = pc[u]
    BY <1>1, <1>2 DEF Queued
  <1>4. ASSUME NEW d \in Engines, d # e
        PROVE  /\ \A i \in DOMAIN waiters[d] : waiters[d][i] \in Tasks /\ EngineOf(waiters[d][i]) = d
               /\ \A i \in DOMAIN waiters[d] : pc[waiters[d][i]] \in Queued
    BY DEF WaitInv, SlotInv, TypeInv, TypeOK, QueueOK, QueuedOK
  <1>5. QueuedOK'
    <2> SUFFICES ASSUME NEW d \in Engines
                 PROVE  /\ \A i \in DOMAIN waiters'[d] : pc'[waiters'[d][i]] \in Queued
                        /\ \A i, j \in DOMAIN waiters'[d] : waiters'[d][i] = waiters'[d][j] => i = j
      BY DEF QueuedOK
    <2>1. CASE d = e
      BY <1>2, <1>3, <2>1
    <2>2. CASE d # e
      <3>1. \A i, j \in DOMAIN waiters[d] : waiters[d][i] = waiters[d][j] => i = j
        BY DEF WaitInv, QueuedOK
      <3> QED
        BY <1>2, <1>3, <1>4, <2>2, <3>1
    <2> QED
      BY <2>1, <2>2
  <1>6. WaitersQueued'
    <2> SUFFICES ASSUME NEW u \in Tasks, pc'[u] \in Queued
                 PROVE  \E i \in DOMAIN waiters'[EngineOf(u)] : waiters'[EngineOf(u)][i] = u
      BY DEF WaitersQueued
    <2>1. u # t /\ pc[u] \in Queued /\ EngineOf(u) \in Engines
      BY <1>3, TaskFacts
    <2>2. CASE EngineOf(u) = e
      BY <1>2, <2>1, <2>2
    <2>3. CASE EngineOf(u) # e
      BY <1>2, <2>1, <2>3 DEF WaitInv, WaitersQueued
    <2> QED
      BY <2>2, <2>3
  <1>7. NoLostWakeup'
    <2> SUFFICES ASSUME NEW d \in Engines, permits'[d] > 0,
                        NEW u \in Tasks, EngineOf(u) = d, pc'[u] = "waiting"
                 PROVE  \E v \in Tasks : EngineOf(v) = d /\ pc'[v] = "granted"
      BY DEF NoLostWakeup
    <2>1. CASE d = e
      <3>1. k >= 1
        BY <1>1, <1>2, <2>1
      <3>2. u # t /\ u \notin W /\ pc[u] = "waiting"
        BY <1>1, <1>2, <1>3 DEF Queued
      <3>3. PICK i \in DOMAIN q : q[i] = u
        BY <2>1, <3>2 DEF Queued
      <3>4. ~(Cardinality(W) < k)
        BY <3>2, <3>3, WokenAll DEF W
      <3>5. W # {}
        BY <1>1, <3>1, <3>4, FS_EmptySet
      <3>6. PICK v \in W : TRUE
        BY <3>5
      <3> QED
        BY <1>1, <1>3, <2>1, <3>6
    <2>2. CASE d # e
      <3>1. permits[d] > 0 /\ pc[u] = "waiting"
        BY <1>2, <1>3, <2>2
      <3>2. PICK v \in Tasks : EngineOf(v) = d /\ pc[v] = "granted"
        BY <3>1 DEF WaitInv, NoLostWakeup
      <3> QED
        BY <1>3, <2>2, <3>2
    <2> QED
      BY <2>1, <2>2
  <1> QED
    BY <1>5, <1>6, <1>7

LEMMA ReleaseWaits ==
    ASSUME WaitInv, NEW t \in Tasks, NEW s \in TaskStates \ Queued,
           pc[t] \notin Queued, Release(t, s, EngineOf(t))
    PROVE  QueuedOK' /\ WaitersQueued' /\ NoLostWakeup'
  <1> DEFINE e == EngineOf(t)
             q == waiters[e]
  <1>1. /\ e \in Engines /\ permits[e] \in Nat /\ q \in Seq(Tasks)
        /\ \A i \in DOMAIN q : EngineOf(q[i]) = e
        /\ \A i \in DOMAIN q : pc[q[i]] \in Queued
        /\ \A i, j \in DOMAIN q : q[i] = q[j] => i = j
    BY TaskFacts DEF WaitInv, SlotInv, TypeInv, TypeOK, QueueOK, QueuedOK
  <1>2. MoveAndWake(t, s, e, permits[e] + 1, q, 1)
    BY DEF Release
  <1>3. \A u \in Tasks : u # t /\ EngineOf(u) = e /\ pc[u] \in Queued => \E i \in DOMAIN q : q[i] = u
    BY DEF WaitInv, WaitersQueued
  <1>4. PICK n \in Nat : n = permits[e] + 1
    BY <1>1
  <1>5. 1 <= n /\ MoveAndWake(t, s, e, n, q, 1)
    BY <1>1, <1>2, <1>4
  <1> HIDE DEF q
  <1> QED
    BY <1>1, <1>3, <1>5, WakeWaits

LEMMA InitWaitInv == Init => WaitInv
  <1> SUFFICES ASSUME Init PROVE WaitInv
    OBVIOUS
  <1>1. QueuedOK /\ WaitersQueued /\ NoLostWakeup
    BY DEF Init, QueuedOK, WaitersQueued, NoLostWakeup, Queued
  <1> QED
    BY <1>1, InitSlotInv DEF WaitInv

LEMMA WaitInvStep ==
    ASSUME WaitInv, [Next]_vars
    PROVE  WaitInv'
  <1>0. SlotInv' /\ SlotInv /\ TypeOK
    BY SlotInvStep DEF WaitInv, SlotInv, TypeInv
  <1> SUFFICES QueuedOK' /\ WaitersQueued' /\ NoLostWakeup'
    BY <1>0 DEF WaitInv
  <1> DEFINE Kept == QueuedOK' /\ WaitersQueued' /\ NoLostWakeup'
  <1>a. \A e \in Engines : \A i \in DOMAIN waiters[e] : waiters[e][i] \in Tasks
    BY <1>0 DEF TypeOK
  <1>b. ASSUME UNCHANGED <<waiters, permits>>,
               \A u \in Tasks : pc[u] \in Queued \/ pc'[u] \in Queued => pc'[u] = pc[u]
        PROVE  Kept
    BY <1>a, <1>b, WaitUntouched DEF WaitInv
  <1>1. ASSUME NEW r \in Requests, NEW b \in SUBSET Iocs, Submit(r, b)
        PROVE  Kept
    <2>1. \A u \in Lookups(r, b) : pc[u] = "none"
      BY <1>0, <1>1 DEF Submit, Lookups, SlotInv, IdleOK
    <2>2. UNCHANGED <<waiters, permits>>
      BY <1>1 DEF Submit, slotVars
    <2>3. \A u \in Tasks : pc[u] \in Queued \/ pc'[u] \in Queued => pc'[u] = pc[u]
      BY <1>1, <2>1 DEF Submit, Queued
    <2> QED
      BY <1>b, <2>2, <2>3
  <1>2. ASSUME NEW t \in Tasks, BeginHit(t) \/ SourceReplies(t)
        PROVE  Kept
    <2>1. UNCHANGED <<waiters, permits>>
      BY <1>2 DEF BeginHit, SourceReplies, slotVars
    <2>2. \A u \in Tasks : pc[u] \in Queued \/ pc'[u] \in Queued => pc'[u] = pc[u]
      BY <1>0, <1>2 DEF BeginHit, SourceReplies, Queued, TypeOK
    <2> QED
      BY <1>b, <2>1, <2>2
  <1>3. ASSUME NEW t \in Tasks, BeginMiss(t)
        PROVE  Kept
    <2> DEFINE e == EngineOf(t)
               q == waiters[e]
    <2>1. /\ e \in Engines /\ permits[e] \in Nat /\ q \in Seq(Tasks) /\ pc[t] = "ready"
          /\ \A i \in DOMAIN q : EngineOf(q[i]) = e /\ pc[q[i]] \in Queued
      BY <1>0, <1>3, TaskFacts DEF BeginMiss, TypeOK, WaitInv, SlotInv, QueueOK, QueuedOK
    <2>2. CASE permits[e] > 0 /\ q = <<>>
      <3>1. /\ \A u \in Tasks : u # t => pc'[u] = pc[u]
            /\ pc'[t] = "calling"
            /\ \A d \in Engines : d # e => permits'[d] = permits[d]
            /\ UNCHANGED waiters
        BY <1>0, <1>3, <2>2 DEF BeginMiss, Acquire, TypeOK
      <3>2. QueuedOK'
        <4>1. \A d \in Engines : \A i \in DOMAIN waiters[d] : waiters[d][i] # t
          BY <2>1 DEF WaitInv, QueuedOK, Queued
        <4> QED
          BY <1>a, <3>1, <4>1 DEF WaitInv, QueuedOK
      <3>3. WaitersQueued'
        BY <3>1 DEF WaitInv, WaitersQueued, Queued
      <3>4. NoLostWakeup'
        <4> SUFFICES ASSUME NEW d \in Engines, permits'[d] > 0,
                            NEW u \in Tasks, EngineOf(u) = d, pc'[u] = "waiting"
                     PROVE  \E v \in Tasks : EngineOf(v) = d /\ pc'[v] = "granted"
          BY DEF NoLostWakeup
        <4>1. u # t /\ pc[u] = "waiting"
          BY <3>1
        <4>2. d # e
          BY <2>2, <4>1 DEF WaitInv, WaitersQueued, Queued
        <4>3. PICK v \in Tasks : EngineOf(v) = d /\ pc[v] = "granted"
          BY <3>1, <4>1, <4>2 DEF WaitInv, NoLostWakeup
        <4> QED
          BY <3>1, <4>2, <4>3
      <3> QED
        BY <3>2, <3>3, <3>4
    <2>3. CASE ~(permits[e] > 0 /\ q = <<>>)
      <3>1. /\ \A u \in Tasks : u # t => pc'[u] = pc[u]
            /\ pc'[t] = "waiting"
            /\ UNCHANGED permits
            /\ \A d \in Engines : d # e => waiters'[d] = waiters[d]
            /\ waiters'[e] = Append(q, t)
        <4>1. /\ pc' = [pc EXCEPT ![t] = "waiting"]
              /\ waiters' = [waiters EXCEPT ![e] = Append(q, t)]
              /\ UNCHANGED permits
          BY <1>3, <2>3 DEF BeginMiss, Acquire
        <4> HIDE DEF q
        <4> QED
          BY <1>0, <2>1, <4>1 DEF TypeOK
      <3>2. /\ Len(q) \in Nat
            /\ DOMAIN Append(q, t) = 1..(Len(q) + 1) /\ Append(q, t)[Len(q) + 1] = t
            /\ DOMAIN q = 1..Len(q)
            /\ \A i \in 1..Len(q) : Append(q, t)[i] = q[i]
        BY <2>1
      <3>3. ASSUME NEW i \in DOMAIN q PROVE q[i] # t /\ q[i] \in Tasks
        BY <2>1 DEF Queued
      <3>4. QueuedOK'
        <4> SUFFICES ASSUME NEW d \in Engines
                     PROVE  /\ \A i \in DOMAIN waiters'[d] : pc'[waiters'[d][i]] \in Queued
                            /\ \A i, j \in DOMAIN waiters'[d] : waiters'[d][i] = waiters'[d][j] => i = j
          BY DEF QueuedOK
        <4>1. CASE d = e
          <5>1. \A i, j \in 1..Len(q) : q[i] = q[j] => i = j
            BY <2>1, <3>2 DEF WaitInv, QueuedOK
          <5>2. ASSUME NEW i \in 1..(Len(q) + 1)
                PROVE  pc'[Append(q, t)[i]] \in Queued
            <6>1. i = Len(q) + 1 \/ i \in 1..Len(q)
              BY <3>2
            <6> HIDE DEF q
            <6> QED
              BY <2>1, <3>1, <3>2, <3>3, <6>1 DEF Queued
          <5>3. ASSUME NEW i \in 1..(Len(q) + 1), NEW j \in 1..(Len(q) + 1),
                       Append(q, t)[i] = Append(q, t)[j]
                PROVE  i = j
            <6>1. (i = Len(q) + 1 \/ i \in 1..Len(q)) /\ (j = Len(q) + 1 \/ j \in 1..Len(q))
              BY <3>2
            <6> HIDE DEF q
            <6> QED
              BY <3>2, <3>3, <5>1, <5>3, <6>1
          <5> HIDE DEF q
          <5> QED
            BY <3>1, <3>2, <4>1, <5>2, <5>3
        <4>2. CASE d # e
          <5>1. \A i \in DOMAIN waiters[d] : waiters[d][i] \in Tasks /\ waiters[d][i] # t
            BY <1>a, <2>1 DEF WaitInv, QueuedOK, Queued
          <5> QED
            BY <3>1, <4>2, <5>1 DEF WaitInv, QueuedOK
        <4> QED
          BY <4>1, <4>2
      <3>5. WaitersQueued'
        <4> SUFFICES ASSUME NEW u \in Tasks, pc'[u] \in Queued
                     PROVE  \E i \in DOMAIN waiters'[EngineOf(u)] : waiters'[EngineOf(u)][i] = u
          BY DEF WaitersQueued
        <4>1. CASE u = t
          <5>1. Len(q) + 1 \in DOMAIN Append(q, t)
            BY <3>2
          <5> HIDE DEF q
          <5> QED
            BY <3>1, <3>2, <4>1, <5>1
        <4>2. CASE u # t /\ EngineOf(u) = e
          <5>1. PICK i \in DOMAIN q : q[i] = u
            BY <3>1, <4>2 DEF WaitInv, WaitersQueued
          <5>2. i \in DOMAIN Append(q, t) /\ Append(q, t)[i] = u
            BY <3>2, <5>1
          <5> HIDE DEF q
          <5> QED
            BY <3>1, <4>2, <5>2
        <4>3. CASE u # t /\ EngineOf(u) # e
          BY <3>1, <4>3, TaskFacts DEF WaitInv, WaitersQueued
        <4> QED
          BY <4>1, <4>2, <4>3
      <3>6. NoLostWakeup'
        <4> SUFFICES ASSUME NEW d \in Engines, permits[d] > 0,
                            NEW u \in Tasks, EngineOf(u) = d, pc'[u] = "waiting"
                     PROVE  \E v \in Tasks : EngineOf(v) = d /\ pc[v] = "granted"
          BY <2>1, <3>1 DEF NoLostWakeup
        <4>1. CASE u # t
          BY <3>1, <4>1 DEF WaitInv, NoLostWakeup
        <4>2. CASE u = t
          <5>1. 1 \in DOMAIN q
            BY <2>1, <2>3, <3>2, <4>2
          <5>2. q[1] \in Tasks /\ EngineOf(q[1]) = d /\ pc[q[1]] \in {"waiting", "granted"}
            BY <2>1, <3>3, <4>2, <5>1 DEF Queued
          <5> HIDE DEF q
          <5> QED
            BY <5>2 DEF WaitInv, NoLostWakeup
        <4> QED
          BY <4>1, <4>2
      <3> QED
        BY <3>4, <3>5, <3>6
    <2> QED
      BY <2>2, <2>3
  <1>4. ASSUME NEW t \in Tasks, Resume(t)
        PROVE  Kept
    <2> DEFINE e == EngineOf(t)
               q == waiters[e]
    <2>1. /\ e \in Engines /\ q \in Seq(Tasks) /\ permits[e] \in Nat
          /\ \A i \in DOMAIN q : EngineOf(q[i]) = e /\ pc[q[i]] \in Queued
          /\ \A i, j \in DOMAIN q : q[i] = q[j] => i = j
      BY <1>0, TaskFacts DEF TypeOK, WaitInv, SlotInv, QueueOK, QueuedOK
    <2>2. PICK i \in DOMAIN q :
              q[i] = t /\ MoveAndWake(t, "calling", e, permits[e], RemoveAt(q, i), permits[e])
      BY <1>4 DEF Resume
    <2>3. \A u \in Tasks : EngineOf(u) = e /\ pc[u] \in Queued => \E j \in DOMAIN q : q[j] = u
      BY DEF WaitInv, WaitersQueued
    <2> HIDE DEF q
    <2>4. PICK p \in Seq(Tasks) : p = RemoveAt(q, i)
      BY <2>1, RemoveAtType
    <2>5. /\ \A j \in DOMAIN p : p[j] # t /\ \E m \in DOMAIN q : p[j] = q[m]
          /\ \A j, l \in DOMAIN p : p[j] = p[l] => j = l
          /\ \A m \in DOMAIN q : q[m] # t => \E j \in DOMAIN p : p[j] = q[m]
      BY <2>1, <2>2, <2>4, RemoveAtKeeps, RemoveAtElements
    <2>6. \A u \in Tasks : u # t /\ EngineOf(u) = e /\ pc[u] \in Queued => \E j \in DOMAIN p : p[j] = u
      BY <2>3, <2>5
    <2>7. \A j \in DOMAIN p : p[j] # t /\ pc[p[j]] \in Queued /\ EngineOf(p[j]) = e
      BY <2>1, <2>5
    <2>8. permits[e] >= 1 \/ permits[e] = 0
      BY <2>1
    <2>9. "calling" \in TaskStates \ Queued
      BY DEF TaskStates, Holding, Queued
    <2>10. PICK n \in Nat : n = permits[e]
      BY <2>1
    <2>11. n <= n /\ (n >= 1 \/ n = 0) /\ MoveAndWake(t, "calling", e, n, p, n)
      BY <2>2, <2>4, <2>8, <2>10
    <2> QED
      BY <2>1, <2>5, <2>6, <2>7, <2>9, <2>11, WakeWaits
  <1>5. ASSUME NEW t \in Tasks, NEW s \in {"done", "failed"},
               pc[t] = "answered", Release(t, s, EngineOf(t))
        PROVE  Kept
    <2>1. s \in TaskStates \ Queued /\ pc[t] \notin Queued
      BY <1>5 DEF TaskStates, Queued
    <2> QED
      BY <1>5, <2>1, ReleaseWaits
  <1>6. ASSUME NEW r \in Requests, Finish(r)
        PROVE  Kept
    BY <1>6, <1>b DEF Finish, Return, Raise, taskVars, slotVars
  <1>7. ASSUME NEW e \in Engines, ProcessExit(e)
        PROVE  Kept
    <2>1. /\ waiters'[e] = <<>> /\ permits'[e] = MaxConcurrency
          /\ \A d \in Engines : d # e => waiters'[d] = waiters[d] /\ permits'[d] = permits[d]
          /\ \A u \in Tasks : EngineOf(u) = e => pc'[u] \notin Queued
          /\ \A u \in Tasks : EngineOf(u) # e => pc'[u] = pc[u]
      BY <1>0, <1>7 DEF ProcessExit, TypeOK, Queued
    <2>2. ASSUME NEW d \in Engines
          PROVE  \A i \in DOMAIN waiters[d] : waiters[d][i] \in Tasks /\ EngineOf(waiters[d][i]) = d
      BY <1>a, <1>0 DEF SlotInv, QueueOK
    <2>3. QueuedOK'
      <3> SUFFICES ASSUME NEW d \in Engines
                   PROVE  /\ \A i \in DOMAIN waiters'[d] : pc'[waiters'[d][i]] \in Queued
                          /\ \A i, j \in DOMAIN waiters'[d] : waiters'[d][i] = waiters'[d][j] => i = j
        BY DEF QueuedOK
      <3>1. CASE d = e
        BY <2>1, <3>1
      <3>2. CASE d # e
        BY <2>1, <2>2, <3>2 DEF WaitInv, QueuedOK
      <3> QED
        BY <3>1, <3>2
    <2>4. WaitersQueued'
      BY <2>1, TaskFacts DEF WaitInv, WaitersQueued
    <2>5. NoLostWakeup'
      BY <2>1 DEF WaitInv, NoLostWakeup, Queued
    <2> QED
      BY <2>3, <2>4, <2>5
  <1>8. CASE Tick \/ UNCHANGED vars
    BY <1>8, <1>b DEF Tick, vars, taskVars, slotVars
  <1> QED
    BY <1>1, <1>2, <1>3, <1>4, <1>5, <1>6, <1>7, <1>8
       DEF Next, Step, DeliverResult, DeliverException, CacheSetRaises

(* A free slot never lies idle beside a sleeper: some woken waiter of that  *)
(* engine has still to run, and will pass it on.                            *)
THEOREM WakeupsArrive == Spec => []NoLostWakeup
  <1>1. Spec => []WaitInv
    BY InitWaitInv, WaitInvStep, PTL DEF Spec
  <1>2. WaitInv => NoLostWakeup
    BY DEF WaitInv
  <1> QED
    BY <1>1, <1>2, PTL

-----------------------------------------------------------------------------
(* The engine implements the service.  A step of a task maps to the reply   *)
(* or the failure of its lookup, a step of a request to its own, and the    *)
(* rest - cache, slots, queues, calls - to stutters.  The mapping needs: a  *)
(* task that ever ran is a lookup of its request's batch, an open request   *)
(* has a task for every lookup, and no row is from the future.              *)
LookupOK == \A t \in Tasks : pc[t] # "none" => t \in Lookups(RequestOf(t), batch[RequestOf(t)])

OpenOK ==
    \A r \in Requests : req[r] = "open" => \A t \in Lookups(r, batch[r]) : pc[t] # "none"

AgeOK == \A k \in Keys : rows[k] # NoRow => rows[k].cachedAt <= clock

ServInv == SlotInv /\ RowInv /\ LookupOK /\ OpenOK /\ AgeOK

(* The two mapped variables of the service.                                 *)
Replies == [t \in Tasks |-> IF pc[t] = "done" THEN res[t] ELSE NoAnswer]
Broken == {t \in Tasks : pc[t] = "failed"}

LEMMA InitServInv == Init => ServInv
  <1> SUFFICES ASSUME Init PROVE ServInv
    OBVIOUS
  <1>1. LookupOK /\ OpenOK /\ AgeOK
    BY DEF Init, LookupOK, OpenOK, AgeOK
  <1> QED
    BY <1>1, InitSlotInv, InitRowInv DEF ServInv

(* Tasks that run keep running towards an end: none is forgotten.           *)
LEMMA TasksKept ==
    ASSUME TypeOK, UNCHANGED batch, LookupOK, OpenOK,
           \A u \in Tasks : pc'[u] = "none" <=> pc[u] = "none",
           \A r \in Requests : req'[r] = "open" => req[r] = "open"
    PROVE  LookupOK' /\ OpenOK'
  <1>1. LookupOK'
    BY DEF LookupOK, Lookups
  <1>2. OpenOK'
    BY DEF OpenOK, Lookups
  <1> QED
    BY <1>1, <1>2

LEMMA ReleaseKeepsTasks ==
    ASSUME TypeInv, NEW t \in Tasks, pc[t] # "none", NEW s \in TaskStates \ {"none"},
           Release(t, s, EngineOf(t))
    PROVE  \A u \in Tasks : pc'[u] = "none" <=> pc[u] = "none"
  <1>1. /\ \A u \in Tasks : u # t => pc'[u] = pc[u] \/ (pc[u] = "waiting" /\ pc'[u] = "granted")
        /\ pc'[t] = s
    BY ReleaseType
  <1> QED
    BY <1>1

LEMMA ResumeTasks ==
    ASSUME TypeInv, NEW t \in Tasks, Resume(t)
    PROVE  /\ \A u \in Tasks : u # t => pc'[u] = pc[u] \/ (pc[u] = "waiting" /\ pc'[u] = "granted")
           /\ pc'[t] = "calling" /\ pc[t] = "granted"
  <1> DEFINE e == EngineOf(t)
             q == waiters[e]
  <1>1. e \in Engines /\ q \in Seq(Tasks) /\ permits[e] \in Nat
    BY TaskFacts DEF TypeInv, TypeOK
  <1>2. PICK i \in DOMAIN q : MoveAndWake(t, "calling", e, permits[e], RemoveAt(q, i), permits[e])
    BY DEF Resume
  <1>3. RemoveAt(q, i) \in Seq(Tasks)
    BY <1>1, RemoveAtType
  <1>4. pc[t] = "granted"
    BY DEF Resume
  <1> HIDE DEF e, q
  <1> QED
    BY <1>1, <1>2, <1>3, <1>4, WakeType DEF TaskStates, Holding

LEMMA ServInvStep ==
    ASSUME ServInv, [Next]_vars
    PROVE  ServInv'
  <1>0. SlotInv' /\ RowInv' /\ TypeInv /\ TypeOK /\ SlotInv /\ RowInv
    BY SlotInvStep, RowInvStep DEF ServInv, SlotInv, TypeInv
  <1>a. LookupOK /\ OpenOK /\ AgeOK
    BY DEF ServInv
  <1> SUFFICES LookupOK' /\ OpenOK' /\ AgeOK'
    BY <1>0 DEF ServInv
  <1>b. ASSUME UNCHANGED <<rows, clock>>
        PROVE  AgeOK'
    BY <1>a, <1>b DEF AgeOK
  <1>1. ASSUME NEW r \in Requests, NEW b \in SUBSET Iocs, Submit(r, b)
        PROVE  LookupOK' /\ OpenOK' /\ AgeOK'
    <2>1. /\ batch' = [batch EXCEPT ![r] = b] /\ req' = [req EXCEPT ![r] = "open"]
          /\ pc' = [t \in Tasks |-> IF t \in Lookups(r, b) THEN "ready" ELSE pc[t]]
          /\ UNCHANGED <<rows, clock>> /\ req[r] = "idle"
      BY <1>1 DEF Submit
    <2>2. /\ batch'[r] = b /\ \A x \in Requests : x # r => batch'[x] = batch[x] /\ req'[x] = req[x]
      BY <1>0, <2>1 DEF TypeOK
    <2>3. \A t \in Tasks : RequestOf(t) = r => pc[t] = "none"
      BY <1>0, <2>1 DEF SlotInv, IdleOK
    <2>4. \A t \in Tasks : RequestOf(t) # r => t \notin Lookups(r, b)
      BY DEF Lookups
    <2>5. LookupOK'
      <3> SUFFICES ASSUME NEW t \in Tasks, pc'[t] # "none"
                   PROVE  t \in Lookups(RequestOf(t), batch'[RequestOf(t)])
        BY DEF LookupOK, Lookups
      <3>1. CASE RequestOf(t) = r
        BY <2>1, <2>2, <2>3, <3>1
      <3>2. CASE RequestOf(t) # r
        BY <1>a, <2>1, <2>2, <2>4, <3>2, TaskFacts DEF LookupOK
      <3> QED
        BY <3>1, <3>2
    <2>6. OpenOK'
      <3> SUFFICES ASSUME NEW x \in Requests, req'[x] = "open", NEW t \in Lookups(x, batch'[x])
                   PROVE  pc'[t] # "none"
        BY DEF OpenOK, Lookups
      <3>1. t \in Tasks
        BY DEF Lookups
      <3>2. CASE x = r
        BY <2>1, <2>2, <3>1, <3>2
      <3>3. CASE x # r
        BY <1>a, <2>1, <2>2, <3>1, <3>3 DEF OpenOK
      <3> QED
        BY <3>2, <3>3
    <2> QED
      BY <1>b, <2>1, <2>5, <2>6
  <1>2. ASSUME NEW t \in Tasks, BeginHit(t) \/ BeginMiss(t) \/ SourceReplies(t)
        PROVE  LookupOK' /\ OpenOK' /\ AgeOK'
    <2>1. UNCHANGED <<batch, req, rows, clock>>
      BY <1>2 DEF BeginHit, BeginMiss, SourceReplies
    <2>2. /\ pc[t] # "none" /\ pc'[t] # "none"
          /\ \A u \in Tasks : u # t => pc'[u] = pc[u]
      BY <1>0, <1>2 DEF BeginHit, BeginMiss, Acquire, SourceReplies, TypeOK
    <2> QED
      BY <1>0, <1>a, <1>b, <2>1, <2>2, TasksKept
  <1>3. ASSUME NEW t \in Tasks, Resume(t)
        PROVE  LookupOK' /\ OpenOK' /\ AgeOK'
    <2>1. UNCHANGED <<batch, req, rows, clock>>
      BY <1>3 DEF Resume
    <2>2. \A u \in Tasks : pc'[u] = "none" <=> pc[u] = "none"
      BY <1>0, <1>3, ResumeTasks
    <2> QED
      BY <1>0, <1>a, <1>b, <2>1, <2>2, TasksKept
  <1>4. ASSUME NEW t \in Tasks, DeliverResult(t) \/ DeliverException(t) \/ CacheSetRaises(t)
        PROVE  LookupOK' /\ OpenOK' /\ AgeOK'
    <2>1. UNCHANGED <<batch, req, clock>> /\ pc[t] = "answered"
      BY <1>4 DEF DeliverResult, DeliverException, CacheSetRaises
    <2>2. PICK s \in {"done", "failed"} : Release(t, s, EngineOf(t))
      BY <1>4 DEF DeliverResult, DeliverException, CacheSetRaises
    <2>3. \A u \in Tasks : pc'[u] = "none" <=> pc[u] = "none"
      BY <1>0, <2>1, <2>2, ReleaseKeepsTasks DEF TaskStates
    <2>4. AgeOK'
      <3>1. CASE UNCHANGED rows
        BY <1>b, <2>1, <3>1
      <3>2. CASE ~UNCHANGED rows
        <4>1. DeliverResult(t)
          BY <1>4, <3>2 DEF DeliverException, CacheSetRaises
        <4>2. res[t] \in Answers /\ rows' = [rows EXCEPT ![KeyOf(t)] = Cache!NewRow(res[t], clock)]
          BY <1>0, <3>2, <4>1 DEF DeliverResult, TypeInv, TypeOK, AnsweredOK
        <4>3. Cache!NewRow(res[t], clock).cachedAt = clock /\ clock \in Nat
          BY <1>0, <4>2, NewRowType DEF TypeOK
        <4>4. \A k \in Keys : rows'[k] = rows[k] \/ rows'[k] = Cache!NewRow(res[t], clock)
          BY <1>0, <4>2 DEF TypeOK
        <4> QED
          BY <1>a, <2>1, <4>3, <4>4 DEF AgeOK
      <3> QED
        BY <3>1, <3>2
    <2> QED
      BY <1>0, <1>a, <2>1, <2>3, <2>4, TasksKept
  <1>5. ASSUME NEW r \in Requests, Finish(r)
        PROVE  LookupOK' /\ OpenOK' /\ AgeOK'
    <2>1. /\ UNCHANGED <<batch, pc, rows, clock>>
          /\ \A x \in Requests : req'[x] = "open" => req[x] = "open"
      BY <1>0, <1>5 DEF Finish, Return, Raise, taskVars, TypeOK
    <2> QED
      BY <1>0, <1>a, <1>b, <2>1, TasksKept
  <1>6. ASSUME NEW e \in Engines, ProcessExit(e)
        PROVE  LookupOK' /\ OpenOK' /\ AgeOK'
    <2>1. /\ UNCHANGED <<batch, rows, clock>>
          /\ \A x \in Requests : req'[x] = "open" => req[x] = "open"
          /\ \A u \in Tasks : pc'[u] = "none" <=> pc[u] = "none"
      BY <1>6 DEF ProcessExit
    <2> QED
      BY <1>0, <1>a, <1>b, <2>1, TasksKept
  <1>7. CASE Tick
    <2>1. clock' = clock + 1 /\ UNCHANGED <<batch, req, pc, rows>>
      BY <1>7 DEF Tick, taskVars
    <2>2. AgeOK'
      <3> SUFFICES ASSUME NEW k \in Keys, rows[k] # NoRow
                   PROVE  rows[k].cachedAt <= clock + 1
        BY <2>1 DEF AgeOK
      <3>1. rows[k] \in Cache!Row /\ clock \in Nat
        BY <1>0 DEF TypeOK
      <3>2. rows[k].cachedAt \in Int /\ rows[k].cachedAt <= clock
        BY <1>a, <3>1 DEF AgeOK, Cache!Row
      <3> QED
        BY <3>1, <3>2
    <2> QED
      BY <1>0, <1>a, <2>1, <2>2, TasksKept
  <1>8. CASE UNCHANGED vars
    <2>1. UNCHANGED <<batch, req, pc, rows, clock>>
      BY <1>8 DEF vars, taskVars
    <2> QED
      BY <1>0, <1>a, <1>b, <2>1, TasksKept
  <1> QED
    BY <1>1, <1>2, <1>3, <1>4, <1>5, <1>6, <1>7, <1>8 DEF Next, Step

(* Which task answers, which fails: what the mapped variables see of a step.*)
LEMMA RepliesKept ==
    ASSUME \A u \in Tasks : (pc'[u] = "done" <=> pc[u] = "done") /\ (pc[u] = "done" => res'[u] = res[u]),
           \A u \in Tasks : pc'[u] = "failed" <=> pc[u] = "failed"
    PROVE  Replies' = Replies /\ Broken' = Broken
  BY DEF Replies, Broken

LEMMA RepliesMove ==
    ASSUME NEW t \in Tasks, pc[t] \notin {"done", "failed"},
           \A u \in Tasks : u # t =>
               /\ pc'[u] = pc[u] \/ (pc[u] = "waiting" /\ pc'[u] = "granted")
               /\ res'[u] = res[u]
    PROVE  /\ Replies[t] = NoAnswer /\ t \notin Broken
           /\ pc'[t] = "done" => Replies' = [Replies EXCEPT ![t] = res'[t]] /\ Broken' = Broken
           /\ pc'[t] = "failed" => Replies' = Replies /\ Broken' = Broken \cup {t}
           /\ pc'[t] \notin {"done", "failed"} => Replies' = Replies /\ Broken' = Broken
  <1>1. Replies[t] = NoAnswer /\ t \notin Broken
    BY DEF Replies, Broken
  <1>2. \A u \in Tasks : u # t => (pc'[u] = "done" <=> pc[u] = "done") /\ (pc'[u] = "failed" <=> pc[u] = "failed")
    OBVIOUS
  <1>3. ASSUME pc'[t] = "done"
        PROVE  Replies' = [Replies EXCEPT ![t] = res'[t]]
    BY <1>2, <1>3 DEF Replies
  <1>4. ASSUME pc'[t] # "done"
        PROVE  Replies' = Replies
    BY <1>2, <1>4 DEF Replies
  <1>5. pc'[t] # "failed" => Broken' = Broken
    BY <1>2 DEF Broken
  <1>6. pc'[t] = "failed" => Broken' = Broken \cup {t}
    BY <1>2 DEF Broken
  <1> QED
    BY <1>1, <1>3, <1>4, <1>5, <1>6

LEMMA ServiceLookups ==
    /\ Service!Tasks = Tasks
    /\ \A r \in Requests, b \in SUBSET Iocs : Service!Lookups(r, b) = Lookups(r, b)
  <1>1. Service!Tasks = Tasks
    BY DEF Service!Tasks, Tasks, Keys
  <1> QED
    BY <1>1 DEF Service!Lookups, Lookups, RequestOf, KeyOf

LEMMA ServiceStutters ==
    ASSUME UNCHANGED <<clock, req, batch>>, Replies' = Replies, Broken' = Broken
    PROVE  UNCHANGED Service!serviceVars
  BY DEF Service!serviceVars, Replies, Broken

(* A served answer is acceptable: for this key, recent, from permitted keys.*)
LEMMA HitAcceptable ==
    ASSUME ServInv, NEW t \in Tasks, CacheHit(t)
    PROVE  rows[KeyOf(t)].payload \in Service!Acceptable(t)
  <1> DEFINE k == KeyOf(t)
             a == rows[k].payload
  <1>1. /\ TypeOK /\ RowsTruthful /\ AgeOK
        /\ k \in Keys /\ EngineOf(t) \in CachedEngines
    BY TaskFacts DEF ServInv, SlotInv, RowInv, TypeInv, CacheHit
  <1>2. rows[k] # NoRow /\ rows[k].expiresAt > clock
    BY <1>1, HitMeaning DEF CacheHit
  <1>3. /\ a \in Answers /\ a.key = k /\ a.via \in CachedEngines
        /\ rows[k].cachedAt - a.at \in 0..MaxFlight
        /\ rows[k].expiresAt = rows[k].cachedAt + TTL
        /\ rows[k].cachedAt <= clock
    BY <1>1, <1>2 DEF RowsTruthful, AgeOK
  <1>4. rows[k].cachedAt \in Int /\ clock \in Nat /\ a.at \in Nat /\ TTL \in Int /\ MaxFlight \in Nat
    BY <1>1, <1>2, <1>3, EngineAssumption DEF TypeOK, Cache!Row, Answers
  <1>5. MaxAge \in Int /\ a.at >= clock - MaxAge /\ a.at <= clock
    <2>1. TTL > 0
      BY <1>2, <1>3, <1>4
    <2>2. MaxAge = MaxFlight + (TTL - 1)
      BY <2>1 DEF MaxAge
    <2> HIDE DEF a, k
    <2> QED
      BY <1>2, <1>3, <1>4, <2>2
  <1>6. a.at \in {c \in (clock - MaxAge)..clock : c >= 0}
    <2> HIDE DEF a, k
    <2> QED
      BY <1>4, <1>5
  <1>7. a = [key |-> a.key, at |-> a.at, via |-> a.via]
    BY <1>3 DEF Answers
  <1>8. a.via \in Service!MayUse(HostOf[t[1]]) /\ a.key \in {t[2]}
    BY <1>1, <1>3 DEF Service!MayUse, EngineOf, KeyOf
  <1> HIDE DEF a
  <1> QED
    BY <1>6, <1>7, <1>8 DEF Service!Acceptable, a

LEMMA CallAcceptable ==
    ASSUME ServInv, NEW t \in Tasks, pc[t] = "answered", res[t] \in Answers
    PROVE  res[t] \in Service!Acceptable(t)
  <1> DEFINE a == res[t]
  <1>1. TypeOK /\ InFlightOK
    BY DEF ServInv, SlotInv, RowInv, TypeInv
  <1>2. /\ a.key = KeyOf(t) /\ a.via = EngineOf(t)
        /\ a.at <= clock /\ clock <= a.at + MaxFlight
    BY <1>1 DEF InFlightOK
  <1>3. clock \in Nat /\ a.at \in Nat /\ TTL \in Int /\ MaxFlight \in Nat
    BY <1>1, EngineAssumption DEF TypeOK, Answers
  <1>4. MaxAge \in Int /\ MaxAge >= MaxFlight
    BY <1>3 DEF MaxAge
  <1>5. a.at \in {c \in (clock - MaxAge)..clock : c >= 0}
    <2> HIDE DEF a
    <2> QED
      BY <1>2, <1>3, <1>4
  <1>6. a = [key |-> a.key, at |-> a.at, via |-> a.via]
    BY DEF Answers
  <1>7. a.via \in Service!MayUse(HostOf[t[1]]) /\ a.key \in {t[2]}
    BY <1>2 DEF Service!MayUse, EngineOf, KeyOf
  <1> HIDE DEF a
  <1> QED
    BY <1>5, <1>6, <1>7 DEF Service!Acceptable, a

(* The two steps of a lookup that its caller sees.                          *)
LEMMA LookupReplies ==
    ASSUME ServInv, NEW t \in Tasks, pc[t] # "none",
           NEW a \in Service!Acceptable(t) \cup {ErrorResult},
           Replies[t] = NoAnswer, t \notin Broken,
           Replies' = [Replies EXCEPT ![t] = a], Broken' = Broken,
           UNCHANGED <<clock, req, batch>>
    PROVE  Service!Next
  <1>1. t \in Service!Tasks /\ t[1] \in Requests /\ batch[t[1]] \in SUBSET Iocs
    BY TaskFacts, ServiceLookups DEF ServInv, SlotInv, TypeInv, TypeOK, RequestOf
  <1>2. t \in Service!Lookups(t[1], batch[t[1]])
    BY <1>1, ServiceLookups DEF ServInv, LookupOK, RequestOf
  <1>3. Service!Reply(t, a)
    BY <1>2 DEF Service!Reply, Replies, Broken
  <1> QED
    BY <1>1, <1>3 DEF Service!Next

LEMMA LookupBreaks ==
    ASSUME ServInv, NEW t \in Tasks, pc[t] # "none",
           Replies[t] = NoAnswer, Replies' = Replies, Broken' = Broken \cup {t},
           UNCHANGED <<clock, req, batch>>
    PROVE  Service!Next
  <1>1. t \in Service!Tasks /\ t[1] \in Requests /\ batch[t[1]] \in SUBSET Iocs
    BY TaskFacts, ServiceLookups DEF ServInv, SlotInv, TypeInv, TypeOK, RequestOf
  <1>2. t \in Service!Lookups(t[1], batch[t[1]])
    BY <1>1, ServiceLookups DEF ServInv, LookupOK, RequestOf
  <1>3. Service!Break(t)
    BY <1>2 DEF Service!Break, Replies, Broken
  <1> QED
    BY <1>1, <1>3 DEF Service!Next

LEMMA ServiceStep ==
    ASSUME ServInv, [Next]_vars
    PROVE  [Service!Next]_(Service!serviceVars)
  <1>0. TypeInv /\ TypeOK /\ AnsweredOK /\ IdleOK /\ LookupOK /\ OpenOK
    BY DEF ServInv, SlotInv, TypeInv
  <1>1. ASSUME NEW r \in Requests, NEW b \in SUBSET Iocs, Submit(r, b)
        PROVE  Service!Next
    <2>1. \A u \in Lookups(r, b) : pc[u] = "none"
      BY <1>0, <1>1 DEF Submit, Lookups, IdleOK
    <2>2. Replies' = Replies /\ Broken' = Broken
      BY <1>1, <2>1, RepliesKept DEF Submit
    <2>3. Service!Submit(r, b)
      BY <1>1, <2>2 DEF Submit, Service!Submit, Replies, Broken
    <2> QED
      BY <2>3 DEF Service!Next
  <1>2. ASSUME NEW t \in Tasks, BeginHit(t)
        PROVE  Service!Next
    <2>1. /\ pc[t] = "ready" /\ CacheHit(t) /\ UNCHANGED <<clock, req, batch>>
          /\ pc'[t] = "done" /\ res'[t] = rows[KeyOf(t)].payload
          /\ \A u \in Tasks : u # t => pc'[u] = pc[u] /\ res'[u] = res[u]
      BY <1>0, <1>2 DEF BeginHit, TypeOK
    <2>2. /\ Replies[t] = NoAnswer /\ t \notin Broken
          /\ Replies' = [Replies EXCEPT ![t] = res'[t]] /\ Broken' = Broken
      BY <2>1, RepliesMove
    <2>3. PICK a \in Service!Acceptable(t) : a = res'[t]
      BY <2>1, HitAcceptable
    <2> QED
      BY <2>1, <2>2, <2>3, LookupReplies
  <1>3. ASSUME NEW t \in Tasks, BeginMiss(t) \/ SourceReplies(t)
        PROVE  UNCHANGED Service!serviceVars
    <2>1. /\ UNCHANGED <<clock, req, batch>>
          /\ pc[t] \in {"ready", "calling"} /\ pc'[t] \in {"calling", "waiting", "answered"}
          /\ \A u \in Tasks : u # t => pc'[u] = pc[u] /\ res'[u] = res[u]
      BY <1>0, <1>3 DEF BeginMiss, Acquire, SourceReplies, TypeOK
    <2>2. Replies' = Replies /\ Broken' = Broken
      BY <2>1, RepliesMove
    <2> QED
      BY <2>1, <2>2, ServiceStutters
  <1>4. ASSUME NEW t \in Tasks, Resume(t)
        PROVE  UNCHANGED Service!serviceVars
    <2>1. UNCHANGED <<clock, req, batch, res>>
      BY <1>4 DEF Resume
    <2>2. /\ \A u \in Tasks : u # t => pc'[u] = pc[u] \/ (pc[u] = "waiting" /\ pc'[u] = "granted")
          /\ pc'[t] = "calling" /\ pc[t] = "granted"
      BY <1>0, <1>4, ResumeTasks
    <2>3. Replies' = Replies /\ Broken' = Broken
      BY <2>1, <2>2, RepliesMove
    <2> QED
      BY <2>1, <2>3, ServiceStutters
  <1>5. ASSUME NEW t \in Tasks, DeliverResult(t)
        PROVE  Service!Next
    <2>1. /\ pc[t] = "answered" /\ UNCHANGED <<clock, req, batch, res>>
          /\ res[t] \in Answers \cup {ErrorResult} /\ Release(t, "done", EngineOf(t))
      BY <1>0, <1>5 DEF DeliverResult, TypeOK, AnsweredOK
    <2>2. /\ \A u \in Tasks : u # t => pc'[u] = pc[u] \/ (pc[u] = "waiting" /\ pc'[u] = "granted")
          /\ pc'[t] = "done"
      BY <1>0, <2>1, ReleaseType DEF TaskStates
    <2>3. /\ Replies[t] = NoAnswer /\ t \notin Broken
          /\ Replies' = [Replies EXCEPT ![t] = res'[t]] /\ Broken' = Broken
      BY <2>1, <2>2, RepliesMove
    <2>4. PICK a \in Service!Acceptable(t) \cup {ErrorResult} : a = res'[t]
      BY <2>1, CallAcceptable
    <2> QED
      BY <2>1, <2>3, <2>4, LookupReplies
  <1>6. ASSUME NEW t \in Tasks, DeliverException(t) \/ CacheSetRaises(t)
        PROVE  Service!Next
    <2>1. /\ pc[t] = "answered" /\ UNCHANGED <<clock, req, batch>>
          /\ \A u \in Tasks : u # t => res'[u] = res[u]
          /\ Release(t, "failed", EngineOf(t))
      BY <1>0, <1>6 DEF DeliverException, CacheSetRaises, TypeOK
    <2>2. /\ \A u \in Tasks : u # t => pc'[u] = pc[u] \/ (pc[u] = "waiting" /\ pc'[u] = "granted")
          /\ pc'[t] = "failed"
      BY <1>0, <2>1, ReleaseType DEF TaskStates
    <2>3. /\ Replies[t] = NoAnswer
          /\ Replies' = Replies /\ Broken' = Broken \cup {t}
      BY <2>1, <2>2, RepliesMove
    <2> QED
      BY <2>1, <2>3, LookupBreaks
  <1>7. ASSUME NEW r \in Requests, Finish(r)
        PROVE  Service!Next
    <2>1. UNCHANGED <<clock, batch, pc, res>> /\ req[r] = "open" /\ batch[r] \in SUBSET Iocs
      BY <1>0, <1>7 DEF Finish, Return, Raise, taskVars, TypeOK
    <2>2. Replies' = Replies /\ Broken' = Broken
      BY <2>1, RepliesKept
    <2>3. Service!Lookups(r, batch[r]) = Lookups(r, batch[r])
      BY <2>1, ServiceLookups
    <2>4. CASE Return(r)
      <3>1. ASSUME NEW t \in Lookups(r, batch[r])
            PROVE  Replies[t] # NoAnswer
        <4>1. t \in Tasks /\ RequestOf(t) = r
          BY DEF Lookups
        <4>2. pc[t] # "none"
          BY <1>0, <2>1 DEF OpenOK
        <4>3. pc[t] = "done" /\ res[t] # NoAnswer
          BY <1>0, <2>4, <4>1, <4>2 DEF Return, TasksOf, AnsweredOK
        <4> QED
          BY <4>1, <4>3 DEF Replies
      <3>2. Service!Return(r)
        BY <2>2, <2>3, <2>4, <3>1 DEF Return, Service!Return, Replies, Broken
      <3> QED
        BY <3>2 DEF Service!Next
    <2>5. CASE Raise(r)
      <3>1. PICK t \in Tasks : RequestOf(t) = r /\ pc[t] = "failed"
        BY <2>5 DEF Raise, TasksOf
      <3>2. t \in Lookups(r, batch[r]) /\ t \in Broken
        BY <1>0, <3>1 DEF LookupOK, Broken
      <3>3. Service!Raise(r)
        BY <2>2, <2>3, <2>5, <3>2 DEF Raise, Service!Raise, Replies, Broken
      <3> QED
        BY <3>3 DEF Service!Next
    <2> QED
      BY <1>7, <2>4, <2>5 DEF Finish
  <1>8. ASSUME NEW e \in Engines, ProcessExit(e)
        PROVE  Service!Next
    <2> DEFINE R == {r \in Requests : HostOf[r] = e /\ req[r] = "open"}
    <2>1. UNCHANGED <<clock, batch, res>>
      BY <1>8 DEF ProcessExit
    <2>2. Replies' = Replies /\ Broken' = Broken
      <3>1. \A u \in Tasks : (pc'[u] = "done" <=> pc[u] = "done") /\ (pc'[u] = "failed" <=> pc[u] = "failed")
        BY <1>8 DEF ProcessExit
      <3> QED
        BY <2>1, <3>1, RepliesKept
    <2>3. req' = [r \in Requests |-> IF r \in R THEN "lost" ELSE req[r]]
      BY <1>8 DEF ProcessExit
    <2>4. Service!Lose(R)
      BY <2>1, <2>2, <2>3 DEF Service!Lose, Replies, Broken
    <2>5. R \in SUBSET Requests
      OBVIOUS
    <2> HIDE DEF R
    <2> QED
      BY <2>4, <2>5 DEF Service!Next
  <1>9. CASE Tick
    <2>1. clock' = clock + 1 /\ UNCHANGED <<req, batch, pc, res>>
      BY <1>9 DEF Tick, taskVars
    <2>2. Replies' = Replies /\ Broken' = Broken
      BY <2>1, RepliesKept
    <2>3. Service!Tick
      BY <2>1, <2>2 DEF Service!Tick, Replies, Broken
    <2> QED
      BY <2>3 DEF Service!Next
  <1>10. CASE UNCHANGED vars
    <2>1. UNCHANGED <<clock, req, batch, pc, res>>
      BY <1>10 DEF vars, taskVars
    <2>2. Replies' = Replies /\ Broken' = Broken
      BY <2>1, RepliesKept
    <2> QED
      BY <2>1, <2>2, ServiceStutters
  <1> QED
    BY <1>1, <1>2, <1>3, <1>4, <1>5, <1>6, <1>7, <1>8, <1>9, <1>10 DEF Next, Step

LEMMA ServiceInit == Init => Service!Init
  BY DEF Init, Service!Init, Service!Tasks, Tasks, Keys

(* Whatever the interleaving of requests, engines and crashes, the engine   *)
(* is an implementation of LookupService: every lookup gets at most one     *)
(* answer, for its key, no older than MaxAge, from permitted keys.          *)
THEOREM EngineImplementsService == Spec => ImplementsService
  <1>1. Spec => []ServInv
    BY InitServInv, ServInvStep, PTL DEF Spec
  <1>2. ServInv /\ [Next]_vars => [Service!Next]_(Service!serviceVars)
    BY ServiceStep
  <1>3. Spec => Service!Spec
    BY <1>1, <1>2, ServiceInit, PTL DEF Spec, Service!Spec
  <1> QED
    BY <1>3 DEF ImplementsService
=============================================================================
