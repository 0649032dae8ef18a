------------------------------ MODULE WebProofs ------------------------------
(* Proofs about the web demo's limits, for any number of clients and open   *)
(* requests, any limits, windows, days and capacities of the tables.        *)
EXTENDS WebApp, FiniteSetTheorems, SequenceTheorems, TLAPS

Bucket == [start : Nat, count : Nat]
Entry == [day : Nat, used : Nat]
Buckets == [Ids -> Bucket \cup {NoBucket}]
Days == [Ids -> Entry \cup {NoDay}]

Bounded(tracked) == IsFiniteSet(tracked) /\ Cardinality(tracked) <= MaxEntries
HasRoom(tracked) == IsFiniteSet(tracked) /\ Cardinality(tracked) < MaxEntries

-----------------------------------------------------------------------------
(* The eviction of either table only removes entries, and leaves room for   *)
(* one more; an operation on the table adds one entry at most.              *)

LEMMA OneRemoved ==
    ASSUME NEW S, Bounded(S), NEW x \in S
    PROVE  HasRoom(S \ {x})
  <1>1. Cardinality(S) \in Nat /\ IsFiniteSet(S \ {x}) /\ Cardinality(S \ {x}) = Cardinality(S) - 1
    BY FS_RemoveElement, FS_CardinalityType DEF Bounded
  <1> QED
    BY <1>1, WebAppAssumption DEF Bounded, HasRoom

LEMMA OneAdded ==
    ASSUME NEW S, HasRoom(S), NEW x, NEW T, T \subseteq S \cup {x}
    PROVE  Bounded(T)
  <1>1. IsFiniteSet(S \cup {x}) /\ Cardinality(S) \in Nat
        /\ Cardinality(S \cup {x}) <= Cardinality(S) + 1
    BY FS_AddElement, FS_CardinalityType DEF HasRoom
  <1>2. IsFiniteSet(T) /\ Cardinality(T) <= Cardinality(S \cup {x})
        /\ Cardinality(T) \in Nat /\ Cardinality(S \cup {x}) \in Nat
    BY <1>1, FS_Subset, FS_CardinalityType
  <1> QED
    BY <1>1, <1>2, WebAppAssumption DEF Bounded, HasRoom

LEMMA FewerBounded ==
    ASSUME NEW S, Bounded(S), NEW T, T \subseteq S
    PROVE  Bounded(T)
  <1>1. IsFiniteSet(T) /\ Cardinality(T) <= Cardinality(S)
        /\ Cardinality(T) \in Nat /\ Cardinality(S) \in Nat
    BY FS_Subset, FS_CardinalityType DEF Bounded
  <1> QED
    BY <1>1, WebAppAssumption DEF Bounded

LEMMA NoneBounded == Bounded({})
  BY FS_EmptySet, WebAppAssumption DEF Bounded

(* The tables count their entries with the one operator there is.           *)
LEMMA SameCardinality ==
    ASSUME NEW S
    PROVE  Limiter!Cardinality(S) = Cardinality(S) /\ Quota!Cardinality(S) = Cardinality(S)
  BY DEF Limiter!Cardinality, Quota!Cardinality, Cardinality

LEMMA LimiterWithout ==
    ASSUME NEW b \in Buckets, NEW gone
    PROVE  /\ Limiter!Without(b, gone) \in Buckets
           /\ Limiter!Tracked(Limiter!Without(b, gone)) = Limiter!Tracked(b) \ gone
           /\ \A i \in Ids : Limiter!Without(b, gone)[i] = b[i] \/ Limiter!Without(b, gone)[i] = NoBucket
  BY DEF Limiter!Without, Limiter!Tracked, Buckets

LEMMA LimiterEvicts ==
    ASSUME NEW b \in Buckets, NEW now, NEW c \in Limiter!Evicted(b, now)
    PROVE  /\ c \in Buckets
           /\ \A i \in Ids : c[i] = b[i] \/ c[i] = NoBucket
           /\ Bounded(Limiter!Tracked(b)) => HasRoom(Limiter!Tracked(c))
  <1> DEFINE stale == Limiter!Stale(b, now)
             kept == Limiter!Without(b, stale)
  <1>1. kept \in Buckets /\ Limiter!Tracked(kept) = Limiter!Tracked(b) \ stale
        /\ \A i \in Ids : kept[i] = b[i] \/ kept[i] = NoBucket
    BY LimiterWithout
  <1>2. CASE Cardinality(Limiter!Tracked(b)) < MaxEntries
    BY <1>2, SameCardinality DEF Limiter!Evicted, Bounded, HasRoom
  <1>3. CASE ~(Cardinality(Limiter!Tracked(b)) < MaxEntries) /\ Cardinality(Limiter!Tracked(kept)) < MaxEntries
    <2>1. c = kept
      BY <1>3, SameCardinality DEF Limiter!Evicted
    <2>2. Bounded(Limiter!Tracked(b)) => Bounded(Limiter!Tracked(kept))
      BY <1>1, FewerBounded
    <2> QED
      BY <1>1, <1>3, <2>1, <2>2 DEF Bounded, HasRoom
  <1>4. CASE ~(Cardinality(Limiter!Tracked(b)) < MaxEntries) /\ ~(Cardinality(Limiter!Tracked(kept)) < MaxEntries)
    <2>1. PICK j \in Limiter!Oldest(kept) : c = Limiter!Without(kept, {j})
      BY <1>4, SameCardinality DEF Limiter!Evicted
    <2>2. j \in Limiter!Tracked(kept)
      BY DEF Limiter!Oldest
    <2>3. /\ c \in Buckets /\ Limiter!Tracked(c) = Limiter!Tracked(kept) \ {j}
          /\ \A i \in Ids : c[i] = kept[i] \/ c[i] = NoBucket
      BY <1>1, <2>1, LimiterWithout
    <2>4. Bounded(Limiter!Tracked(b)) => Bounded(Limiter!Tracked(kept))
      BY <1>1, FewerBounded
    <2> QED
      BY <1>1, <2>2, <2>3, <2>4, OneRemoved
  <1> QED
    BY <1>2, <1>3, <1>4

LEMMA QuotaWithout ==
    ASSUME NEW q \in Days, NEW gone
    PROVE  /\ Quota!Without(q, gone) \in Days
           /\ Quota!Tracked(Quota!Without(q, gone)) = Quota!Tracked(q) \ gone
           /\ \A i \in Ids : Quota!Without(q, gone)[i] = q[i] \/ Quota!Without(q, gone)[i] = NoDay
  BY DEF Quota!Without, Quota!Tracked, Days

LEMMA QuotaEvicts ==
    ASSUME NEW q \in Days, NEW today, NEW c \in Quota!Evicted(q, today)
    PROVE  /\ c \in Days
           /\ \A i \in Ids : c[i] = q[i] \/ c[i] = NoDay
           /\ Bounded(Quota!Tracked(q)) => HasRoom(Quota!Tracked(c))
  <1> DEFINE stale == Quota!Stale(q, today)
             kept == Quota!Without(q, stale)
  <1>1. kept \in Days /\ Quota!Tracked(kept) = Quota!Tracked(q) \ stale
        /\ \A i \in Ids : kept[i] = q[i] \/ kept[i] = NoDay
    BY QuotaWithout
  <1>2. CASE Cardinality(Quota!Tracked(q)) < MaxEntries
    BY <1>2, SameCardinality DEF Quota!Evicted, Bounded, HasRoom
  <1>3. CASE ~(Cardinality(Quota!Tracked(q)) < MaxEntries) /\ Cardinality(Quota!Tracked(kept)) < MaxEntries
    <2>1. c = kept
      BY <1>3, SameCardinality DEF Quota!Evicted
    <2>2. Bounded(Quota!Tracked(q)) => Bounded(Quota!Tracked(kept))
      BY <1>1, FewerBounded
    <2> QED
      BY <1>1, <1>3, <2>1, <2>2 DEF Bounded, HasRoom
  <1>4. CASE ~(Cardinality(Quota!Tracked(q)) < MaxEntries) /\ ~(Cardinality(Quota!Tracked(kept)) < MaxEntries)
    <2>1. PICK j \in Quota!LeastUsed(kept) : c = Quota!Without(kept, {j})
      BY <1>4, SameCardinality DEF Quota!Evicted
    <2>2. j \in Quota!Tracked(kept)
      BY DEF Quota!LeastUsed
    <2>3. /\ c \in Days /\ Quota!Tracked(c) = Quota!Tracked(kept) \ {j}
          /\ \A i \in Ids : c[i] = kept[i] \/ c[i] = NoDay
      BY <1>1, <2>1, QuotaWithout
    <2>4. Bounded(Quota!Tracked(q)) => Bounded(Quota!Tracked(kept))
      BY <1>1, FewerBounded
    <2> QED
      BY <1>1, <2>2, <2>3, <2>4, OneRemoved
  <1> QED
    BY <1>2, <1>3, <1>4

(* What a request leaves of the limiter's table: its own bucket is a new    *)
(* one, or counts one more, or is full.                                     *)
LEMMA AfterFacts ==
    ASSUME NEW b \in Buckets, NEW i \in Ids, NEW now \in Nat
    PROVE  /\ Limiter!After(b, i, now) \in Buckets
           /\ \A j \in Ids \ {i} : Limiter!After(b, i, now)[j] = b[j]
           /\ Limiter!Expired(b, i, now) => Limiter!After(b, i, now)[i] = [start |-> now, count |-> 1]
           /\ ~Limiter!Expired(b, i, now) =>
                  /\ b[i] \in Bucket
                  /\ Limiter!After(b, i, now)[i] \in Bucket
                  /\ Limiter!After(b, i, now)[i].start = b[i].start
                  /\ b[i].count < MaxRequests => Limiter!After(b, i, now)[i].count = b[i].count + 1
                  /\ ~(b[i].count < MaxRequests) => Limiter!After(b, i, now)[i] = b[i]
           /\ Limiter!Tracked(Limiter!After(b, i, now)) \subseteq Limiter!Tracked(b) \cup {i}
  <1> DEFINE c == Limiter!After(b, i, now)
  <1>1. CASE Limiter!Expired(b, i, now)
    <2>1. c = [b EXCEPT ![i] = [start |-> now, count |-> 1]]
      BY <1>1 DEF Limiter!After
    <2>2. [start |-> now, count |-> 1] \in Bucket
      BY DEF Bucket
    <2> QED
      BY <1>1, <2>1, <2>2 DEF Buckets, Limiter!Tracked
  <1>2. CASE ~Limiter!Expired(b, i, now) /\ b[i].count < MaxRequests
    <2>1. c = [b EXCEPT ![i].count = @ + 1]
      BY <1>2 DEF Limiter!After
    <2>2. b[i] \in Bucket
      BY <1>2 DEF Limiter!Expired, Buckets
    <2>3. c = [b EXCEPT ![i] = [b[i] EXCEPT !.count = b[i].count + 1]]
      BY <2>1
    <2>4. [b[i] EXCEPT !.count = b[i].count + 1] \in Bucket
          /\ [b[i] EXCEPT !.count = b[i].count + 1].start = b[i].start
          /\ [b[i] EXCEPT !.count = b[i].count + 1].count = b[i].count + 1
      BY <2>2 DEF Bucket
    <2> QED
      BY <1>2, <2>2, <2>3, <2>4 DEF Buckets, Limiter!Tracked
  <1>3. CASE ~Limiter!Expired(b, i, now) /\ ~(b[i].count < MaxRequests)
    <2>1. c = b
      BY <1>3 DEF Limiter!After
    <2>2. b[i] \in Bucket
      BY <1>3 DEF Limiter!Expired, Buckets
    <2> QED
      BY <1>3, <2>1, <2>2 DEF Buckets, Limiter!Tracked
  <1> QED
    BY <1>1, <1>2, <1>3

LEMMA UsedType ==
    ASSUME NEW q \in Days, NEW i \in Ids, NEW today
    PROVE  Quota!Used(q, i, today) \in Nat
  BY DEF Quota!Used, Days, Entry

LEMMA ChargedFacts ==
    ASSUME NEW q \in Days, NEW i \in Ids, NEW today \in Nat
    PROVE  /\ Quota!Charged(q, i, today) \in Days
           /\ \A j \in Ids \ {i} : Quota!Charged(q, i, today)[j] = q[j]
           /\ Quota!Charged(q, i, today)[i] \in Entry /\ Quota!Charged(q, i, today)[i].day = today
           /\ Quota!Charged(q, i, today)[i].used =
                 IF Quota!Used(q, i, today) + 1 > Limit THEN Quota!Used(q, i, today)
                 ELSE Quota!Used(q, i, today) + 1
           /\ Quota!Tracked(Quota!Charged(q, i, today)) \subseteq Quota!Tracked(q) \cup {i}
  <1> DEFINE used == Quota!Used(q, i, today)
             e == [day |-> today, used |-> IF used + 1 > Limit THEN used ELSE used + 1]
  <1>1. used \in Nat
    BY UsedType
  <1>2. e \in Entry /\ e.day = today /\ e.used = (IF used + 1 > Limit THEN used ELSE used + 1)
    BY <1>1 DEF Entry
  <1>3. Quota!Charged(q, i, today) = [q EXCEPT ![i] = e]
    BY DEF Quota!Charged
  <1> HIDE DEF e
  <1>4. Quota!Charged(q, i, today) \in Days /\ Quota!Charged(q, i, today)[i] = e
    BY <1>2, <1>3 DEF Days
  <1>5. \A j \in Ids \ {i} : Quota!Charged(q, i, today)[j] = q[j]
    BY <1>3 DEF Days
  <1> QED
    BY <1>2, <1>4, <1>5 DEF Quota!Tracked

-----------------------------------------------------------------------------
(* Typing and the sizes of the tables.                                      *)

Phases == {"none", "body", "charging", "lookup"}
Types ==
    /\ clock \in Nat
    /\ buckets \in Buckets /\ days \in Days
    /\ phase \in [Requests -> Phases]
    /\ client \in [Requests -> Ids \cup {NoClient}]
    /\ \A r \in Requests : phase[r] # "none" => client[r] \in Ids
    /\ ran \in [Ids -> Nat] /\ recent \in [Ids -> Seq(Nat)]

Sizes == Bounded(Quota!Tracked(days)) /\ Bounded(Limiter!Tracked(buckets))

LEMMA TodayType == ASSUME NEW c \in Nat PROVE c \div DayLength \in Nat
  BY WebAppAssumption

LEMMA DayPasses == ASSUME NEW c \in Nat PROVE c \div DayLength <= (c + 1) \div DayLength
  <1>1. DayLength \in Nat \ {0}
    BY WebAppAssumption
  <1> QED
    BY <1>1

LEMMA LatelyType ==
    ASSUME NEW s \in Seq(Nat)
    PROVE  Lately(s) \in Seq(Nat) /\ (Len(s) <= 2 * MaxRequests => Lately(s) = s)
  <1>1. Len(s) \in Nat /\ (Len(s) > 2 * MaxRequests => s # <<>>)
    BY EmptySeq, WebAppAssumption
  <1>2. CASE Len(s) > 2 * MaxRequests
    <2>1. Tail(s) \in Seq(Nat)
      BY <1>1, <1>2, HeadTailProperties
    <2>2. ~(Len(s) <= 2 * MaxRequests)
      BY <1>1, <1>2, WebAppAssumption
    <2> QED
      BY <1>2, <2>1, <2>2 DEF Lately
  <1>3. CASE ~(Len(s) > 2 * MaxRequests)
    BY <1>3 DEF Lately
  <1> QED
    BY <1>1, <1>2, <1>3, WebAppAssumption

LEMMA UpTo == ASSUME NEW n \in Nat PROVE IsFiniteSet(1..n) /\ Cardinality(1..n) = n
  BY FS_Interval

(* The moments that left the window are counted, and dropped in front.      *)
LEMMA InWindowFacts ==
    ASSUME NEW s \in Seq(Nat), NEW now \in Nat
    PROVE  \E d \in 0..Len(s) :
              /\ InWindow(s, now) \in Seq(Nat) /\ Len(InWindow(s, now)) = Len(s) - d
              /\ \A n \in 1..(Len(s) - d) : InWindow(s, now)[n] = s[n + d]
              /\ \A k \in 0..Len(s) : (\A n \in 1..k : s[n] <= now - Window) => k <= d
  <1> DEFINE gone == {n \in DOMAIN s : s[n] <= now - Window}
             d == Cardinality(gone)
  <1>1. IsFiniteSet(1..Len(s)) /\ Cardinality(1..Len(s)) = Len(s)
    <2>1. Len(s) \in Nat
      OBVIOUS
    <2> QED
      BY <2>1, UpTo
  <1>2. gone \in SUBSET (1..Len(s))
    OBVIOUS
  <1>3. IsFiniteSet(gone) /\ d \in Nat /\ d <= Len(s)
    BY <1>1, <1>2, FS_Subset, FS_CardinalityType
  <1>4. ASSUME NEW k \in 0..Len(s), \A n \in 1..k : s[n] <= now - Window
        PROVE  k <= d
    <2>1. 1..k \in SUBSET gone
      BY <1>4
    <2>2. Cardinality(1..k) = k
      BY UpTo
    <2> HIDE DEF gone
    <2> QED
      BY <1>3, <2>1, <2>2, FS_Subset
  <1>5. InWindow(s, now) = SubSeq(s, d + 1, Len(s))
    BY DEF InWindow
  <1> HIDE DEF d
  <1>6. /\ SubSeq(s, d + 1, Len(s)) \in Seq(Nat)
        /\ Len(SubSeq(s, d + 1, Len(s))) = Len(s) - d
        /\ \A n \in 1..(Len(s) - d) : SubSeq(s, d + 1, Len(s))[n] = s[n + d]
    BY <1>3, SubSeqProperties
  <1>7. d \in 0..Len(s)
    BY <1>3
  <1>8. InWindow(s, now) \in Seq(Nat) /\ Len(InWindow(s, now)) = Len(s) - d
        /\ \A n \in 1..(Len(s) - d) : InWindow(s, now)[n] = s[n + d]
    BY <1>5, <1>6
  <1>9. \A k \in 0..Len(s) : (\A n \in 1..k : s[n] <= now - Window) => k <= d
    BY <1>4
  <1> HIDE DEF gone
  <1> QED
    BY <1>7, <1>8, <1>9

LEMMA ArriveParts ==
    ASSUME Types, NEW r \in Requests, NEW i \in Ids, Arrive(r, i)
    PROVE  \E b \in Limiter!Evicted(buckets, clock) :
              /\ b \in Buckets /\ \A j \in Ids : b[j] = buckets[j] \/ b[j] = NoBucket
              /\ Bounded(Limiter!Tracked(buckets)) => HasRoom(Limiter!Tracked(b))
              /\ buckets' = Limiter!After(b, i, clock)
              /\ lostBuckets' = lostBuckets \cup {j \in Ids : b[j] # buckets[j] /\ clock - buckets[j].start < Window}
              /\ \/ /\ Limiter!Admits(b, i, clock)
                    /\ phase' = [phase EXCEPT ![r] = "body"] /\ client' = [client EXCEPT ![r] = i]
                    /\ recent' = Followed([recent EXCEPT ![i] = Lately(Append(@, clock))])
                 \/ ~Limiter!Admits(b, i, clock) /\ UNCHANGED <<phase, client>> /\ recent' = Followed(recent)
              /\ UNCHANGED <<clock, days, ran, lostDays>>
  <1>1. PICK ok \in BOOLEAN, b \in Limiter!Evicted(buckets, clock) :
            /\ Limiter!Allow(i, clock, ok, b)
            /\ lostBuckets' = lostBuckets \cup {j \in Ids : b[j] # buckets[j] /\ clock - buckets[j].start < Window}
            /\ IF ok
               THEN /\ Goes(r, "body")
                    /\ client' = [client EXCEPT ![r] = i]
                    /\ recent' = Followed([recent EXCEPT ![i] = Lately(Append(@, clock))])
               ELSE UNCHANGED <<phase, client>> /\ recent' = Followed(recent)
    BY DEF Arrive
  <1>2. buckets' = Limiter!After(b, i, clock) /\ ok = Limiter!Admits(b, i, clock)
    BY <1>1 DEF Limiter!Allow
  <1>3. b \in Buckets /\ (\A j \in Ids : b[j] = buckets[j] \/ b[j] = NoBucket)
        /\ (Bounded(Limiter!Tracked(buckets)) => HasRoom(Limiter!Tracked(b)))
    BY LimiterEvicts DEF Types
  <1>4. UNCHANGED <<clock, days, ran, lostDays>>
    BY DEF Arrive
  <1> QED
    BY <1>1, <1>2, <1>3, <1>4 DEF Goes

LEMMA ChargeParts ==
    ASSUME Types, NEW r \in Requests, Charge(r)
    PROVE  /\ phase[r] = "charging" /\ client[r] \in Ids
           /\ \E q \in Quota!Evicted(days, Today) :
              /\ q \in Days /\ \A j \in Ids : q[j] = days[j] \/ q[j] = NoDay
              /\ Bounded(Quota!Tracked(days)) => HasRoom(Quota!Tracked(q))
              /\ days' = Quota!Charged(q, client[r], Today)
              /\ lostDays' = lostDays \cup {j \in Ids : q[j] # days[j] /\ days[j].day = Today}
              /\ ran' = [ran EXCEPT ![client[r]] = IF @ > Limit THEN @ ELSE @ + 1]
              /\ phase' = [phase EXCEPT ![r] = "lookup"]
              /\ UNCHANGED <<clock, buckets, client, recent, lostBuckets>>
  <1>1. phase[r] = "charging" /\ client[r] \in Ids
    BY DEF Charge, Types
  <1>2. PICK q \in Quota!Evicted(days, Today) :
            /\ Quota!Consume(client[r], Today, q)
            /\ lostDays' = lostDays \cup {j \in Ids : q[j] # days[j] /\ days[j].day = Today}
    BY DEF Charge
  <1>3. days' = Quota!Charged(q, client[r], Today)
    BY <1>2 DEF Quota!Consume
  <1>4. q \in Days /\ (\A j \in Ids : q[j] = days[j] \/ q[j] = NoDay)
        /\ (Bounded(Quota!Tracked(days)) => HasRoom(Quota!Tracked(q)))
    BY QuotaEvicts DEF Types
  <1> QED
    BY <1>1, <1>2, <1>3, <1>4 DEF Charge, Goes

(* The steps that leave the tables and the histories alone.                 *)
Waits(r) == AnswerAtOnce(r) \/ LookupWithOwnKeys(r) \/ CheckQuota(r) \/ Finish(r)
LEMMA WaitsFacts ==
    ASSUME Types, NEW r \in Requests, Waits(r)
    PROVE  /\ UNCHANGED <<clock, buckets, days, ran, recent, lostBuckets, lostDays>>
           /\ LoopFree
           /\ \/ phase' = [phase EXCEPT ![r] = "none"] /\ client' = [client EXCEPT ![r] = NoClient]
              \/ /\ phase[r] = "body"
                 /\ phase' = [phase EXCEPT ![r] = "lookup"] /\ client' = client
              \/ /\ phase[r] = "body" /\ ~Quota!Exhausted(days, client[r], Today)
                 /\ phase' = [phase EXCEPT ![r] = "charging"] /\ client' = client
  <1>1. CASE AnswerAtOnce(r)
    BY <1>1 DEF AnswerAtOnce, Closes, Goes, tables, history
  <1>2. CASE LookupWithOwnKeys(r)
    BY <1>2 DEF LookupWithOwnKeys, Goes, tables, history
  <1>3. CASE CheckQuota(r)
    BY <1>3 DEF CheckQuota, Closes, Goes, tables, history
  <1>4. CASE Finish(r)
    BY <1>4 DEF Finish, Closes, Goes, tables, history
  <1> QED
    BY <1>1, <1>2, <1>3, <1>4 DEF Waits

LEMMA NextSplit ==
    Next => \/ \E r \in Requests, i \in Ids : Arrive(r, i)
            \/ \E r \in Requests : Charge(r)
            \/ \E r \in Requests : Waits(r)
            \/ Restart
            \/ Tick
  BY DEF Next, Waits

LEMMA InitTypes == Init => Types /\ Sizes
  <1> SUFFICES ASSUME Init PROVE Types /\ Sizes
    OBVIOUS
  <1>1. buckets \in Buckets /\ days \in Days
    BY DEF Init, Buckets, Days
  <1>2. Types
    BY <1>1, EmptySeq DEF Init, Types, Phases
  <1>3. Quota!Tracked(days) = {} /\ Limiter!Tracked(buckets) = {}
    BY DEF Init, Quota!Tracked, Limiter!Tracked
  <1> QED
    BY <1>2, <1>3, NoneBounded DEF Sizes

LEMMA StepTypes == Types /\ [Next]_vars => Types'
  <1> SUFFICES ASSUME Types, [Next]_vars PROVE Types'
    OBVIOUS
  <1>1. ASSUME NEW r \in Requests, NEW i \in Ids, Arrive(r, i) PROVE Types'
    <2>1. PICK b \in Limiter!Evicted(buckets, clock) :
              /\ b \in Buckets /\ buckets' = Limiter!After(b, i, clock)
              /\ \/ /\ phase' = [phase EXCEPT ![r] = "body"] /\ client' = [client EXCEPT ![r] = i]
                    /\ recent' = Followed([recent EXCEPT ![i] = Lately(Append(@, clock))])
                 \/ UNCHANGED <<phase, client>> /\ recent' = Followed(recent)
              /\ UNCHANGED <<clock, days, ran>>
      BY <1>1, ArriveParts
    <2>2. buckets' \in Buckets
      BY <2>1, AfterFacts DEF Types
    <2>3. Lately(Append(recent[i], clock)) \in Seq(Nat)
      BY LatelyType, AppendProperties DEF Types
    <2>4. recent' \in [Ids -> Seq(Nat)]
      BY <2>1, <2>3, EmptySeq DEF Types, Followed
    <2> QED
      BY <2>1, <2>2, <2>4 DEF Types, Phases
  <1>2. ASSUME NEW r \in Requests, Charge(r) PROVE Types'
    <2>1. PICK q \in Quota!Evicted(days, Today) :
              /\ q \in Days /\ days' = Quota!Charged(q, client[r], Today)
              /\ ran' = [ran EXCEPT ![client[r]] = IF @ > Limit THEN @ ELSE @ + 1]
              /\ phase' = [phase EXCEPT ![r] = "lookup"]
              /\ UNCHANGED <<clock, buckets, client, recent, lostBuckets>>
      BY <1>2, ChargeParts
    <2>2. client[r] \in Ids /\ Today \in Nat
      BY <1>2, ChargeParts, TodayType DEF Today, Types
    <2>3. days' \in Days
      BY <2>1, <2>2, ChargedFacts
    <2>4. ran' \in [Ids -> Nat]
      BY <2>1, <2>2, WebAppAssumption DEF Types
    <2> QED
      BY <2>1, <2>2, <2>3, <2>4 DEF Types, Phases
  <1>3. ASSUME NEW r \in Requests, Waits(r) PROVE Types'
    BY <1>3, WaitsFacts DEF Types, Phases
  <1>4. CASE Restart
    <2>1. buckets' \in Buckets /\ days' \in Days
      BY <1>4 DEF Restart, Buckets, Days
    <2> QED
      BY <1>4, <2>1, EmptySeq DEF Restart, Types, Phases
  <1>5. CASE Tick
    <2>1. clock' = clock + 1 /\ buckets' = buckets /\ days' = days /\ phase' = phase /\ client' = client
      BY <1>5 DEF Tick, tables
    <2>2. ran' \in [Ids -> Nat]
      BY <1>5 DEF Tick, Types
    <2>3. ASSUME NEW i \in Ids PROVE InWindow(recent[i], clock + 1) \in Seq(Nat)
      BY InWindowFacts DEF Types
    <2>4. recent' \in [Ids -> Seq(Nat)]
      BY <1>5, <2>3 DEF Tick
    <2> QED
      BY <2>1, <2>2, <2>4 DEF Types
  <1>6. CASE UNCHANGED vars
    BY <1>6 DEF vars, tables, history, Types
  <1> QED
    BY <1>1, <1>2, <1>3, <1>4, <1>5, <1>6, NextSplit

LEMMA StepSizes == Types /\ Sizes /\ [Next]_vars => Sizes'
  <1> SUFFICES ASSUME Types, Sizes, [Next]_vars PROVE Sizes'
    OBVIOUS
  <1>1. ASSUME NEW r \in Requests, NEW i \in Ids, Arrive(r, i) PROVE Sizes'
    <2>1. PICK b \in Limiter!Evicted(buckets, clock) :
              /\ b \in Buckets /\ buckets' = Limiter!After(b, i, clock)
              /\ Bounded(Limiter!Tracked(buckets)) => HasRoom(Limiter!Tracked(b))
              /\ days' = days
      BY <1>1, ArriveParts
    <2>2. Limiter!Tracked(buckets') \subseteq Limiter!Tracked(b) \cup {i}
      BY <2>1, AfterFacts DEF Types
    <2>3. Bounded(Limiter!Tracked(buckets'))
      BY <2>1, <2>2, OneAdded DEF Sizes
    <2> QED
      BY <2>1, <2>3 DEF Sizes
  <1>2. ASSUME NEW r \in Requests, Charge(r) PROVE Sizes'
    <2>1. PICK q \in Quota!Evicted(days, Today) :
              /\ q \in Days /\ days' = Quota!Charged(q, client[r], Today)
              /\ Bounded(Quota!Tracked(days)) => HasRoom(Quota!Tracked(q))
              /\ buckets' = buckets
      BY <1>2, ChargeParts
    <2>2. client[r] \in Ids /\ Today \in Nat
      BY <1>2, ChargeParts, TodayType DEF Today, Types
    <2>3. Quota!Tracked(days') \subseteq Quota!Tracked(q) \cup {client[r]}
      BY <2>1, <2>2, ChargedFacts
    <2>4. Bounded(Quota!Tracked(days'))
      BY <2>1, <2>3, OneAdded DEF Sizes
    <2> QED
      BY <2>1, <2>4 DEF Sizes
  <1>3. ASSUME UNCHANGED <<buckets, days>> PROVE Sizes'
    BY <1>3 DEF Sizes
  <1>4. ASSUME NEW r \in Requests, Waits(r) PROVE Sizes'
    BY <1>3, <1>4, WaitsFacts
  <1>5. CASE Restart
    <2>1. Quota!Tracked(days') = {} /\ Limiter!Tracked(buckets') = {}
      BY <1>5 DEF Restart, Quota!Tracked, Limiter!Tracked
    <2> QED
      BY <2>1, NoneBounded DEF Sizes
  <1>6. CASE Tick \/ UNCHANGED vars
    BY <1>3, <1>6 DEF Tick, vars, tables
  <1> QED
    BY <1>1, <1>2, <1>4, <1>5, <1>6, NextSplit

(* Neither the limiter's nor the quota's table outgrows its capacity,       *)
(* however many clients come (quota.py:92, rate_limit.py:61).               *)
THEOREM TablesStayBounded == Spec => []TablesBounded
  <1>1. Sizes => TablesBounded
    BY SameCardinality DEF Sizes, Bounded, TablesBounded
  <1>2. Types /\ Sizes /\ [Next]_vars => (Types /\ Sizes)'
    BY StepTypes, StepSizes
  <1> QED
    BY <1>1, <1>2, InitTypes, PTL DEF Spec

-----------------------------------------------------------------------------
(* The budget. A handler that found the quota open is the only one between  *)
(* check and charge, and what it found still holds when it charges, at      *)
(* midnight too: the entry of yesterday then counts for nothing.            *)

Cap == IF Limit > 0 THEN Limit ELSE 0

DaysPast == \A i \in Ids : days[i] # NoDay => days[i].day <= Today
OneCharging ==
    \A r, s \in Requests : phase[r] = "charging" /\ phase[s] = "charging" => r = s
ChargeDue ==
    \A r \in Requests : phase[r] = "charging" => Quota!Used(days, client[r], Today) < Limit
QuotaInv == DaysPast /\ OneCharging /\ ChargeDue /\ ScansCounted

(* An entry of an earlier day counts for nothing.                           *)
LEMMA UsedOfOthers ==
    ASSUME NEW q \in Days, NEW i \in Ids, NEW today
    PROVE  /\ q[i] = NoDay => Quota!Used(q, i, today) = 0
           /\ q[i] # NoDay /\ q[i].day # today => Quota!Used(q, i, today) = 0
           /\ q[i] # NoDay /\ q[i].day = today => Quota!Used(q, i, today) = q[i].used
           /\ q[i] # NoDay => q[i] \in Entry /\ q[i].day \in Nat /\ q[i].used \in Nat
  BY DEF Quota!Used, Days, Entry

LEMMA InitQuota == Init => QuotaInv
  <1> SUFFICES ASSUME Init PROVE QuotaInv
    OBVIOUS
  <1>1. \A i \in Ids : days[i] = NoDay /\ ran[i] = 0
    BY DEF Init
  <1>2. \A i \in Ids : Quota!Used(days, i, Today) = 0
    BY <1>1 DEF Quota!Used
  <1>3. ScansCounted
    BY <1>1, <1>2, WebAppAssumption DEF ScansCounted
  <1> QED
    BY <1>1, <1>3 DEF Init, QuotaInv, DaysPast, OneCharging, ChargeDue

LEMMA ChargeQuota ==
    ASSUME Types, QuotaInv, NEW r \in Requests, Charge(r)
    PROVE  QuotaInv'
  <1> DEFINE i == client[r]
  <1>1. phase[r] = "charging" /\ i \in Ids
    BY ChargeParts
  <1>2. PICK q \in Quota!Evicted(days, Today) :
            /\ q \in Days /\ \A j \in Ids : q[j] = days[j] \/ q[j] = NoDay
            /\ days' = Quota!Charged(q, i, Today)
            /\ lostDays' = lostDays \cup {j \in Ids : q[j] # days[j] /\ days[j].day = Today}
            /\ ran' = [ran EXCEPT ![i] = IF @ > Limit THEN @ ELSE @ + 1]
            /\ phase' = [phase EXCEPT ![r] = "lookup"]
            /\ UNCHANGED <<clock, buckets, client, recent, lostBuckets>>
    BY ChargeParts
  <1>3. Today' = Today /\ Today \in Nat
    BY <1>2, TodayType DEF Today, Types
  <1>4. /\ days' \in Days
        /\ \A j \in Ids \ {i} : days'[j] = q[j]
        /\ days'[i] \in Entry /\ days'[i].day = Today
        /\ days'[i].used = IF Quota!Used(q, i, Today) + 1 > Limit THEN Quota!Used(q, i, Today)
                           ELSE Quota!Used(q, i, Today) + 1
    BY <1>1, <1>2, <1>3, ChargedFacts
  <1>5. \A j \in Ids : days'[j] # NoDay => days'[j].day <= Today
    BY <1>2, <1>3, <1>4 DEF QuotaInv, DaysPast
  <1>6. \A s \in Requests : phase'[s] # "charging"
    <2>1. \A s \in Requests : s # r => phase[s] # "charging"
      BY <1>1 DEF QuotaInv, OneCharging
    <2> QED
      BY <1>2, <2>1 DEF Types
  <1>7. ASSUME NEW j \in Ids \ lostDays'
        PROVE  Quota!Used(q, j, Today) = Quota!Used(days, j, Today)
    <2>1. q[j] = days[j] \/ (q[j] = NoDay /\ days[j] # NoDay /\ days[j].day # Today)
      BY <1>2
    <2> QED
      BY <1>2, <2>1, UsedOfOthers DEF Types, Quota!Used
  <1>8. ASSUME NEW j \in Ids \ lostDays'
        PROVE  ran'[j] = Quota!Used(days', j, Today) /\ ran'[j] <= Cap
    <2>1. j \in Ids \ lostDays
      BY <1>2
    <2>2. ran[j] = Quota!Used(days, j, Today) /\ ran[j] <= Cap /\ ran[j] \in Nat
      BY <2>1 DEF QuotaInv, ScansCounted, Cap, Types
    <2>3. CASE j = i
      <3>1. Quota!Used(days, i, Today) < Limit
        BY <1>1 DEF QuotaInv, ChargeDue
      <3>2. Quota!Used(q, i, Today) = ran[i] /\ ran[i] < Limit /\ ran[i] \in Nat
        BY <1>7, <2>2, <2>3, <3>1
      <3>3. days'[i].used = ran[i] + 1
        BY <1>4, <3>2, WebAppAssumption
      <3>4. Quota!Used(days', i, Today) = ran[i] + 1
        BY <1>1, <1>4, <3>3, UsedOfOthers, WebAppAssumption DEF Entry
      <3>5. ran'[i] = ran[i] + 1
        BY <1>1, <1>2, <3>2, WebAppAssumption DEF Types
      <3> QED
        BY <2>3, <3>2, <3>4, <3>5, WebAppAssumption DEF Cap
    <2>4. CASE j # i
      <3>1. Quota!Used(days', j, Today) = Quota!Used(q, j, Today)
        BY <1>4, <2>4 DEF Quota!Used
      <3>2. ran'[j] = ran[j]
        BY <1>2, <2>4 DEF Types
      <3> QED
        BY <1>7, <2>2, <3>1, <3>2
    <2> QED
      BY <2>3, <2>4
  <1>9. ScansCounted'
    BY <1>3, <1>8 DEF ScansCounted, Cap
  <1> QED
    BY <1>3, <1>5, <1>6, <1>9 DEF QuotaInv, DaysPast, OneCharging, ChargeDue

LEMMA WaitsQuota ==
    ASSUME Types, QuotaInv, NEW r \in Requests, Waits(r)
    PROVE  QuotaInv'
  <1>1. UNCHANGED <<clock, days, ran, lostDays>> /\ LoopFree
    BY WaitsFacts
  <1>2. Today' = Today
    BY <1>1 DEF Today
  <1>3. DaysPast' /\ ScansCounted'
    BY <1>1, <1>2 DEF QuotaInv, DaysPast, ScansCounted
  <1>4. \A s \in Requests : phase[s] # "charging"
    BY <1>1 DEF LoopFree
  <1>5. ASSUME NEW s \in Requests, phase'[s] = "charging"
        PROVE  s = r /\ ~Quota!Exhausted(days, client[r], Today) /\ client' = client
    BY <1>4, <1>5, WaitsFacts DEF Types
  <1>6. ASSUME ~Quota!Exhausted(days, client[r], Today), client[r] \in Ids
        PROVE  Quota!Used(days, client[r], Today) < Limit
    <2>1. Quota!Used(days, client[r], Today) \in Nat
      BY <1>6, UsedType DEF Types
    <2> QED
      BY <1>6, <2>1, WebAppAssumption DEF Quota!Exhausted
  <1>7. OneCharging'
    BY <1>5 DEF OneCharging
  <1>8. ChargeDue'
    <2> SUFFICES ASSUME NEW s \in Requests, phase'[s] = "charging"
                 PROVE  Quota!Used(days', client'[s], Today') < Limit
      BY DEF ChargeDue
    <2>1. s = r /\ ~Quota!Exhausted(days, client[r], Today) /\ client' = client
      BY <1>5
    <2>2. phase[r] = "body"
      BY <2>1, WaitsFacts DEF Types
    <2>3. client[r] \in Ids
      BY <2>2 DEF Types
    <2> QED
      BY <1>1, <1>2, <1>6, <2>1, <2>3
  <1> QED
    BY <1>3, <1>7, <1>8 DEF QuotaInv

LEMMA TickQuota == Types /\ QuotaInv /\ Tick => QuotaInv'
  <1> SUFFICES ASSUME Types, QuotaInv, Tick PROVE QuotaInv'
    OBVIOUS
  <1>1. clock' = clock + 1 /\ days' = days /\ phase' = phase /\ client' = client
    BY DEF Tick, tables
  <1>2. Today' = (clock + 1) \div DayLength /\ Today' >= Today /\ Today \in Nat /\ Today' \in Nat
    <2>1. clock \in Nat /\ clock + 1 \in Nat
      BY DEF Types
    <2>2. Today' = (clock + 1) \div DayLength
      BY <1>1 DEF Today
    <2>3. Today \in Nat /\ (clock + 1) \div DayLength \in Nat
      BY <2>1, TodayType DEF Today
    <2>4. Today <= (clock + 1) \div DayLength
      BY <2>1, DayPasses DEF Today
    <2> QED
      BY <2>2, <2>3, <2>4
  <1>3. \A i \in Ids : days[i] # NoDay => days[i].day \in Nat
    BY UsedOfOthers DEF Types
  <1>4. DaysPast'
    BY <1>1, <1>2, <1>3 DEF QuotaInv, DaysPast
  <1>5. OneCharging'
    BY <1>1 DEF QuotaInv, OneCharging
  <1>6. CASE Today' = Today
    <2>1. ran' = ran /\ lostDays' = lostDays
      BY <1>1, <1>6 DEF Tick, Today
    <2> QED
      BY <1>1, <1>4, <1>5, <1>6, <2>1 DEF QuotaInv, ChargeDue, ScansCounted
  <1>7. CASE Today' # Today
    <2>1. ran' = [i \in Ids |-> 0] /\ lostDays' = {}
      BY <1>1, <1>7 DEF Tick, Today
    <2>2. ASSUME NEW i \in Ids PROVE Quota!Used(days, i, Today') = 0
      <3>1. days[i] # NoDay => days[i].day # Today'
        BY <1>2, <1>3, <1>7 DEF QuotaInv, DaysPast
      <3> QED
        BY <3>1 DEF Quota!Used
    <2>3. ScansCounted'
      BY <1>1, <2>1, <2>2, WebAppAssumption DEF ScansCounted
    <2>4. ChargeDue'
      <3> SUFFICES ASSUME NEW r \in Requests, phase[r] = "charging"
                   PROVE  Quota!Used(days, client[r], Today') < Limit
        BY <1>1 DEF ChargeDue
      <3>1. client[r] \in Ids
        BY DEF Types
      <3>2. Quota!Used(days, client[r], Today) \in Nat /\ Quota!Used(days, client[r], Today) < Limit
        BY <3>1, UsedType DEF Types, QuotaInv, ChargeDue
      <3> QED
        BY <2>2, <3>1, <3>2, WebAppAssumption
    <2> QED
      BY <1>4, <1>5, <2>3, <2>4 DEF QuotaInv
  <1> QED
    BY <1>6, <1>7

LEMMA StepQuota == Types /\ QuotaInv /\ [Next]_vars => QuotaInv'
  <1> SUFFICES ASSUME Types, QuotaInv, [Next]_vars PROVE QuotaInv'
    OBVIOUS
  <1>1. ASSUME NEW r \in Requests, NEW i \in Ids, Arrive(r, i) PROVE QuotaInv'
    <2>1. UNCHANGED <<clock, days, ran, lostDays>> /\ LoopFree
      BY <1>1, ArriveParts DEF Arrive
    <2>2. phase' = [phase EXCEPT ![r] = "body"] \/ phase' = phase
      BY <1>1, ArriveParts
    <2>3. Today' = Today
      BY <2>1 DEF Today
    <2>4. \A s \in Requests : phase'[s] # "charging"
      BY <2>1, <2>2 DEF LoopFree, Types
    <2>5. DaysPast' /\ ScansCounted'
      BY <2>1, <2>3 DEF QuotaInv, DaysPast, ScansCounted
    <2> QED
      BY <2>4, <2>5 DEF QuotaInv, OneCharging, ChargeDue
  <1>2. CASE Restart
    <2>1. /\ \A i \in Ids : days'[i] = NoDay /\ ran'[i] = 0
          /\ \A r \in Requests : phase'[r] # "charging"
      BY <1>2 DEF Restart
    <2>2. \A i \in Ids : Quota!Used(days', i, Today') = 0
      BY <2>1 DEF Quota!Used
    <2>3. ScansCounted'
      BY <2>1, <2>2, WebAppAssumption DEF ScansCounted
    <2> QED
      BY <2>1, <2>3 DEF QuotaInv, DaysPast, OneCharging, ChargeDue
  <1>3. CASE UNCHANGED vars
    <2>1. UNCHANGED <<clock, days, phase, client, ran, lostDays, Today>>
      BY <1>3 DEF vars, tables, history, Today
    <2> QED
      BY <2>1 DEF QuotaInv, DaysPast, OneCharging, ChargeDue, ScansCounted
  <1> QED
    BY <1>1, <1>2, <1>3, NextSplit, ChargeQuota, WaitsQuota, TickQuota

(* The quota counts exactly the scans of today that ran on the server's     *)
(* keys and so caps them, with any number of handlers in flight, at         *)
(* midnight and over a restart, unless the client's entry was evicted that  *)
(* day (app.py:376-379).                                                    *)
THEOREM ScansAreCounted == Spec => []ScansCounted
  <1>1. QuotaInv => ScansCounted
    BY DEF QuotaInv
  <1>2. Types /\ QuotaInv /\ [Next]_vars => (Types /\ QuotaInv)'
    BY StepTypes, StepQuota
  <1> QED
    BY <1>1, <1>2, InitTypes, InitQuota, PTL DEF Spec

-----------------------------------------------------------------------------
(* The burst. The moments kept are those of the last window, so a bucket    *)
(* that has run out keeps fewer than it admitted: the one that opened it is *)
(* gone. Of a live bucket all but the ones of the bucket before are counted *)
(* in it, and those after its start, once k of them are left out, are fewer *)
(* than it counts.                                                          *)

BucketsPast ==
    /\ \A i \in Ids : buckets[i] # NoBucket =>
           buckets[i].start <= clock /\ 1 <= buckets[i].count /\ buckets[i].count <= MaxRequests
    /\ \A i \in Ids : \A n \in 1..Len(recent[i]) : recent[i][n] <= clock
Spent(i) == Len(recent[i]) <= MaxRequests - 1
Live(i) ==
    /\ Len(recent[i]) <= MaxRequests - 1 + buckets[i].count
    /\ \E k \in 0..Len(recent[i]) :
          /\ \A n \in 1..k : recent[i][n] <= buckets[i].start
          /\ Len(recent[i]) - k <= buckets[i].count - 1
Bursts ==
    \A i \in Ids \ lostBuckets :
        IF Limiter!Expired(buckets, i, clock) THEN Spent(i) ELSE Live(i)
BurstInv == BucketsPast /\ Bursts

LEMMA InitBurst == Init => BurstInv
  <1> SUFFICES ASSUME Init PROVE BurstInv
    OBVIOUS
  <1>1. \A i \in Ids : buckets[i] = NoBucket /\ recent[i] = <<>> /\ Len(recent[i]) = 0
    BY EmptySeq DEF Init
  <1> QED
    BY <1>1, WebAppAssumption DEF BurstInv, BucketsPast, Bursts, Spent, Limiter!Expired

LEMMA ExpiredMeans ==
    ASSUME NEW b \in Buckets, NEW i \in Ids, NEW now
    PROVE  /\ Limiter!Expired(b, i, now) <=> b[i] = NoBucket \/ now - b[i].start >= Window
           /\ b[i] # NoBucket => b[i] \in Bucket /\ b[i].start \in Nat /\ b[i].count \in Nat
  BY DEF Limiter!Expired, Buckets, Bucket

LEMMA OneMore ==
    ASSUME NEW s \in Seq(Nat), NEW c \in Nat
    PROVE  /\ Append(s, c) \in Seq(Nat) /\ Len(s) \in Nat /\ Len(Append(s, c)) = Len(s) + 1
           /\ Append(s, c) # <<>> /\ Append(s, c)[Len(s) + 1] = c
           /\ \A n \in 1..Len(s) : Append(s, c)[n] = s[n]
  <1>1. Append(s, c) \in Seq(Nat) /\ Len(s) \in Nat /\ Len(Append(s, c)) = Len(s) + 1
        /\ Append(s, c)[Len(s) + 1] = c
    BY AppendProperties
  <1>2. \A n \in 1..Len(s) : Append(s, c)[n] = s[n]
    BY AppendProperties
  <1>3. Append(s, c) # <<>>
    BY AppendProperties, ZenonT(30)
  <1> QED
    BY <1>1, <1>2, <1>3

LEMMA OneMorePast ==
    ASSUME NEW s \in Seq(Nat), NEW c \in Nat, \A n \in 1..Len(s) : s[n] <= c
    PROVE  \A n \in 1..Len(Append(s, c)) : Append(s, c)[n] <= c
  <1> DEFINE t == Append(s, c)
  <1>1. Len(s) \in Nat /\ Len(t) = Len(s) + 1 /\ t[Len(s) + 1] = c /\ \A n \in 1..Len(s) : t[n] = s[n]
    BY OneMore
  <1> HIDE DEF t
  <1> SUFFICES ASSUME NEW n \in 1..Len(t) PROVE t[n] <= c
    BY DEF t
  <1>2. n \in 1..Len(s) \/ n = Len(s) + 1
    BY <1>1
  <1> QED
    BY <1>1, <1>2

LEMMA OneMoreCounted ==
    ASSUME NEW s \in Seq(Nat), NEW c \in Nat, NEW start \in Nat, NEW count \in Nat,
           NEW k \in 0..Len(s), \A n \in 1..k : s[n] <= start, Len(s) - k <= count - 1
    PROVE  \E m \in 0..Len(Append(s, c)) :
              /\ \A n \in 1..m : Append(s, c)[n] <= start
              /\ Len(Append(s, c)) - m <= count + 1 - 1
  <1> DEFINE t == Append(s, c)
  <1>1. Len(s) \in Nat /\ Len(t) = Len(s) + 1 /\ \A n \in 1..Len(s) : t[n] = s[n]
    BY OneMore
  <1> HIDE DEF t
  <1>2. k \in 0..Len(t) /\ Len(t) - k <= count + 1 - 1
    BY <1>1
  <1>3. \A n \in 1..k : t[n] <= start
    BY <1>1
  <1> QED
    BY <1>2, <1>3 DEF t

(* A request is admitted: by a new bucket, or as one more of a live one.    *)
LEMMA AdmittedBurst ==
    ASSUME Types, BurstInv, NEW i \in Ids, NEW b \in Buckets,
           b[i] = buckets[i] \/ (b[i] = NoBucket /\ (clock - buckets[i].start >= Window \/ buckets[i] = NoBucket)),
           i \notin lostBuckets,
           Limiter!Admits(b, i, clock),
           buckets' = Limiter!After(b, i, clock), clock' = clock,
           recent'[i] = Lately(Append(recent[i], clock))
    PROVE  ~Limiter!Expired(buckets', i, clock') /\ Live(i)'
  <1>1. clock \in Nat /\ recent[i] \in Seq(Nat)
    BY DEF Types
  <1>2. PICK s \in Seq(Nat) : s = recent[i]
    BY <1>1
  <1>3. PICK t \in Seq(Nat) : t = Append(s, clock)
    BY <1>1, OneMore
  <1>4. Len(s) \in Nat /\ Len(t) = Len(s) + 1 /\ recent'[i] = Lately(t)
    BY <1>1, <1>2, <1>3, OneMore
  <1>5. Limiter!Expired(buckets, i, clock) <=> Limiter!Expired(b, i, clock)
    BY DEF Limiter!Expired
  <1>6. CASE Limiter!Expired(b, i, clock)
    <2>1. Len(s) <= MaxRequests - 1
      BY <1>2, <1>5, <1>6 DEF BurstInv, Bursts, Spent
    <2>2. recent'[i] = t
      <3>1. Len(t) <= 2 * MaxRequests
        BY <1>4, <2>1, WebAppAssumption
      <3> QED
        BY <1>4, <3>1, LatelyType
    <2>3. buckets'[i] = [start |-> clock, count |-> 1] /\ buckets' \in Buckets
      BY <1>1, <1>6, AfterFacts
    <2>4. buckets'[i].start = clock /\ buckets'[i].count = 1 /\ buckets'[i] \in Bucket
      BY <1>1, <2>3 DEF Bucket
    <2>5. buckets'[i] # NoBucket
      BY <2>4, WebAppAssumption DEF Bucket
    <2>6. ~Limiter!Expired(buckets', i, clock')
      <3>1. ~(clock' - buckets'[i].start >= Window)
        BY <1>1, <2>4, WebAppAssumption
      <3> QED
        BY <2>5, <3>1 DEF Limiter!Expired
    <2>7. Len(t) <= MaxRequests - 1 + 1
      BY <1>4, <2>1, WebAppAssumption
    <2>8. Len(t) \in 0..Len(t) /\ Len(t) - Len(t) <= 1 - 1
      BY <1>4
    <2>9. \A n \in 1..Len(t) : t[n] <= clock
      <3>1. \A n \in 1..Len(s) : s[n] <= clock
        BY <1>2 DEF BurstInv, BucketsPast
      <3> QED
        BY <1>1, <1>3, <3>1, OneMorePast
    <2>10. \E k \in 0..Len(t) : (\A n \in 1..k : t[n] <= clock) /\ Len(t) - k <= 1 - 1
      BY <2>8, <2>9
    <2> QED
      BY <2>2, <2>4, <2>6, <2>7, <2>10 DEF Live
  <1>7. CASE ~Limiter!Expired(b, i, clock)
    <2>1. Live(i) /\ b[i] = buckets[i] /\ b[i] # NoBucket /\ ~(clock - b[i].start >= Window)
      BY <1>5, <1>7 DEF BurstInv, Bursts, Limiter!Expired
    <2>2. b[i].count < MaxRequests /\ b[i].count \in Nat /\ b[i].start \in Nat
      BY <1>7, <2>1, ExpiredMeans DEF Limiter!Admits
    <2>3. /\ buckets' \in Buckets /\ buckets'[i] \in Bucket
          /\ buckets'[i].start = b[i].start /\ buckets'[i].count = b[i].count + 1
      <3> DEFINE a == Limiter!After(b, i, clock)
      <3>1. a \in Buckets /\ a[i] \in Bucket /\ a[i].start = b[i].start
            /\ (b[i].count < MaxRequests => a[i].count = b[i].count + 1)
        BY <1>1, <1>7, AfterFacts, ZenonT(30)
      <3>2. buckets' = a
        OBVIOUS
      <3> HIDE DEF a
      <3> QED
        BY <2>2, <3>1, <3>2
    <2>4. Len(s) <= MaxRequests - 1 + b[i].count
      BY <1>2, <2>1 DEF Live
    <2>5. recent'[i] = t
      <3>1. Len(t) <= 2 * MaxRequests
        <4>1. Len(s) \in Nat /\ Len(t) = Len(s) + 1
          BY <1>4
        <4>2. MaxRequests \in Nat
          BY WebAppAssumption
        <4> QED
          BY <2>2, <2>4, <4>1, <4>2
      <3> QED
        BY <1>4, <3>1, LatelyType
    <2>6. buckets'[i] # NoBucket
      BY <2>3, WebAppAssumption DEF Bucket
    <2>7. ~Limiter!Expired(buckets', i, clock')
      BY <2>1, <2>3, <2>6, ExpiredMeans
    <2>8. Len(t) <= MaxRequests - 1 + (b[i].count + 1)
      BY <1>4, <2>2, <2>4, WebAppAssumption
    <2>9. PICK k \in 0..Len(s) : (\A n \in 1..k : s[n] <= b[i].start) /\ Len(s) - k <= b[i].count - 1
      BY <1>2, <2>1 DEF Live
    <2>10. \E m \in 0..Len(t) : (\A n \in 1..m : t[n] <= b[i].start) /\ Len(t) - m <= b[i].count + 1 - 1
      BY <1>1, <1>3, <2>2, <2>9, OneMoreCounted
    <2>11. \E m \in 0..Len(recent'[i]) :
              /\ \A n \in 1..m : recent'[i][n] <= buckets'[i].start
              /\ Len(recent'[i]) - m <= buckets'[i].count - 1
      <3>1. PICK m \in 0..Len(t) : (\A n \in 1..m : t[n] <= b[i].start) /\ Len(t) - m <= b[i].count + 1 - 1
        BY <2>10
      <3>2. m \in 0..Len(recent'[i]) /\ \A n \in 1..m : recent'[i][n] <= buckets'[i].start
        BY <2>3, <2>5, <3>1
      <3>3. Len(recent'[i]) - m <= buckets'[i].count - 1
        BY <1>4, <2>2, <2>3, <2>5, <3>1
      <3> QED
        BY <3>2, <3>3
    <2>12. Len(recent'[i]) <= MaxRequests - 1 + buckets'[i].count
      BY <2>3, <2>5, <2>8
    <2> QED
      BY <2>7, <2>11, <2>12 DEF Live
  <1> QED
    BY <1>6, <1>7

LEMMA ArriveBurst ==
    ASSUME Types, BurstInv, NEW r \in Requests, NEW i \in Ids, Arrive(r, i)
    PROVE  BurstInv'
  <1>1. PICK b \in Limiter!Evicted(buckets, clock) :
            /\ b \in Buckets /\ \A j \in Ids : b[j] = buckets[j] \/ b[j] = NoBucket
            /\ buckets' = Limiter!After(b, i, clock)
            /\ lostBuckets' = lostBuckets \cup {j \in Ids : b[j] # buckets[j] /\ clock - buckets[j].start < Window}
            /\ \/ /\ Limiter!Admits(b, i, clock)
                  /\ recent' = Followed([recent EXCEPT ![i] = Lately(Append(@, clock))])
               \/ ~Limiter!Admits(b, i, clock) /\ recent' = Followed(recent)
            /\ clock' = clock
    BY ArriveParts
  <1>2. /\ clock \in Nat /\ b \in Buckets
        /\ buckets' \in Buckets /\ \A j \in Ids \ {i} : buckets'[j] = b[j]
        /\ Limiter!Expired(b, i, clock) => buckets'[i] = [start |-> clock, count |-> 1]
        /\ ~Limiter!Expired(b, i, clock) =>
              /\ b[i] \in Bucket /\ buckets'[i].start = b[i].start
              /\ b[i].count < MaxRequests => buckets'[i].count = b[i].count + 1
              /\ ~(b[i].count < MaxRequests) => buckets'[i] = b[i]
    <2>1. clock \in Nat /\ b \in Buckets /\ buckets' = Limiter!After(b, i, clock)
      BY <1>1 DEF Types
    <2> QED
      BY <2>1, AfterFacts
  <1>3. ASSUME NEW j \in Ids, j \notin lostBuckets'
        PROVE  /\ j \notin lostBuckets
               /\ b[j] = buckets[j] \/ (b[j] = NoBucket /\ (clock - buckets[j].start >= Window \/ buckets[j] = NoBucket))
               /\ Limiter!Expired(buckets, j, clock) <=> Limiter!Expired(b, j, clock)
    <2>1. j \notin lostBuckets /\ (b[j] = buckets[j] \/ (b[j] = NoBucket /\ ~(clock - buckets[j].start < Window)))
      BY <1>1, <1>3
    <2>2. buckets[j] # NoBucket => buckets[j].start \in Nat
      BY ExpiredMeans DEF Types
    <2> QED
      BY <1>2, <2>1, <2>2, WebAppAssumption DEF Limiter!Expired
  <1>4. BucketsPast'
    <2>1. ASSUME NEW j \in Ids, buckets'[j] # NoBucket
          PROVE  buckets'[j].start <= clock /\ 1 <= buckets'[j].count /\ buckets'[j].count <= MaxRequests
      <3>1. b[j] # NoBucket => b[j].start <= clock /\ 1 <= b[j].count /\ b[j].count <= MaxRequests
                               /\ b[j].start \in Nat /\ b[j].count \in Nat
        BY <1>1, ExpiredMeans DEF BurstInv, BucketsPast
      <3>2. CASE j # i
        BY <1>2, <2>1, <3>1, <3>2
      <3>3. CASE j = i /\ Limiter!Expired(b, i, clock)
        <4>1. buckets'[i] = [start |-> clock, count |-> 1]
          BY <1>2, <3>3
        <4> QED
          BY <1>2, <3>3, <4>1, WebAppAssumption
      <3>4. CASE j = i /\ ~Limiter!Expired(b, i, clock)
        <4>1. b[i] # NoBucket
          BY <3>4 DEF Limiter!Expired
        <4>2. /\ buckets'[i].start = b[i].start
              /\ b[i].count < MaxRequests => buckets'[i].count = b[i].count + 1
              /\ ~(b[i].count < MaxRequests) => buckets'[i] = b[i]
          BY <1>2, <3>4
        <4> QED
          BY <3>1, <3>4, <4>1, <4>2, WebAppAssumption
      <3> QED
        BY <3>2, <3>3, <3>4
    <2>2. ASSUME NEW j \in Ids, NEW n \in 1..Len(recent'[j]) PROVE recent'[j][n] <= clock
      <3>1. \A m \in 1..Len(recent[j]) : recent[j][m] <= clock
        BY DEF BurstInv, BucketsPast
      <3>2. CASE recent'[j] = recent[j]
        BY <2>2, <3>1, <3>2
      <3>4. CASE recent'[j] = <<>>
        BY <2>2, <3>4
      <3>3. CASE j = i /\ recent'[j] = Lately(Append(recent[j], clock))
        <4>1. PICK t \in Seq(Nat) : t = Append(recent[j], clock)
          BY <1>2, OneMore DEF Types
        <4>2. t # <<>> /\ Len(t) \in Nat /\ \A m \in 1..Len(t) : t[m] <= clock
          BY <1>2, <3>1, <4>1, OneMore, OneMorePast DEF Types
        <4>3. Len(Tail(t)) = Len(t) - 1 /\ \A m \in 1..Len(Tail(t)) : Tail(t)[m] = t[m + 1]
          BY <4>2, HeadTailProperties
        <4>4. \A m \in 1..Len(Tail(t)) : Tail(t)[m] <= clock
          BY <4>2, <4>3
        <4>5. Lately(t) = t \/ Lately(t) = Tail(t)
          BY DEF Lately
        <4> QED
          BY <2>2, <3>3, <4>1, <4>2, <4>4, <4>5
      <3> QED
        BY <1>1, <3>2, <3>3, <3>4 DEF Types, Followed
    <2> QED
      BY <1>1, <2>1, <2>2 DEF BucketsPast
  <1>5. ASSUME NEW j \in Ids \ lostBuckets'
        PROVE  IF Limiter!Expired(buckets', j, clock') THEN Spent(j)' ELSE Live(j)'
    <2>1. CASE j # i \/ ~Limiter!Admits(b, i, clock)
      <3>1. buckets'[j] = b[j]
        <4>1. CASE j # i
          BY <1>2, <4>1
        <4>2. CASE j = i /\ ~Limiter!Admits(b, i, clock)
          <5>1. ~Limiter!Expired(b, i, clock) /\ ~(b[i].count < MaxRequests)
            BY <4>2 DEF Limiter!Admits
          <5> QED
            BY <1>2, <4>2, <5>1
        <4> QED
          BY <2>1, <4>1, <4>2
      <3>2. recent'[j] = recent[j]
        BY <1>1, <1>5, <2>1 DEF Types, Followed
      <3>3. Limiter!Expired(buckets', j, clock') <=> Limiter!Expired(buckets, j, clock)
        BY <1>1, <1>3, <3>1 DEF Limiter!Expired
      <3>4. CASE Limiter!Expired(buckets, j, clock)
        BY <1>3, <3>2, <3>3, <3>4 DEF BurstInv, Bursts, Spent
      <3>5. CASE ~Limiter!Expired(buckets, j, clock)
        <4>1. buckets'[j] = buckets[j]
          BY <1>3, <3>1, <3>5 DEF Limiter!Expired
        <4> QED
          BY <1>3, <3>2, <3>3, <3>5, <4>1 DEF BurstInv, Bursts, Live
      <3> QED
        BY <3>4, <3>5
    <2>2. CASE j = i /\ Limiter!Admits(b, i, clock)
      <3>1. recent'[i] = Lately(Append(recent[i], clock))
        BY <1>1, <1>5, <2>2 DEF Types, Followed
      <3>2. ~Limiter!Expired(buckets', i, clock') /\ Live(i)'
        BY <1>1, <1>3, <2>2, <3>1, AdmittedBurst
      <3> QED
        BY <2>2, <3>2
    <2> QED
      BY <2>1, <2>2
  <1> QED
    BY <1>4, <1>5 DEF BurstInv, Bursts

LEMMA TickBurst == Types /\ BurstInv /\ Tick => BurstInv'
  <1> SUFFICES ASSUME Types, BurstInv, Tick PROVE BurstInv'
    OBVIOUS
  <1>1. /\ clock' = clock + 1 /\ buckets' = buckets /\ lostBuckets' = lostBuckets
        /\ recent' = [i \in Ids |-> InWindow(recent[i], clock + 1)]
        /\ clock \in Nat /\ clock + 1 \in Nat
    BY DEF Tick, tables, Types
  <1>2. BucketsPast'
    <2>1. ASSUME NEW i \in Ids, buckets[i] # NoBucket
          PROVE  buckets[i].start <= clock + 1 /\ 1 <= buckets[i].count /\ buckets[i].count <= MaxRequests
      <3>1. buckets[i].start \in Nat
        BY <2>1, ExpiredMeans DEF Types
      <3> QED
        BY <1>1, <2>1, <3>1 DEF BurstInv, BucketsPast
    <2>2. ASSUME NEW i \in Ids, NEW n \in 1..Len(recent'[i]) PROVE recent'[i][n] <= clock + 1
      <3>1. recent[i] \in Seq(Nat)
        BY DEF Types
      <3>2. PICK d \in 0..Len(recent[i]) :
                Len(recent'[i]) = Len(recent[i]) - d
                /\ \A m \in 1..(Len(recent[i]) - d) : recent'[i][m] = recent[i][m + d]
        BY <1>1, <3>1, InWindowFacts
      <3>3. n + d \in 1..Len(recent[i]) /\ recent'[i][n] = recent[i][n + d]
        BY <2>2, <3>1, <3>2
      <3>4. recent[i][n + d] <= clock /\ recent[i][n + d] \in Nat
        BY <3>1, <3>3 DEF BurstInv, BucketsPast
      <3> QED
        BY <1>1, <3>3, <3>4
    <2> QED
      BY <1>1, <2>1, <2>2 DEF BucketsPast
  <1>3. ASSUME NEW i \in Ids \ lostBuckets'
        PROVE  IF Limiter!Expired(buckets', i, clock') THEN Spent(i)' ELSE Live(i)'
    <2> DEFINE s == recent[i]
    <2>1. s \in Seq(Nat) /\ Len(s) \in Nat
      BY DEF Types
    <2> HIDE DEF s
    <2>a. PICK now \in Nat : now = clock + 1
      BY <1>1
    <2>b. recent'[i] = InWindow(s, now)
      BY <1>1, <2>a DEF s
    <2>2. PICK d \in 0..Len(s) :
              /\ recent'[i] \in Seq(Nat) /\ Len(recent'[i]) = Len(s) - d
              /\ \A n \in 1..(Len(s) - d) : recent'[i][n] = s[n + d]
              /\ \A k \in 0..Len(s) : (\A n \in 1..k : s[n] <= now - Window) => k <= d
      <3>1. PICK w \in Seq(Nat) : w = InWindow(s, now)
        BY <2>1, InWindowFacts
      <3>2. \E d \in 0..Len(s) :
               /\ Len(w) = Len(s) - d /\ \A n \in 1..(Len(s) - d) : w[n] = s[n + d]
               /\ \A k \in 0..Len(s) : (\A n \in 1..k : s[n] <= now - Window) => k <= d
        BY <2>1, <3>1, InWindowFacts
      <3>3. recent'[i] = w
        BY <2>b, <3>1
      <3> QED
        BY <3>2, <3>3
    <2>3. IF Limiter!Expired(buckets, i, clock) THEN Spent(i) ELSE Live(i)
      BY <1>1, <1>3 DEF BurstInv, Bursts
    <2>4. buckets[i] # NoBucket => buckets[i].start \in Nat /\ buckets[i].count \in Nat
      BY ExpiredMeans DEF Types
    <2>5. CASE Limiter!Expired(buckets, i, clock)
      <3>1. Limiter!Expired(buckets', i, clock')
        BY <1>1, <2>4, <2>5, WebAppAssumption DEF Limiter!Expired
      <3>2. Len(recent'[i]) <= MaxRequests - 1
        BY <2>1, <2>2, <2>3, <2>5, WebAppAssumption DEF Spent, s
      <3> QED
        BY <3>1, <3>2 DEF Spent
    <2>6. CASE ~Limiter!Expired(buckets, i, clock)
      <3>1. Live(i) /\ buckets[i] # NoBucket /\ buckets[i].start \in Nat /\ buckets[i].count \in Nat
            /\ clock - buckets[i].start < Window
        BY <1>1, <2>3, <2>4, <2>6, WebAppAssumption DEF Limiter!Expired
      <3>2. PICK k \in 0..Len(s) : (\A n \in 1..k : s[n] <= buckets[i].start) /\ Len(s) - k <= buckets[i].count - 1
        BY <3>1 DEF Live, s
      <3>3. \A n \in 1..Len(s) : s[n] \in Nat
        BY <2>1
      <3>4. CASE clock + 1 - buckets[i].start >= Window
        <4>1. now - Window = buckets[i].start
          BY <1>1, <2>a, <3>1, <3>4, WebAppAssumption, SMTT(30)
        <4>2. k <= d
          BY <2>2, <3>2, <4>1
        <4>3. Len(recent'[i]) <= MaxRequests - 1
          <5>1. buckets[i].count <= MaxRequests
            BY <3>1 DEF BurstInv, BucketsPast
          <5> QED
            BY <2>1, <2>2, <3>1, <3>2, <4>2, <5>1, WebAppAssumption, SMTT(30)
        <4>4. Limiter!Expired(buckets', i, clock')
          <5>1. clock' - buckets'[i].start >= Window
            <6>1. clock' = clock + 1
              BY <1>1
            <6>2. buckets'[i].start = buckets[i].start
              BY <1>1
            <6>3. clock \in Nat /\ buckets[i].start \in Nat /\ Window \in Nat
              BY <1>1, <3>1, WebAppAssumption
            <6> QED
              BY <3>4, <6>1, <6>2, <6>3
          <5> QED
            BY <5>1 DEF Limiter!Expired
        <4> QED
          BY <4>3, <4>4 DEF Spent
      <3>5. CASE ~(clock + 1 - buckets[i].start >= Window)
        <4>1. ~Limiter!Expired(buckets', i, clock')
          BY <1>1, <3>1, <3>5 DEF Limiter!Expired
        <4>2. Len(recent'[i]) <= MaxRequests - 1 + buckets[i].count
          BY <2>1, <2>2, <3>1, WebAppAssumption, SMTT(30) DEF Live, s
        <4>3. \E m \in 0..Len(recent'[i]) :
                  /\ \A n \in 1..m : recent'[i][n] <= buckets[i].start
                  /\ Len(recent'[i]) - m <= buckets[i].count - 1
          <5>1. CASE k <= d
            <6>1. 0 \in 0..Len(recent'[i]) /\ Len(recent'[i]) - 0 <= buckets[i].count - 1
              BY <2>1, <2>2, <3>1, <3>2, <5>1
            <6>2. \A n \in 1..0 : recent'[i][n] <= buckets[i].start
              OBVIOUS
            <6> QED
              BY <6>1, <6>2
          <5>2. CASE k > d
            <6>1. k - d \in 0..Len(recent'[i]) /\ Len(recent'[i]) - (k - d) <= buckets[i].count - 1
              BY <2>1, <2>2, <3>1, <3>2, <5>2
            <6>2. ASSUME NEW n \in 1..(k - d) PROVE recent'[i][n] <= buckets[i].start
              <7>1. n + d \in 1..k /\ n \in 1..(Len(s) - d)
                BY <2>1, <5>2, <6>2
              <7> QED
                BY <2>2, <3>2, <7>1
            <6> QED
              BY <6>1, <6>2
          <5> QED
            BY <2>1, <5>1, <5>2, SMTT(30)
        <4> QED
          BY <1>1, <4>1, <4>2, <4>3 DEF Live
      <3> QED
        BY <3>4, <3>5
    <2> QED
      BY <2>5, <2>6
  <1> QED
    BY <1>2, <1>3 DEF BurstInv, Bursts

LEMMA StepBurst == Types /\ BurstInv /\ [Next]_vars => BurstInv'
  <1> SUFFICES ASSUME Types, BurstInv, [Next]_vars PROVE BurstInv'
    OBVIOUS
  <1>1. ASSUME UNCHANGED <<clock, buckets, recent, lostBuckets>> PROVE BurstInv'
    BY <1>1 DEF BurstInv, BucketsPast, Bursts, Spent, Live
  <1>2. ASSUME NEW r \in Requests, Charge(r) \/ Waits(r) PROVE BurstInv'
    BY <1>1, <1>2, ChargeParts, WaitsFacts
  <1>3. CASE UNCHANGED vars
    BY <1>1, <1>3 DEF vars, tables, history
  <1>4. CASE Restart
    <2>1. \A i \in Ids : buckets'[i] = NoBucket /\ recent'[i] = <<>> /\ Len(recent'[i]) = 0
      BY <1>4, EmptySeq DEF Restart
    <2> QED
      BY <2>1, WebAppAssumption DEF BurstInv, BucketsPast, Bursts, Spent, Limiter!Expired
  <1> QED
    BY <1>2, <1>3, <1>4, NextSplit, ArriveBurst, TickBurst

(* In any window a client is admitted less than twice MaxRequests times, at *)
(* the worst moment for a fixed window too, unless its bucket was evicted   *)
(* while in use (rate_limit.py:48).                                         *)
THEOREM BurstsAreBounded == Spec => []BurstBounded
  <1>1. Types /\ BurstInv => BurstBounded
    <2> SUFFICES ASSUME Types, BurstInv, NEW i \in Ids \ lostBuckets
                 PROVE  Len(recent[i]) <= 2 * MaxRequests - 1
      BY DEF BurstBounded
    <2>1. Len(recent[i]) \in Nat
      BY DEF Types
    <2>2. CASE Limiter!Expired(buckets, i, clock)
      BY <2>1, <2>2, WebAppAssumption DEF BurstInv, Bursts, Spent
    <2>3. CASE ~Limiter!Expired(buckets, i, clock)
      <3>1. buckets[i] # NoBucket
        BY <2>3 DEF Limiter!Expired
      <3>2. buckets[i].count <= MaxRequests /\ buckets[i].count \in Nat
        BY <3>1, ExpiredMeans DEF BurstInv, BucketsPast, Types
      <3> QED
        BY <2>1, <2>3, <3>2, WebAppAssumption DEF BurstInv, Bursts, Live
    <2> QED
      BY <2>2, <2>3
  <1>2. Types /\ BurstInv /\ [Next]_vars => (Types /\ BurstInv)'
    BY StepTypes, StepBurst
  <1> QED
    BY <1>1, <1>2, InitTypes, InitBurst, PTL DEF Spec
=============================================================================
