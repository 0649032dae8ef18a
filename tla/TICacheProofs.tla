--------------------------- MODULE TICacheProofs ---------------------------
(* Proofs about the source cache, for any TTL and clock resolution.         *)
EXTENDS TICache, TLAPS

LEMMA SecondsFacts ==
    ASSUME NEW c \in Nat
    PROVE  /\ Seconds(c) \in Int
           /\ Seconds(c) * TicksPerSecond <= c
           /\ c < (Seconds(c) + 1) * TicksPerSecond
  <1>1. TicksPerSecond \in Nat \ {0}
    BY CacheAssumption
  <1> QED
    BY <1>1 DEF Seconds

LEMMA SecondsMonotone ==
    ASSUME NEW c \in Nat, NEW d \in Nat, c <= d
    PROVE  Seconds(c) <= Seconds(d)
  <1>1. TicksPerSecond \in Nat \ {0}
    BY CacheAssumption
  <1> QED
    BY <1>1 DEF Seconds

(* The stamps of a row say when it was written.                             *)
StampsOK ==
    \A k \in Keys : rows[k] # NoRow =>
        /\ rows[k].writtenAt \in Nat
        /\ rows[k].expiresAt = Seconds(rows[k].writtenAt) + TTL

CacheInv == TypeOK /\ StampsOK

LEMMA NewRowFacts ==
    ASSUME NEW p \in Payloads, NEW c \in Nat
    PROVE  /\ NewRow(p, c) \in Row
           /\ NewRow(p, c).writtenAt = c
           /\ NewRow(p, c).expiresAt = Seconds(c) + TTL
  BY SecondsFacts, CacheAssumption DEF NewRow, Row

LEMMA InitCacheInv == Init => CacheInv
  BY DEF Init, CacheInv, TypeOK, StampsOK

LEMMA CacheInvStep ==
    ASSUME CacheInv, [Next]_cacheVars
    PROVE  CacheInv'
  <1> USE DEF CacheInv, TypeOK
  <1>1. ASSUME NEW k \in Keys, NEW p \in Payloads, Set(k, p)
        PROVE  CacheInv'
    <2>1. rows' = [rows EXCEPT ![k] = NewRow(p, clock)] /\ UNCHANGED clock
      BY <1>1 DEF Set
    <2>2. NewRow(p, clock) \in Row /\ NewRow(p, clock).writtenAt = clock
          /\ NewRow(p, clock).expiresAt = Seconds(clock) + TTL
      BY NewRowFacts
    <2> QED
      BY <2>1, <2>2 DEF StampsOK
  <1>2. CASE PurgeExpired
    BY <1>2 DEF PurgeExpired, StampsOK
  <1>3. CASE Tick
    BY <1>3 DEF Tick, StampsOK
  <1>4. CASE UNCHANGED cacheVars
    BY <1>4 DEF cacheVars, StampsOK
  <1> QED
    BY <1>1, <1>2, <1>3, <1>4 DEF Next

(* No entry is served once it is TTL seconds old.                           *)
THEOREM NeverServedLate == Spec => []ServedWithinTTL
  <1>1. Spec => []CacheInv
    BY InitCacheInv, CacheInvStep, PTL DEF Spec
  <1>2. CacheInv => ServedWithinTTL
    <2> SUFFICES ASSUME CacheInv, NEW k \in Keys, Hit(k)
                 PROVE  clock - rows[k].writtenAt < TTL * TicksPerSecond
      BY DEF ServedWithinTTL
    <2> DEFINE w == rows[k].writtenAt
               s == Seconds(clock)
               v == Seconds(w)
               R == TicksPerSecond
    <2>1. /\ w \in Nat /\ clock \in Nat /\ TTL \in Int /\ R \in Nat \ {0}
          /\ s < v + TTL
      BY CacheAssumption DEF Hit, Fresh, CacheInv, TypeOK, StampsOK
    <2>2. /\ s \in Int /\ v \in Int
          /\ v * R <= w /\ clock < (s + 1) * R
      BY <2>1, SecondsFacts
    <2> HIDE DEF w, s, v, R
    <2>3. s + 1 <= v + TTL
      BY <2>1, <2>2
    <2>4. (s + 1) * R <= (v + TTL) * R
      BY <2>1, <2>2, <2>3
    <2>5. (v + TTL) * R = v * R + TTL * R
      BY <2>1, <2>2
    <2>6. v * R \in Int /\ TTL * R \in Int /\ (s + 1) * R \in Int
      BY <2>1, <2>2
    <2>7. clock - w < TTL * R
      BY <2>1, <2>2, <2>4, <2>5, <2>6
    <2> QED
      BY <2>7 DEF w, R
  <1> QED
    BY <1>1, <1>2, PTL

(* A fresh entry is lost only by reaching its expiry.                       *)
THEOREM FreshKept == Spec => FreshUntilExpiry
  <1> DEFINE Keep == \A k \in Keys : Hit(k) /\ ~Hit(k)' =>
                         TTL <= 0 \/ Seconds(clock') >= rows[k].expiresAt
  <1>1. CacheInv /\ [Next]_cacheVars => [Keep]_cacheVars
    <2> SUFFICES ASSUME CacheInv, Next, NEW k \in Keys, Hit(k), ~Hit(k)', ~(TTL <= 0)
                 PROVE  Seconds(clock') >= rows[k].expiresAt
      OBVIOUS
    <2>0. /\ rows[k] \in Row /\ rows[k].expiresAt \in Int /\ clock \in Nat /\ TTL > 0
          /\ rows[k] # NoRow /\ rows[k].expiresAt > Seconds(clock)
      BY CacheAssumption DEF CacheInv, TypeOK, Hit, Fresh, Row
    <2>1. ASSUME NEW j \in Keys, NEW p \in Payloads, Set(j, p)
          PROVE  FALSE
      <3>1. rows' = [rows EXCEPT ![j] = NewRow(p, clock)] /\ clock' = clock
        BY <2>1 DEF Set
      <3>2. NewRow(p, clock) \in Row /\ NewRow(p, clock).expiresAt = Seconds(clock) + TTL
        BY <2>0, NewRowFacts
      <3>3. Seconds(clock) \in Int
        BY <2>0, SecondsFacts
      <3>4. CASE j = k
        <4>1. rows'[k] = NewRow(p, clock)
          BY <3>1, <3>4 DEF CacheInv, TypeOK
        <4>2. rows'[k] # NoRow /\ rows'[k].expiresAt > Seconds(clock')
          BY <2>0, <3>1, <3>2, <3>3, <4>1, CacheAssumption, NoRowAssumption
        <4> QED
          BY <4>2 DEF Hit, Fresh
      <3>5. CASE j # k
        BY <3>1, <3>5, <2>0 DEF Hit, Fresh, CacheInv, TypeOK
      <3> QED
        BY <3>4, <3>5
    <2>2. CASE PurgeExpired
      <3>1. Seconds(clock) \in Int
        BY <2>0, SecondsFacts
      <3>2. rows'[k] = rows[k] /\ clock' = clock
        BY <2>0, <2>2, <3>1 DEF PurgeExpired
      <3> QED
        BY <2>0, <3>2 DEF Hit, Fresh
    <2>3. CASE Tick
      <3>1. rows' = rows /\ clock' \in Nat
        BY <2>0, <2>3 DEF Tick
      <3>2. Seconds(clock') \in Int
        BY <3>1, SecondsFacts
      <3> QED
        BY <2>0, <3>1, <3>2 DEF Hit, Fresh
    <2> QED
      BY <2>1, <2>2, <2>3 DEF Next
  <1>2. Spec => []CacheInv
    BY InitCacheInv, CacheInvStep, PTL DEF Spec
  <1>3. Spec => [][Keep]_cacheVars
    BY <1>1, <1>2, PTL DEF Spec
  <1> QED
    BY <1>3 DEF FreshUntilExpiry

(* An expired entry does not come back unless its key is written again.     *)
THEOREM ExpiredStaysExpired == Spec => NoResurrection
  <1> DEFINE Stay == \A k \in Keys : ~Hit(k) /\ Hit(k)' => rows'[k].writtenAt = clock
  <1>1. CacheInv /\ [Next]_cacheVars => [Stay]_cacheVars
    <2> SUFFICES ASSUME CacheInv, Next, NEW k \in Keys, ~Hit(k), Hit(k)'
                 PROVE  rows'[k].writtenAt = clock
      OBVIOUS
    <2>1. ASSUME NEW j \in Keys, NEW p \in Payloads, Set(j, p)
          PROVE  rows'[k].writtenAt = clock
      <3>1. rows' = [rows EXCEPT ![j] = NewRow(p, clock)] /\ clock' = clock
        BY <2>1 DEF Set
      <3>2. NewRow(p, clock).writtenAt = clock
        BY DEF NewRow
      <3>3. rows'[k] = rows[k] \/ rows'[k] = NewRow(p, clock)
        BY <3>1 DEF CacheInv, TypeOK
      <3> QED
        BY <3>1, <3>2, <3>3 DEF Hit, Fresh
    <2>2. CASE PurgeExpired
      <3>1. (rows'[k] = rows[k] \/ rows'[k] = NoRow) /\ clock' = clock
        BY <2>2 DEF PurgeExpired
      <3> QED
        BY <3>1 DEF Hit, Fresh
    <2>3. CASE Tick
      <3>1. rows' = rows /\ clock \in Nat /\ clock' \in Nat /\ clock <= clock'
        BY <2>3 DEF Tick, CacheInv, TypeOK
      <3>2. Seconds(clock) <= Seconds(clock')
            /\ Seconds(clock) \in Int /\ Seconds(clock') \in Int
        BY <3>1, SecondsMonotone, SecondsFacts
      <3>3. rows[k] # NoRow /\ rows[k].expiresAt > Seconds(clock') /\ rows[k].expiresAt \in Int
        BY <3>1 DEF Hit, Fresh, CacheInv, TypeOK, Row
      <3> QED
        BY <3>2, <3>3 DEF Hit, Fresh
    <2> QED
      BY <2>1, <2>2, <2>3 DEF Next
  <1>2. Spec => []CacheInv
    BY InitCacheInv, CacheInvStep, PTL DEF Spec
  <1>3. Spec => [][Stay]_cacheVars
    BY <1>1, <1>2, PTL DEF Spec
  <1> QED
    BY <1>3 DEF NoResurrection

(* Every variable of the cache keeps its type.                              *)
THEOREM CacheTyped == Spec => []TypeOK
  <1>1. CacheInv => TypeOK
    BY DEF CacheInv
  <1> QED
    BY <1>1, InitCacheInv, CacheInvStep, PTL DEF Spec
=============================================================================
