------------------------------ MODULE TICache ------------------------------
(* The SQLite cache of source answers (cache/sqlite_cache.py): one row per  *)
(* (source, type, value) key, an upsert that restamps the whole row, a read *)
(* that skips expired rows, and the bulk purge.  Every connection of every  *)
(* process sees the same table; one SQL statement is one atomic step.       *)
(* The wall clock counts ticks, TicksPerSecond of them in a second, so that *)
(* the truncation int(now) of the code is visible.                          *)
EXTENDS Integers

CONSTANTS
    Keys,            \* (source, ioc_type, ioc_value) triples
    Payloads,        \* serialised source results
    NoRow,           \* an absent row
    TTL,             \* IOC_CACHE_TTL in seconds; any integer is accepted
    TicksPerSecond,  \* resolution of time.time()
    MaxClock         \* bound on the clock, for TLC only

ASSUME CacheAssumption ==
    /\ TTL \in Int
    /\ TicksPerSecond \in Nat \ {0}
    /\ MaxClock \in Nat

VARIABLES
    rows,   \* rows[k]: the row stored under key k, or NoRow
    clock   \* time.time(), in ticks

cacheVars == <<rows, clock>>

(* A row; writtenAt is history, the untruncated moment of the write.        *)
Row == [payload : Payloads, cachedAt : Int, expiresAt : Int, writtenAt : Nat]

ASSUME NoRowAssumption == NoRow \notin Row

Seconds(c) == c \div TicksPerSecond

(* Mutant of Fresh: an entry is served one second past its expiry.          *)
FreshOneMore(row, c) == row # NoRow /\ row.expiresAt + 1 > Seconds(c)

Fresh(row, c) == row # NoRow /\ row.expiresAt > Seconds(c)

NewRow(p, c) ==
    [payload   |-> p,
     cachedAt  |-> Seconds(c),
     expiresAt |-> Seconds(c) + TTL,
     writtenAt |-> c]

(* Whether get() returns an entry for k now.                                *)
Hit(k) == Fresh(rows[k], clock)

Init ==
    /\ rows = [k \in Keys |-> NoRow]
    /\ clock = 0

(* Mutant of Set: a payload is stored without its stamps.                   *)
SetUnstamped(k, p) ==
    /\ rows' = [rows EXCEPT ![k] = [payload |-> p]]
    /\ UNCHANGED clock

(* Mutant of Set: every row of the table is restamped.                      *)
SetRestampsAll(k, p) ==
    /\ rows' = [j \in Keys |->
                   IF j = k THEN NewRow(p, clock)
                   ELSE IF rows[j] = NoRow THEN NoRow
                   ELSE [rows[j] EXCEPT !.expiresAt = Seconds(clock) + TTL]]
    /\ UNCHANGED clock

Set(k, p) ==
    /\ rows' = [rows EXCEPT ![k] = NewRow(p, clock)]
    /\ UNCHANGED clock

(* Mutant of PurgeExpired: the last second of a row counts as expired.      *)
PurgeEarly ==
    /\ rows' = [k \in Keys |->
                   IF rows[k] # NoRow /\ rows[k].expiresAt <= Seconds(clock) + 1
                   THEN NoRow ELSE rows[k]]
    /\ UNCHANGED clock

PurgeExpired ==
    /\ rows' = [k \in Keys |->
                   IF rows[k] # NoRow /\ rows[k].expiresAt <= Seconds(clock)
                   THEN NoRow ELSE rows[k]]
    /\ UNCHANGED clock

Tick ==
    /\ clock < MaxClock
    /\ clock' = clock + 1
    /\ UNCHANGED rows

Next ==
    \/ \E k \in Keys, p \in Payloads : Set(k, p)
    \/ PurgeExpired
    \/ Tick

Spec == Init /\ [][Next]_cacheVars

-----------------------------------------------------------------------------
(* Every variable keeps its type.                                           *)
TypeOK ==
    /\ rows \in [Keys -> Row \cup {NoRow}]
    /\ clock \in Nat

(* get() (sqlite_cache.py:85) never serves an entry that was written TTL    *)
(* seconds ago or earlier, although both stamps are truncated to seconds.   *)
ServedWithinTTL ==
    \A k \in Keys :
        Hit(k) => clock - rows[k].writtenAt < TTL * TicksPerSecond

(* An entry that get() serves stops being served only by reaching its       *)
(* expiry: neither the purge nor a write, under this key or another, takes  *)
(* it away early.  (A TTL of zero or less makes every write invisible.)     *)
FreshUntilExpiry ==
    [][\A k \in Keys :
          Hit(k) /\ ~Hit(k)' =>
              TTL <= 0 \/ Seconds(clock') >= rows[k].expiresAt]_cacheVars

(* An expired entry never comes back: a key that misses keeps missing until *)
(* set() writes that key, so the purge can be run at any moment or never.   *)
NoResurrection ==
    [][\A k \in Keys :
          ~Hit(k) /\ Hit(k)' => rows'[k].writtenAt = clock]_cacheVars
=============================================================================
