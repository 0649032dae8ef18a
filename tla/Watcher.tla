------------------------------ MODULE Watcher ------------------------------
(* The log watcher (watcher.py): tail_file, an asynchronous generator that  *)
(* polls a file another process appends to, rotates and truncates;          *)
(* _drain_batches, which collects the IOCs of the lines it yields until a   *)
(* batch is full or no line came for debounce_seconds; and watch, which     *)
(* looks every batch up.  A file is a sequence of IOCs and line ends; each  *)
(* IOC is written once.                                                     *)
EXTENDS Integers, Sequences, SequencesExt, FiniteSets

CONSTANTS
    Iocs,
    NL,            \* end of line
    BatchMax,      \* batch_max
    MaxLine,       \* length at which an unterminated line is yielded anyway
    MaxWrites,     \* bound on the bytes written
    MaxRotations,  \* bound on renames and truncations
    LookupMayRaise \* the engine's lookup_many may raise

ASSUME WatcherAssumption ==
    /\ NL \notin Iocs
    /\ BatchMax \in Nat \ {0} /\ MaxLine \in Nat \ {0}
    /\ MaxWrites \in Nat /\ MaxRotations \in Nat
    /\ LookupMayRaise \in BOOLEAN

VARIABLES
    files,     \* contents of the files the path has named so far
    cur,       \* the file the path names now
    rotations, \* renames and truncations so far
    fd,        \* the file tail_file has open
    pos,       \* its read position
    lastSize,  \* its size as tail_file remembers it
    buffer,    \* bytes read and not yielded
    gen,       \* tail_file: "active", "sleeping" in its poll, or "closed"
    drain,     \* _drain_batches: "asking", "lookup", or "ended"
    pending,   \* IOCs collected for the next batch
    extracted, \* history: IOCs of yielded lines
    lookedUp,  \* history: IOCs of batches handed to the engine
    truncated, \* history: the open file was truncated since it was opened
    left       \* history: the files left for a new one, how far they were read

fileVars == <<files, cur, rotations>>
tailVars == <<fd, pos, lastSize, buffer, gen>>
drainVars == <<drain, pending, extracted, lookedUp>>
history == <<truncated, left>>
vars == <<fileVars, tailVars, drainVars, history>>

Bytes == Iocs \cup {NL}

WrittenIocs == UNION {ToSet(files[f]) : f \in DOMAIN files} \cap Iocs

HasLine == Contains(buffer, NL)

(* Where the first line of the buffer ends.                                 *)
LineEnd == CHOOSE i \in DOMAIN buffer :
              buffer[i] = NL /\ \A j \in 1..(i-1) : buffer[j] # NL

Available == SubSeq(files[fd], pos + 1, Len(files[fd]))

-----------------------------------------------------------------------------
(* watch(path, engine) with from_start = FALSE: the file is opened at its   *)
(* end, here an empty file.                                                 *)
Init ==
    /\ files = <<<<>>>> /\ cur = 1 /\ rotations = 0
    /\ fd = 1 /\ pos = 0 /\ lastSize = 0 /\ buffer = <<>> /\ gen = "active"
    /\ drain = "asking" /\ pending = {} /\ extracted = {} /\ lookedUp = {}
    /\ truncated = FALSE /\ left = {}

(* The program that writes the log.                                         *)
Write(b) ==
    /\ b = NL \/ b \notin WrittenIocs
    /\ FoldSeq(LAMBDA f, n : n + Len(f), 0, files) < MaxWrites
    /\ files' = [files EXCEPT ![cur] = Append(@, b)]
    /\ UNCHANGED <<cur, rotations, tailVars, drainVars, history>>

(* logrotate renames the file and creates a new one.                        *)
Rename ==
    /\ rotations < MaxRotations
    /\ rotations' = rotations + 1
    /\ files' = Append(files, <<>>)
    /\ cur' = Len(files) + 1
    /\ UNCHANGED <<tailVars, drainVars, history>>

(* logrotate's copytruncate.                                                *)
Truncate ==
    /\ rotations < MaxRotations
    /\ files[cur] # <<>>
    /\ rotations' = rotations + 1
    /\ files' = [files EXCEPT ![cur] = <<>>]
    /\ truncated' = (truncated \/ fd = cur)
    /\ UNCHANGED <<cur, tailVars, drainVars, left>>

-----------------------------------------------------------------------------
(* A line reaches _drain_batches: its IOCs join the pending ones, and a     *)
(* full batch goes to the engine.                                           *)
Collect(line) ==
    LET more == pending \cup (ToSet(line) \cap Iocs) IN
    /\ extracted' = extracted \cup (ToSet(line) \cap Iocs)
    /\ pending' = more
    /\ IF Cardinality(more) >= BatchMax
       THEN drain' = "lookup" /\ lookedUp' = lookedUp \cup more
       ELSE UNCHANGED <<drain, lookedUp>>

Asking == drain = "asking" /\ gen = "active"

(* Mutant: the bytes of an unfinished line are dropped by the next read.    *)
ReadReplacing ==
    /\ Asking /\ ~HasLine /\ Len(buffer) < MaxLine
    /\ Available # <<>>
    /\ buffer' = Available
    /\ pos' = Len(files[fd])
    /\ lastSize' = Len(files[fd])
    /\ UNCHANGED <<fileVars, fd, gen, drainVars, history>>

Read ==
    /\ Asking /\ ~HasLine /\ Len(buffer) < MaxLine
    /\ Available # <<>>
    /\ buffer' = buffer \o Available
    /\ pos' = Len(files[fd])
    /\ lastSize' = Len(files[fd])
    /\ UNCHANGED <<fileVars, fd, gen, drainVars, history>>

YieldLine ==
    /\ Asking /\ HasLine
    /\ Collect(SubSeq(buffer, 1, LineEnd - 1))
    /\ buffer' = SubSeq(buffer, LineEnd + 1, Len(buffer))
    /\ UNCHANGED <<fileVars, fd, pos, lastSize, gen, history>>

(* A line that does not end is yielded as it is.                            *)
YieldLong ==
    /\ Asking /\ ~HasLine /\ Len(buffer) >= MaxLine
    /\ Collect(buffer)
    /\ buffer' = <<>>
    /\ UNCHANGED <<fileVars, fd, pos, lastSize, gen, history>>

(* Nothing to read: tail_file sleeps for poll_interval.                     *)
Sleep ==
    /\ Asking /\ ~HasLine /\ Len(buffer) < MaxLine
    /\ Available = <<>>
    /\ gen' = "sleeping"
    /\ UNCHANGED <<fileVars, fd, pos, lastSize, buffer, drainVars, history>>

(* The poll: a rotation is noticed by the inode or by a smaller size, and   *)
(* the file is opened again from its start; the buffer is dropped, and so   *)
(* is what was not read of a file that was renamed.  (A path that names     *)
(* nothing for a moment is polled again, as if nothing changed.)            *)
Poll ==
    /\ gen = "sleeping"
    /\ gen' = "active"
    /\ IF cur # fd \/ Len(files[cur]) < lastSize
       THEN /\ fd' = cur /\ pos' = 0 /\ lastSize' = 0 /\ buffer' = <<>>
            /\ truncated' = FALSE
            /\ left' = left \cup IF truncated \/ fd = cur THEN {} ELSE {[file |-> fd, read |-> pos]}
       ELSE UNCHANGED <<fd, pos, lastSize, buffer, history>>
    /\ UNCHANGED <<fileVars, drainVars>>

(* Mutant: the debounce only sends a full batch.                            *)
FlushFull ==
    IF Cardinality(pending) >= BatchMax
    THEN drain' = "lookup" /\ lookedUp' = lookedUp \cup pending
    ELSE UNCHANGED <<drain, lookedUp>>

Flush ==
    IF pending # {}
    THEN drain' = "lookup" /\ lookedUp' = lookedUp \cup pending
    ELSE UNCHANGED <<drain, lookedUp>>

(* wait_for gives up after debounce_seconds (3600 s with nothing pending):  *)
(* it cancels the sleep inside tail_file, whose finally closes the file and *)
(* whose generator is finished by the CancelledError.                       *)
Timeout ==
    /\ drain = "asking" /\ gen = "sleeping"
    /\ gen' = "closed"
    /\ Flush
    /\ UNCHANGED <<fileVars, fd, pos, lastSize, buffer, pending, extracted, history>>

(* A finished generator raises StopAsyncIteration at once, which reads as a *)
(* timeout: what is pending goes out, then the loop goes round.             *)
Exhausted ==
    /\ drain = "asking" /\ gen = "closed"
    /\ Flush
    /\ UNCHANGED <<fileVars, tailVars, pending, extracted, history>>

(* The engine is done with the batch, and pending is cleared.               *)
LookupDone ==
    /\ drain = "lookup"
    /\ drain' = "asking"
    /\ pending' = {}
    /\ UNCHANGED <<fileVars, tailVars, extracted, lookedUp, history>>

(* lookup_many raised: the exception ends watch.                            *)
LookupRaises ==
    /\ LookupMayRaise
    /\ drain = "lookup"
    /\ drain' = "ended"
    /\ UNCHANGED <<fileVars, tailVars, pending, extracted, lookedUp, history>>

Daemon ==
    \/ Read \/ YieldLine \/ YieldLong \/ Sleep \/ Poll
    \/ Timeout \/ Exhausted \/ LookupDone \/ LookupRaises

Next ==
    \/ \E b \in Bytes : Write(b)
    \/ Rename
    \/ Truncate
    \/ Daemon

Spec == Init /\ [][Next]_vars

(* The event loop runs the daemon's steps and its timers.  The timer of     *)
(* wait_for runs on while tail_file polls, so a tail that keeps going back  *)
(* to sleep with no line is timed out: strong fairness (writes are bounded, *)
(* so lines do not come forever).                                           *)
FairSpec ==
    /\ Spec
    /\ WF_vars(Read) /\ WF_vars(YieldLine) /\ WF_vars(YieldLong) /\ WF_vars(Sleep)
    /\ WF_vars(Poll) /\ SF_vars(Timeout) /\ WF_vars(Exhausted)
    /\ WF_vars(LookupDone \/ LookupRaises)

-----------------------------------------------------------------------------
(* While the open file is not truncated, everything before the read         *)
(* position was either yielded or is still in the buffer (watcher.py:91):   *)
(* no read, yield, flush or lookup in between skips a byte. Of a file that  *)
(* was renamed and left for its successor (watcher.py:110), every line that *)
(* had been read to its end was yielded before: all that the poll drops is  *)
(* the unfinished line in the buffer, and what had not been read yet.       *)
OpenFileKept ==
    ~truncated =>
        \A i \in 1..pos : files[fd][i] \in Iocs =>
            files[fd][i] \in ToSet(buffer) \cup extracted
LeftFilesYielded ==
    \A l \in left : \A i, j \in 1..l.read :
        i < j /\ files[l.file][j] = NL /\ files[l.file][i] \in Iocs => files[l.file][i] \in extracted
NothingSkipped == OpenFileKept /\ LeftFilesYielded

(* An IOC in a line that was yielded is looked up in the end, even when the *)
(* tail has died by then, unless a lookup raised (watcher.py:145).          *)
ExtractedIsLookedUp ==
    \A i \in Iocs : i \in extracted ~> i \in lookedUp \/ drain = "ended"

(* watcher.py:76 "Yield newly-appended lines from `path` forever": an IOC   *)
(* on a complete line of the file is looked up in the end.                  *)
OnCompleteLine(i) ==
    \E j, k \in DOMAIN files[cur] : j < k /\ files[cur][j] = i /\ files[cur][k] = NL

TailsForever ==
    \A i \in Iocs : OnCompleteLine(i) ~> i \in lookedUp
=============================================================================
