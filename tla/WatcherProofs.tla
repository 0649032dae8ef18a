---------------------------- MODULE WatcherProofs ----------------------------
(* Proofs about the log watcher, for any number of writes, rotations and    *)
(* truncations, any batch size and any length of a line.                    *)
EXTENDS Watcher, SetLemmas, SequenceTheorems

-----------------------------------------------------------------------------
(* What a buffer holds after it was read into, and after a line left it.    *)

LEMMA FirstLine ==
    ASSUME NEW S, buffer \in Seq(S), HasLine
    PROVE  LineEnd \in 1..Len(buffer) /\ buffer[LineEnd] = NL
  <1> DEFINE Ends == {i \in 1..Len(buffer) : buffer[i] = NL}
  <1>1. Ends \subseteq Nat /\ Ends # {}
    BY DEF HasLine, Contains
  <1>2. PICK i \in Ends : \A j \in Ends : i <= j
    BY <1>1, LeastNatural
  <1>3. i \in DOMAIN buffer /\ buffer[i] = NL /\ \A j \in 1..(i-1) : buffer[j] # NL
    BY <1>2
  <1> QED
    BY <1>3 DEF LineEnd

LEMMA AppendedMembers ==
    ASSUME NEW S, NEW s \in Seq(S), NEW t \in Seq(S)
    PROVE  ToSet(s) \subseteq ToSet(s \o t) /\ ToSet(t) \subseteq ToSet(s \o t)
  <1>1. ASSUME NEW i \in 1..Len(s) PROVE s[i] \in ToSet(s \o t)
    <2>1. i \in DOMAIN (s \o t) /\ (s \o t)[i] = s[i]
      BY ConcatProperties
    <2> QED
      BY <2>1 DEF ToSet
  <1>2. ASSUME NEW i \in 1..Len(t) PROVE t[i] \in ToSet(s \o t)
    <2>1. Len(s) + i \in DOMAIN (s \o t) /\ (s \o t)[Len(s) + i] = t[i]
      BY ConcatProperties
    <2> QED
      BY <2>1 DEF ToSet
  <1>3. ToSet(s) = {s[i] : i \in 1..Len(s)} /\ ToSet(t) = {t[i] : i \in 1..Len(t)}
    BY DEF ToSet
  <1> QED
    BY <1>1, <1>2, <1>3

(* Cut in two at a place, a sequence loses the member there at most.        *)
LEMMA CutMembers ==
    ASSUME NEW S, NEW s \in Seq(S), NEW n \in 1..Len(s), NEW x \in ToSet(s), x # s[n]
    PROVE  x \in ToSet(SubSeq(s, 1, n - 1)) \cup ToSet(SubSeq(s, n + 1, Len(s)))
  <1>1. PICK i \in 1..Len(s) : s[i] = x
    BY DEF ToSet
  <1>2. CASE i < n
    <2>1. i \in DOMAIN SubSeq(s, 1, n - 1) /\ SubSeq(s, 1, n - 1)[i] = x
      BY <1>1, <1>2, SubSeqProperties
    <2> QED
      BY <2>1 DEF ToSet
  <1>3. CASE i > n
    <2>1. i - n \in DOMAIN SubSeq(s, n + 1, Len(s)) /\ SubSeq(s, n + 1, Len(s))[i - n] = x
      BY <1>1, <1>3, SubSeqProperties
    <2> QED
      BY <2>1 DEF ToSet
  <1> QED
    BY <1>1, <1>2, <1>3

LEMMA CutType ==
    ASSUME NEW S, NEW s \in Seq(S), NEW m \in Int, m >= 1
    PROVE  SubSeq(s, m, Len(s)) \in Seq(S)
  BY SubSeqProperties

-----------------------------------------------------------------------------
Types ==
    /\ files \in Seq(Seq(Bytes))
    /\ cur \in 1..Len(files) /\ fd \in 1..Len(files)
    /\ pos \in Nat
    /\ buffer \in Seq(Bytes)
    /\ truncated \in BOOLEAN
    /\ left \subseteq [file : 1..Len(files), read : Nat]

(* The read position is inside a file that was not cut behind its back.     *)
InFile == ~truncated => pos <= Len(files[fd])

(* The buffer is the end of what was read, and all before it was yielded.   *)
BufferIs(n) ==
    /\ Len(buffer) = pos - n
    /\ \A i \in 1..pos - n : buffer[i] = files[fd][n + i]
    /\ \A i \in 1..n : files[fd][i] \in Iocs => files[fd][i] \in extracted
ReadSplit == ~truncated => \E n \in 0..pos : BufferIs(n)

(* A file that was left is not the one written to, so it stays as it was.   *)
LeftBehind == \A l \in left : l.file # cur /\ l.read <= Len(files[l.file])

(* tail_file goes to sleep with no line in its buffer.                      *)
Asleep == gen = "sleeping" => ~HasLine

(* NothingSkipped is not inductive alone: a write to the open file adds     *)
(* nothing before the read position only while that lies inside the file,   *)
(* and a file is left with its lines yielded because the buffer is the end  *)
(* of what was read and holds no line while tail_file sleeps.               *)
TailInv == Types /\ InFile /\ ReadSplit /\ LeftBehind /\ Asleep /\ LeftFilesYielded

(* What a line gave is in the batch being collected or was handed to the    *)
(* engine.                                                                  *)
NothingForgotten ==
    /\ extracted \subseteq pending \cup lookedUp
    /\ drain # "asking" => pending \subseteq lookedUp

-----------------------------------------------------------------------------
LEMMA TailInitInv == Init => TailInv
  <1> SUFFICES ASSUME Init PROVE TailInv
    OBVIOUS
  <1>1. <<>> \in Seq(Bytes) /\ files \in Seq(Seq(Bytes)) /\ Len(files) = 1 /\ files[1] = <<>>
    BY EmptySeq DEF Init
  <1>2. Types
    <2>1. cur \in 1..Len(files) /\ fd \in 1..Len(files)
      BY <1>1 DEF Init
    <2>2. pos \in Nat /\ buffer \in Seq(Bytes)
      BY <1>1 DEF Init
    <2>3. truncated \in BOOLEAN /\ left = {}
      BY DEF Init
    <2> QED
      BY <1>1, <2>1, <2>2, <2>3 DEF Types
  <1>3. InFile
    BY <1>1, EmptySeq DEF Init, InFile
  <1>4. ReadSplit
    <2>1. pos = 0 /\ Len(buffer) = 0
      BY EmptySeq DEF Init
    <2>2. BufferIs(0)
      BY <2>1 DEF BufferIs
    <2> QED
      BY <2>1, <2>2 DEF ReadSplit
  <1>5. LeftBehind /\ Asleep /\ LeftFilesYielded
    BY DEF Init, LeftBehind, Asleep, LeftFilesYielded
  <1> QED
    BY <1>2, <1>3, <1>4, <1>5 DEF TailInv

(* What a step means for the invariant when it leaves the daemon alone: all *)
(* of the open file that was read, and of the files that were left, stays.  *)
LEMMA WriterStep ==
    ASSUME TailInv, Types', LeftBehind',
           UNCHANGED <<fd, pos, buffer, gen, extracted, left>>,
           ~truncated' => /\ ~truncated
                          /\ Len(files[fd]) <= Len(files'[fd])
                          /\ \A i \in 1..Len(files[fd]) : files'[fd][i] = files[fd][i],
           \A l \in left : files'[l.file] = files[l.file]
    PROVE  TailInv'
  <1>1. Len(files[fd]) \in Nat /\ (truncated' \in BOOLEAN) /\ (~truncated' => Len(files'[fd]) \in Nat)
    BY DEF TailInv, Types
  <1>2. InFile'
    <2> SUFFICES ASSUME ~truncated' PROVE pos <= Len(files'[fd])
      BY DEF InFile
    <2>1. pos \in Nat /\ pos <= Len(files[fd])
      BY DEF TailInv, Types, InFile
    <2> QED
      BY <1>1, <2>1
  <1>3. ReadSplit'
    <2> SUFFICES ASSUME ~truncated' PROVE \E n \in 0..pos : BufferIs(n)'
      BY DEF ReadSplit
    <2>1. PICK n \in 0..pos : BufferIs(n)
      BY DEF TailInv, ReadSplit
    <2>2. pos <= Len(files[fd]) /\ pos \in Nat
      BY DEF TailInv, InFile, Types
    <2>3. \A i \in 1..pos : files'[fd][i] = files[fd][i]
      BY <1>1, <2>2
    <2>4. \A i \in 1..pos - n : n + i \in 1..pos
      BY <2>2
    <2>5. \A i \in 1..n : i \in 1..pos
      BY <2>2
    <2>6. BufferIs(n)'
      BY <2>1, <2>3, <2>4, <2>5 DEF BufferIs
    <2> QED
      BY <2>6
  <1>4. Asleep'
    BY DEF TailInv, Asleep, HasLine
  <1>5. LeftFilesYielded'
    BY DEF TailInv, LeftFilesYielded
  <1> QED
    BY <1>2, <1>3, <1>4, <1>5 DEF TailInv

(* The program that writes the log and logrotate leave the daemon alone.    *)
LEMMA WriteInv == ASSUME TailInv, NEW b \in Bytes, Write(b) PROVE TailInv'
  <1>1. files' = [files EXCEPT ![cur] = Append(@, b)]
        /\ cur' = cur /\ fd' = fd /\ pos' = pos /\ buffer' = buffer /\ extracted' = extracted
        /\ truncated' = truncated /\ gen' = gen /\ left' = left
    BY DEF Write, tailVars, drainVars, history
  <1>2. files[fd] \in Seq(Bytes) /\ files[cur] \in Seq(Bytes)
    BY DEF TailInv, Types
  <1>3. files' \in Seq(Seq(Bytes)) /\ Len(files') = Len(files)
    BY <1>1, <1>2, AppendProperties, ExceptSeq DEF TailInv, Types
  <1>4. /\ files'[fd] \in Seq(Bytes) /\ Len(files[fd]) <= Len(files'[fd])
        /\ \A i \in 1..Len(files[fd]) : files'[fd][i] = files[fd][i]
    <2>1. CASE fd = cur
      BY <1>1, <1>2, <2>1, AppendProperties DEF TailInv, Types
    <2>2. CASE fd # cur
      BY <1>1, <1>2, <2>2 DEF TailInv, Types
    <2> QED
      BY <2>1, <2>2
  <1>5. Types'
    BY <1>1, <1>3 DEF TailInv, Types
  <1>6. \A l \in left : files'[l.file] = files[l.file]
    BY <1>1 DEF TailInv, Types, LeftBehind
  <1>7. LeftBehind'
    BY <1>1, <1>6 DEF TailInv, LeftBehind
  <1> QED
    BY <1>1, <1>4, <1>5, <1>6, <1>7, WriterStep

LEMMA RenameInv == ASSUME TailInv, Rename PROVE TailInv'
  <1>1. files' = Append(files, <<>>) /\ cur' = Len(files) + 1
        /\ fd' = fd /\ pos' = pos /\ buffer' = buffer /\ extracted' = extracted /\ truncated' = truncated
        /\ gen' = gen /\ left' = left
    BY DEF Rename, tailVars, drainVars, history
  <1>2. /\ files' \in Seq(Seq(Bytes)) /\ Len(files') = Len(files) + 1
        /\ \A f \in 1..Len(files) : files'[f] = files[f]
    BY <1>1, EmptySeq, AppendProperties DEF TailInv, Types
  <1>3. Len(files) \in Nat /\ files[fd] \in Seq(Bytes)
    BY DEF TailInv, Types
  <1>4. Types'
    <2>1. 1..Len(files) \subseteq 1..Len(files') /\ cur' \in 1..Len(files')
      BY <1>1, <1>2, <1>3
    <2>2. left' \subseteq [file : 1..Len(files'), read : Nat]
      BY <1>1, <2>1 DEF TailInv, Types
    <2> QED
      BY <1>1, <1>2, <2>1, <2>2 DEF TailInv, Types
  <1>5. \A l \in left : files'[l.file] = files[l.file] /\ l.file \in 1..Len(files)
    BY <1>2 DEF TailInv, Types
  <1>6. LeftBehind'
    BY <1>1, <1>3, <1>5 DEF TailInv, LeftBehind
  <1>7. files'[fd] = files[fd]
    BY <1>2 DEF TailInv, Types
  <1>8. Len(files[fd]) <= Len(files'[fd]) /\ \A i \in 1..Len(files[fd]) : files'[fd][i] = files[fd][i]
    BY <1>3, <1>7
  <1> QED
    BY <1>1, <1>4, <1>5, <1>6, <1>8, WriterStep

LEMMA TruncateInv == ASSUME TailInv, Truncate PROVE TailInv'
  <1>1. files' = [files EXCEPT ![cur] = <<>>] /\ truncated' = (truncated \/ fd = cur)
        /\ cur' = cur /\ fd' = fd /\ pos' = pos /\ buffer' = buffer /\ extracted' = extracted
        /\ gen' = gen /\ left' = left
    BY DEF Truncate, tailVars, drainVars
  <1>2. files' \in Seq(Seq(Bytes)) /\ Len(files') = Len(files)
    BY <1>1, EmptySeq, ExceptSeq DEF TailInv, Types
  <1>3. ~truncated' => ~truncated /\ files'[fd] = files[fd]
    <2>1. ~truncated' => ~truncated /\ fd # cur
      BY <1>1
    <2>2. fd # cur => files'[fd] = files[fd]
      BY <1>1 DEF TailInv, Types
    <2> QED
      BY <2>1, <2>2
  <1>4. Types'
    <2>1. truncated' \in BOOLEAN
      BY <1>1
    <2> QED
      BY <1>1, <1>2, <2>1 DEF TailInv, Types
  <1>5. \A l \in left : files'[l.file] = files[l.file]
    BY <1>1 DEF TailInv, Types, LeftBehind
  <1>6. LeftBehind'
    BY <1>1, <1>5 DEF TailInv, LeftBehind
  <1>7. Len(files[fd]) \in Nat
    BY DEF TailInv, Types
  <1>8. ~truncated' => /\ ~truncated
                       /\ Len(files[fd]) <= Len(files'[fd])
                       /\ \A i \in 1..Len(files[fd]) : files'[fd][i] = files[fd][i]
    BY <1>3, <1>7
  <1> QED
    BY <1>1, <1>4, <1>5, <1>6, <1>8, WriterStep

(* A step of the tail on the file it has open.                              *)
LEMMA TailStep ==
    ASSUME TailInv, Types', InFile', Asleep',
           UNCHANGED <<files, cur, fd, truncated, left>>, extracted \subseteq extracted',
           ~truncated => \E n \in 0..pos' : BufferIs(n)'
    PROVE  TailInv'
  <1>1. ReadSplit'
    BY DEF ReadSplit
  <1>2. LeftBehind'
    BY DEF TailInv, LeftBehind
  <1>3. LeftFilesYielded'
    BY DEF TailInv, LeftFilesYielded
  <1> QED
    BY <1>1, <1>2, <1>3 DEF TailInv

LEMMA ReadInv == ASSUME TailInv, Read PROVE TailInv'
  <1>1. /\ Available # <<>>
        /\ buffer' = buffer \o Available /\ pos' = Len(files[fd])
        /\ files' = files /\ cur' = cur /\ fd' = fd /\ extracted' = extracted
        /\ truncated' = truncated /\ left' = left /\ gen' = gen /\ gen = "active"
    BY DEF Read, Asking, fileVars, drainVars, history
  <1>2. files[fd] \in Seq(Bytes)
    BY DEF TailInv, Types
  <1>3. Available \in Seq(Bytes)
    BY <1>2, CutType DEF Available, TailInv, Types
  <1>4. buffer' \in Seq(Bytes)
    BY <1>1, <1>3, ConcatProperties DEF TailInv, Types
  <1>5. Types' /\ InFile' /\ Asleep'
    BY <1>1, <1>2, <1>4 DEF TailInv, Types, InFile, Asleep
  <1>6. ASSUME ~truncated PROVE \E n \in 0..pos' : BufferIs(n)'
    <2>1. PICK n \in 0..pos : BufferIs(n)
      BY <1>6 DEF TailInv, ReadSplit
    <2>2. pos \in Nat /\ pos <= Len(files[fd]) /\ Len(files[fd]) \in Nat /\ n \in 0..pos'
      BY <1>1, <1>2, <1>6, <2>1 DEF TailInv, Types, InFile
    <2>3. /\ Len(Available) = Len(files[fd]) - pos
          /\ \A i \in 1..Len(files[fd]) - pos : Available[i] = files[fd][pos + i]
      <3>1. pos + 1 \in Int /\ pos + 1 >= 1 /\ Len(files[fd]) - (pos + 1) + 1 = Len(files[fd]) - pos
        BY <2>2
      <3> QED
        BY <1>2, <2>2, <3>1, SubSeqProperties DEF Available
    <2>4. Len(buffer) = pos - n /\ Len(buffer') = Len(buffer) + Len(Available)
      BY <1>1, <1>3, <2>1, ConcatProperties DEF BufferIs, TailInv, Types
    <2>5. ASSUME NEW i \in 1..pos' - n PROVE buffer'[i] = files[fd][n + i]
      <3>1. CASE i <= pos - n
        <4>1. i \in 1..Len(buffer) /\ i \in 1..pos - n
          BY <2>2, <2>4, <2>5, <3>1
        <4>2. buffer'[i] = buffer[i]
          BY <1>1, <1>3, <4>1, ConcatProperties DEF TailInv, Types
        <4> QED
          BY <2>1, <4>1, <4>2 DEF BufferIs
      <3>2. CASE i > pos - n
        <4>1. i - Len(buffer) \in 1..Len(Available) /\ i = Len(buffer) + (i - Len(buffer))
              /\ pos + (i - Len(buffer)) = n + i
          BY <1>1, <2>2, <2>3, <2>4, <2>5, <3>2
        <4>2. buffer'[i] = Available[i - Len(buffer)]
          BY <1>1, <1>3, <4>1, ConcatProperties DEF TailInv, Types
        <4> QED
          BY <2>3, <4>1, <4>2
      <3> QED
        BY <2>2, <3>1, <3>2
    <2>6. Len(buffer') = pos' - n
      BY <1>1, <2>2, <2>3, <2>4
    <2>7. BufferIs(n)'
      BY <1>1, <2>1, <2>5, <2>6 DEF BufferIs
    <2> QED
      BY <2>2, <2>7
  <1> QED
    BY <1>1, <1>5, <1>6, TailStep

LEMMA YieldLineInv == ASSUME TailInv, YieldLine PROVE TailInv'
  <1> DEFINE line == SubSeq(buffer, 1, LineEnd - 1)
  <1>1. /\ buffer' = SubSeq(buffer, LineEnd + 1, Len(buffer))
        /\ extracted' = extracted \cup (ToSet(line) \cap Iocs)
        /\ files' = files /\ cur' = cur /\ fd' = fd /\ pos' = pos
        /\ truncated' = truncated /\ left' = left /\ gen' = gen /\ gen = "active"
    BY DEF YieldLine, Asking, Collect, fileVars, history
  <1>2. LineEnd \in 1..Len(buffer) /\ buffer[LineEnd] = NL
    BY FirstLine DEF YieldLine, TailInv, Types
  <1>3. buffer' \in Seq(Bytes)
    BY <1>1, <1>2, CutType DEF TailInv, Types
  <1>4. Types' /\ InFile' /\ Asleep'
    BY <1>1, <1>3 DEF TailInv, Types, InFile, Asleep
  <1>5. ASSUME ~truncated PROVE \E n \in 0..pos' : BufferIs(n)'
    <2>1. PICK n \in 0..pos : BufferIs(n)
      BY <1>5 DEF TailInv, ReadSplit
    <2>2. PICK e : e = LineEnd
      BY Zenon
    <2>3. pos \in Nat /\ n \in Nat /\ n <= pos /\ Len(buffer) = pos - n /\ e \in 1..pos - n
      BY <1>2, <2>1, <2>2 DEF TailInv, Types, BufferIs
    <2>4. n + e \in 0..pos'
      BY <1>1, <2>3
    <2>5. /\ Len(buffer') = pos - (n + e)
          /\ \A i \in 1..pos - (n + e) : buffer'[i] = buffer[e + i]
      <3>1. /\ buffer' = SubSeq(buffer, e + 1, Len(buffer))
            /\ e + 1 \in Int /\ e + 1 >= 1 /\ Len(buffer) - (e + 1) + 1 = pos - (n + e)
            /\ Len(buffer) \in Nat
        BY <1>1, <2>2, <2>3
      <3>2. buffer \in Seq(Bytes)
        BY DEF TailInv, Types
      <3> QED
        BY <2>3, <3>1, <3>2, SubSeqProperties
    <2>6. \A i \in 1..pos - (n + e) : buffer'[i] = files[fd][n + e + i]
      <3>1. \A i \in 1..pos - (n + e) : e + i \in 1..pos - n /\ n + (e + i) = n + e + i
        BY <2>3
      <3>2. \A i \in 1..pos - n : buffer[i] = files[fd][n + i]
        BY <2>1 DEF BufferIs
      <3> QED
        BY <2>5, <3>1, <3>2
    <2>7. ASSUME NEW i \in 1..n + e, files[fd][i] \in Iocs PROVE files[fd][i] \in extracted'
      <3>1. CASE i <= n
        BY <1>1, <2>1, <2>3, <2>7, <3>1 DEF BufferIs
      <3>2. CASE i > n
        <4>1. i - n \in 1..e /\ i - n \in 1..pos - n /\ n + (i - n) = i
          BY <2>3, <2>7, <3>2
        <4>2. files[fd][i] = buffer[i - n]
          BY <2>1, <4>1 DEF BufferIs
        <4>3. i - n # e
          BY <1>2, <2>2, <2>7, <4>2, WatcherAssumption
        <4>4. i - n \in 1..e - 1 /\ i - n \in 1..Len(buffer) /\ e - 1 <= Len(buffer)
          BY <2>3, <4>1, <4>3
        <4>5. i - n \in DOMAIN SubSeq(buffer, 1, e - 1) /\ SubSeq(buffer, 1, e - 1)[i - n] = buffer[i - n]
          <5>1. buffer \in Seq(Bytes) /\ e - 1 \in Int /\ e - 1 - 1 + 1 = e - 1
            BY <2>3 DEF TailInv, Types
          <5> QED
            BY <4>4, <5>1, SubSeqProperties
        <4>6. buffer[i - n] \in ToSet(line)
          BY <2>2, <4>5 DEF ToSet
        <4> QED
          BY <1>1, <2>7, <4>2, <4>6
      <3> QED
        BY <2>3, <3>1, <3>2
    <2>8. BufferIs(n + e)'
      BY <1>1, <2>5, <2>6, <2>7 DEF BufferIs
    <2> QED
      BY <2>4, <2>8
  <1> QED
    BY <1>1, <1>4, <1>5, TailStep

LEMMA YieldLongInv == ASSUME TailInv, YieldLong PROVE TailInv'
  <1>1. /\ buffer' = <<>> /\ extracted' = extracted \cup (ToSet(buffer) \cap Iocs)
        /\ files' = files /\ cur' = cur /\ fd' = fd /\ pos' = pos
        /\ truncated' = truncated /\ left' = left /\ gen' = gen /\ gen = "active"
    BY DEF YieldLong, Asking, Collect, fileVars, history
  <1>2. Types' /\ InFile' /\ Asleep'
    BY <1>1, EmptySeq DEF TailInv, Types, InFile, Asleep
  <1>3. ASSUME ~truncated PROVE \E n \in 0..pos' : BufferIs(n)'
    <2>1. PICK n \in 0..pos : BufferIs(n)
      BY <1>3 DEF TailInv, ReadSplit
    <2>2. pos \in Nat /\ Len(buffer') = 0 /\ pos - pos = 0
      BY <1>1, EmptySeq DEF TailInv, Types
    <2>3. ASSUME NEW i \in 1..pos, files[fd][i] \in Iocs PROVE files[fd][i] \in extracted'
      <3>1. CASE i <= n
        BY <1>1, <2>1, <2>3, <3>1 DEF BufferIs
      <3>2. CASE i > n
        <4>1. i - n \in 1..pos - n /\ n + (i - n) = i /\ i - n \in DOMAIN buffer
          BY <2>1, <2>2, <2>3, <3>2 DEF BufferIs, TailInv, Types
        <4>2. files[fd][i] = buffer[i - n]
          BY <2>1, <4>1 DEF BufferIs
        <4>3. buffer[i - n] \in ToSet(buffer)
          BY <4>1 DEF ToSet
        <4> QED
          BY <1>1, <2>3, <4>2, <4>3
      <3> QED
        BY <2>1, <2>2, <3>1, <3>2
    <2>4. BufferIs(pos)'
      BY <1>1, <2>2, <2>3 DEF BufferIs
    <2> QED
      BY <1>1, <2>2, <2>4
  <1> QED
    BY <1>1, <1>2, <1>3, TailStep

(* All lines that were read of a file are yielded when it is left: past     *)
(* what was yielded lies the buffer, which has no line end.                 *)
LEMMA LeavesLines ==
    ASSUME TailInv, gen = "sleeping", ~truncated,
           NEW i \in 1..pos, NEW j \in 1..pos, i < j, files[fd][j] = NL, files[fd][i] \in Iocs
    PROVE  files[fd][i] \in extracted
  <1>1. PICK n \in 0..pos : BufferIs(n)
    BY DEF TailInv, ReadSplit
  <1>2. pos \in Nat
    BY DEF TailInv, Types
  <1>3. j <= n
    <2> SUFFICES ASSUME j > n PROVE FALSE
      BY <1>2
    <2>1. j - n \in 1..pos - n /\ n + (j - n) = j /\ j - n \in DOMAIN buffer
      BY <1>1, <1>2 DEF BufferIs, TailInv, Types
    <2>2. buffer[j - n] = NL
      BY <1>1, <2>1 DEF BufferIs
    <2> QED
      BY <2>1, <2>2 DEF TailInv, Asleep, HasLine, Contains
  <1>4. i \in 1..n
    BY <1>2, <1>3
  <1> QED
    BY <1>1, <1>4 DEF BufferIs

LEMMA PollInv == ASSUME TailInv, Poll PROVE TailInv'
  <1>1. files' = files /\ cur' = cur /\ extracted' = extracted /\ gen' = "active" /\ gen = "sleeping"
    BY DEF Poll, fileVars, drainVars
  <1>2. CASE cur # fd \/ Len(files[cur]) < lastSize
    <2>1. /\ fd' = cur /\ pos' = 0 /\ buffer' = <<>> /\ truncated' = FALSE
          /\ left' = left \cup IF truncated \/ fd = cur THEN {} ELSE {[file |-> fd, read |-> pos]}
      BY <1>2 DEF Poll
    <2>2. files[cur] \in Seq(Bytes) /\ files[fd] \in Seq(Bytes) /\ <<>> \in Seq(Bytes) /\ Len(<<>>) = 0
      BY EmptySeq DEF TailInv, Types
    <2>3. left' \subseteq [file : 1..Len(files), read : Nat]
      BY <2>1 DEF TailInv, Types
    <2>4. Types'
      BY <1>1, <2>1, <2>2, <2>3 DEF TailInv, Types
    <2>5. InFile'
      <3>1. Len(files[cur]) \in Nat
        BY <2>2
      <3> QED
        BY <1>1, <2>1, <3>1 DEF InFile
    <2>6. ReadSplit'
      <3>1. BufferIs(0)'
        BY <2>1, <2>2 DEF BufferIs
      <3> QED
        BY <2>1, <3>1 DEF ReadSplit
    <2>7. ASSUME NEW l \in left', l \notin left
          PROVE  l = [file |-> fd, read |-> pos] /\ ~truncated /\ fd # cur
      BY <2>1, <2>7
    <2>8. LeftBehind'
      <3> SUFFICES ASSUME NEW l \in left' PROVE l.file # cur /\ l.read <= Len(files[l.file])
        BY <1>1 DEF LeftBehind
      <3>1. CASE l \in left
        BY <3>1 DEF TailInv, LeftBehind
      <3>2. CASE l \notin left
        BY <2>7, <3>2 DEF TailInv, InFile
      <3> QED
        BY <3>1, <3>2
    <2>9. Asleep'
      BY <1>1 DEF Asleep
    <2>10. LeftFilesYielded'
      <3> SUFFICES ASSUME NEW l \in left', NEW i \in 1..l.read, NEW j \in 1..l.read, i < j,
                          files[l.file][j] = NL, files[l.file][i] \in Iocs
                   PROVE  files[l.file][i] \in extracted
        BY <1>1 DEF LeftFilesYielded
      <3>1. CASE l \in left
        BY <3>1 DEF TailInv, LeftFilesYielded
      <3>2. CASE l \notin left
        <4>1. l.file = fd /\ l.read = pos /\ ~truncated
          BY <2>7, <3>2
        <4> QED
          BY <1>1, <4>1, LeavesLines
      <3> QED
        BY <3>1, <3>2
    <2> QED
      BY <2>4, <2>5, <2>6, <2>8, <2>9, <2>10 DEF TailInv
  <1>3. CASE ~(cur # fd \/ Len(files[cur]) < lastSize)
    <2>1. UNCHANGED <<fd, pos, buffer, truncated, left>>
      BY <1>3 DEF Poll, history
    <2>2. Types' /\ InFile' /\ Asleep'
      BY <1>1, <2>1 DEF TailInv, Types, InFile, Asleep
    <2>3. ~truncated => \E n \in 0..pos' : BufferIs(n)'
      BY <1>1, <2>1 DEF TailInv, ReadSplit, BufferIs
    <2> QED
      BY <1>1, <2>1, <2>2, <2>3, TailStep
  <1> QED
    BY <1>2, <1>3

LEMMA TailStepInv == TailInv /\ [Next]_vars => TailInv'
  <1> SUFFICES ASSUME TailInv, [Next]_vars PROVE TailInv'
    OBVIOUS
  <1>1. ASSUME UNCHANGED <<files, cur, fd, pos, buffer, extracted, history>>,
               gen' = "sleeping" => ~HasLine
        PROVE  TailInv'
    <2>1. truncated' = truncated /\ left' = left
      BY <1>1 DEF history
    <2>2. Types' /\ InFile' /\ Asleep'
      BY <1>1, <2>1 DEF TailInv, Types, InFile, Asleep, HasLine
    <2>3. ~truncated => \E n \in 0..pos' : BufferIs(n)'
      BY <1>1, <2>1 DEF TailInv, ReadSplit, BufferIs
    <2> QED
      BY <1>1, <2>1, <2>2, <2>3, TailStep
  <1>2. CASE Sleep
    BY <1>1, <1>2 DEF Sleep, fileVars, drainVars
  <1>3. CASE Timeout
    BY <1>1, <1>3 DEF Timeout, fileVars
  <1>4. CASE Exhausted \/ LookupDone \/ LookupRaises \/ UNCHANGED vars
    <2>1. UNCHANGED <<files, cur, fd, pos, buffer, extracted, history, gen>>
      BY <1>4 DEF Exhausted, LookupDone, LookupRaises, vars, fileVars, tailVars, drainVars
    <2> QED
      BY <1>1, <2>1 DEF TailInv, Asleep
  <1> QED
    BY <1>2, <1>3, <1>4, WriteInv, RenameInv, TruncateInv, ReadInv, YieldLineInv, YieldLongInv, PollInv
       DEF Next, Daemon

(* However reads, writes, rotations, yields, flushes and lookups interleave *)
(* no byte read of the open file is lost before it was yielded, unless the  *)
(* file is truncated under the reader (watcher.py:91); and of a file left   *)
(* for its successor every line that had been read was yielded. What the    *)
(* poll drops (watcher.py:110) is not covered: an unfinished line, and what *)
(* was not read of the file before it was found renamed.                    *)
THEOREM NoByteSkipped == Spec => []NothingSkipped
  <1>1. TailInv => NothingSkipped
    <2> SUFFICES ASSUME TailInv PROVE NothingSkipped
      OBVIOUS
    <2>1. OpenFileKept
      <3> SUFFICES ASSUME ~truncated, NEW i \in 1..pos, files[fd][i] \in Iocs
                   PROVE  files[fd][i] \in ToSet(buffer) \cup extracted
        BY DEF OpenFileKept
      <3>1. PICK n \in 0..pos : BufferIs(n)
        BY DEF TailInv, ReadSplit
      <3>2. pos \in Nat
        BY DEF TailInv, Types
      <3>3. CASE i <= n
        BY <3>1, <3>2, <3>3 DEF BufferIs
      <3>4. CASE i > n
        <4>1. i - n \in 1..pos - n /\ n + (i - n) = i /\ i - n \in DOMAIN buffer
          BY <3>1, <3>2, <3>4 DEF BufferIs, TailInv, Types
        <4>2. files[fd][i] = buffer[i - n]
          BY <3>1, <4>1 DEF BufferIs
        <4> QED
          BY <4>1, <4>2 DEF ToSet
      <3> QED
        BY <3>1, <3>2, <3>3, <3>4
    <2> QED
      BY <2>1 DEF NothingSkipped, TailInv
  <1> QED
    BY <1>1, TailInitInv, TailStepInv, PTL DEF Spec

-----------------------------------------------------------------------------
LEMMA ForgottenStep == NothingForgotten /\ [Next]_vars => NothingForgotten'
  <1> SUFFICES ASSUME NothingForgotten, [Next]_vars PROVE NothingForgotten'
    OBVIOUS
  <1> USE DEF NothingForgotten
  <1>1. ASSUME UNCHANGED drainVars PROVE NothingForgotten'
    BY <1>1 DEF drainVars
  <1>2. CASE (\E b \in Bytes : Write(b)) \/ Rename \/ Truncate \/ Read \/ Sleep \/ Poll \/ UNCHANGED vars
    BY <1>1, <1>2 DEF Write, Rename, Truncate, Read, Sleep, Poll, vars
  <1>3. ASSUME NEW line, drain = "asking", Collect(line) PROVE NothingForgotten'
    BY <1>3 DEF Collect
  <1>4. CASE YieldLine \/ YieldLong
    BY <1>3, <1>4 DEF YieldLine, YieldLong, Asking
  <1>5. CASE Timeout \/ Exhausted
    BY <1>5 DEF Timeout, Exhausted, Flush
  <1>6. CASE LookupDone \/ LookupRaises
    BY <1>6 DEF LookupDone, LookupRaises
  <1> QED
    BY <1>2, <1>4, <1>5, <1>6 DEF Next, Daemon

(* The IOCs of the lines that were yielded are in the batch that is being   *)
(* collected or were handed to the engine, whichever of a full batch, a     *)
(* quiet period and the end of the tail sends it (watcher.py:145).          *)
THEOREM BatchesComplete == Spec => []NothingForgotten
  <1>1. Init => NothingForgotten
    BY DEF Init, NothingForgotten
  <1> QED
    BY <1>1, ForgottenStep, PTL DEF Spec
=============================================================================
