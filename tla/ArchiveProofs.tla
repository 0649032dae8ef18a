--------------------------- MODULE ArchiveProofs ---------------------------
(* Proofs about the archive walk, for any files, limits and failures.       *)
EXTENDS ArchiveWalk, SetLemmas, FiniteSetTheorems, SequenceTheorems, TLAPS

-----------------------------------------------------------------------------
(* Numbers.                                                                 *)

LEMMA MinOfTwo ==
    ASSUME NEW a \in Nat, NEW b \in Nat
    PROVE  Min({a, b}) \in {a, b} /\ Min({a, b}) \in Nat /\ Min({a, b}) <= a /\ Min({a, b}) <= b
  <1>1. \E x \in {a, b} : \A y \in {a, b} : x =< y
    OBVIOUS
  <1> QED
    BY <1>1 DEF Min

LEMMA OneOrMore ==
    ASSUME NEW n \in Nat, n # 0
    PROVE  n = 1 \/ (n > 1 /\ n - 1 \in Nat /\ n - 1 # 0 /\ 1 \in 1..(n - 1) /\ 1 \in 1..n)
  OBVIOUS

LEMMA WorseOfTwo ==
    ASSUME NEW s \in Severities, NEW t \in Severities
    PROVE  Worse(s, t) \in {s, t} \cap Severities /\ Worse(s, t) >= s /\ Worse(s, t) >= t
  <1>1. \E x \in {s, t} : \A y \in {s, t} : x >= y
    BY DEF Severities, NONE, INFO, MEDIUM, HIGH, CRITICAL
  <1>2. Worse(s, t) \in {s, t} /\ \A y \in {s, t} : Worse(s, t) >= y
    BY <1>1 DEF Worse, Max
  <1> QED
    BY <1>2

LEMMA WorstOfFour ==
    ASSUME NEW s \in Severities, NEW t \in Severities, NEW u \in Severities, NEW v \in Severities
    PROVE  Max({s, t, u, v}) \in Severities /\ Max({s, t, u, v}) >= s
  <1>1. \E x \in {s, t, u, v} : \A y \in {s, t, u, v} : x >= y
    BY DEF Severities, NONE, INFO, MEDIUM, HIGH, CRITICAL
  <1>2. Max({s, t, u, v}) \in {s, t, u, v} /\ \A y \in {s, t, u, v} : Max({s, t, u, v}) >= y
    BY <1>1 DEF Max
  <1> QED
    BY <1>2

(* What a member's verdict adds keeps its order, and is kept when it is     *)
(* graded again one level further out.                                      *)
LEMMA GradedFacts ==
    ASSUME NEW s \in Severities
    PROVE  /\ Graded(s) \in {NONE, MEDIUM, HIGH}
           /\ Graded(s) \in Severities
           /\ Graded(Graded(s)) = Graded(s)
           /\ \A t \in Severities : t >= s => Graded(t) >= Graded(s)
  BY DEF Graded, Verdict, Severities, NONE, INFO, MEDIUM, HIGH, CRITICAL

-----------------------------------------------------------------------------
(* The stack.  Its frames have all their fields, of which the proofs need   *)
(* four; what the lists of IOCs hold comes later.                           *)

Fields == {"file", "got", "phase", "next", "members", "severity", "iocs", "encrypted", "executable"}

FrameOK(frame) ==
    /\ frame = [x \in Fields |-> frame[x]]
    /\ frame.file \in Files
    /\ frame.next \in Nat \ {0}
    /\ frame.members \in Seq(Entry \X Nat)
    /\ frame.severity \in Severities

LEMMA FrameRead ==
    ASSUME NEW frame, FrameOK(frame), NEW next \in Nat \ {0}, NEW more \in Seq(Entry \X Nat)
    PROVE  /\ FrameOK([frame EXCEPT !.next = next, !.members = more])
           /\ [frame EXCEPT !.next = next, !.members = more].file = frame.file
           /\ [frame EXCEPT !.next = next, !.members = more].severity = frame.severity
           /\ [frame EXCEPT !.next = next, !.members = more].iocs = frame.iocs
  BY DEF FrameOK, Fields

Unpacked(frame, executable, encrypted) ==
    [frame EXCEPT !.members = Tail(@), !.executable = executable, !.encrypted = encrypted]

LEMMA FrameUnpacked ==
    ASSUME NEW frame, FrameOK(frame), frame.members # <<>>, NEW executable, NEW encrypted
    PROVE  LET unpacked == Unpacked(frame, executable, encrypted)
           IN  /\ FrameOK(unpacked) /\ unpacked.file = frame.file /\ unpacked.severity = frame.severity
               /\ unpacked.iocs = frame.iocs
  <1>1. Tail(frame.members) \in Seq(Entry \X Nat)
    BY DEF FrameOK
  <1> QED
    BY <1>1 DEF FrameOK, Fields, Unpacked

Bombed(frame) == [frame EXCEPT !.severity = Worse(@, HIGH)]

LEMMA FrameBombed ==
    ASSUME NEW frame, FrameOK(frame)
    PROVE  /\ FrameOK(Bombed(frame)) /\ Bombed(frame).file = frame.file
           /\ Bombed(frame).severity >= frame.severity /\ Bombed(frame).iocs = frame.iocs
  <1> DEFINE worse == Worse(frame.severity, HIGH)
  <1>1. worse \in Severities /\ worse >= frame.severity
    <2>1. frame.severity \in Severities /\ HIGH \in Severities
      BY DEF FrameOK, Severities
    <2> QED
      BY <2>1, WorseOfTwo
  <1>2. Bombed(frame) = [frame EXCEPT !.severity = worse]
    BY DEF Bombed
  <1> HIDE DEF worse
  <1> QED
    BY <1>1, <1>2 DEF FrameOK, Fields

StackOK(calls) == \E S : calls \in Seq(S) /\ \A frame \in S : FrameOK(frame)

LEMMA NewFrameOK ==
    ASSUME NEW f \in Files, NEW got
    PROVE  FrameOK(NewFrame(f, got)) /\ NewFrame(f, got).severity = NONE /\ NewFrame(f, got).iocs = <<>>
  BY DEF FrameOK, Fields, NewFrame, Severities

LEMMA StackFrames ==
    ASSUME NEW calls, StackOK(calls)
    PROVE  /\ Len(calls) \in Nat /\ DOMAIN calls = 1..Len(calls)
           /\ \A n \in DOMAIN calls : FrameOK(calls[n])
           /\ calls # <<>> => Len(calls) \in DOMAIN calls /\ FrameOK(Last(calls))
  BY DEF StackOK, Last

LEMMA Pushed ==
    ASSUME NEW calls, StackOK(calls), NEW frame, FrameOK(frame)
    PROVE  /\ StackOK(Append(calls, frame))
           /\ Len(Append(calls, frame)) = Len(calls) + 1
           /\ \A n \in DOMAIN calls : n \in DOMAIN Append(calls, frame) /\ Append(calls, frame)[n] = calls[n]
           /\ Append(calls, frame)[Len(calls) + 1] = frame
           /\ Append(calls, frame) # <<>>
  <1>1. PICK S : calls \in Seq(S) /\ \A f \in S : FrameOK(f)
    BY DEF StackOK
  <1>2. calls \in Seq(S \cup {frame}) /\ \A f \in S \cup {frame} : FrameOK(f)
    BY <1>1
  <1>3. Append(calls, frame) \in Seq(S \cup {frame})
    BY <1>2
  <1> QED
    BY <1>2, <1>3, AppendProperties DEF StackOK

OneLess(rest, calls) ==
    /\ StackOK(rest)
    /\ Len(rest) = Len(calls) - 1
    /\ \A i \in 1..(Len(calls) - 1) : i \in DOMAIN rest /\ rest[i] = calls[i]

LEMMA Shortened ==
    ASSUME NEW calls, StackOK(calls), calls # <<>>
    PROVE  OneLess(Front(calls), calls)
  <1>1. PICK S : calls \in Seq(S) /\ \A f \in S : FrameOK(f)
    BY DEF StackOK
  <1>2. Len(calls) \in Nat /\ Len(calls) > 0
    BY <1>1
  <1> DEFINE n == Len(calls) - 1
  <1>3. n \in Nat /\ n \in Int /\ 1 \in Int /\ \A i \in 1..n : calls[i] \in S
    BY <1>1, <1>2
  <1>4. Front(calls) = SubSeq(calls, 1, n)
    BY DEF Front
  <1> HIDE DEF n
  <1>5. /\ Front(calls) \in Seq(S)
        /\ Len(Front(calls)) = IF 1 <= n THEN n - 1 + 1 ELSE 0
        /\ \A i \in 1..(n - 1 + 1) : Front(calls)[i] = calls[1 + i - 1]
    <2>1. /\ SubSeq(calls, 1, n) \in Seq(S)
          /\ Len(SubSeq(calls, 1, n)) = IF 1 <= n THEN n - 1 + 1 ELSE 0
          /\ \A i \in 1..(n - 1 + 1) : SubSeq(calls, 1, n)[i] = calls[1 + i - 1]
      BY <1>3, SubSeqProperties
    <2> QED
      BY <2>1, <1>4, Zenon
  <1>6. Len(Front(calls)) = n
    BY <1>3, <1>5
  <1>7. \A i \in 1..n : Front(calls)[i] = calls[i]
    BY <1>3, <1>5
  <1>8. StackOK(Front(calls))
    BY <1>1, <1>5 DEF StackOK
  <1>9. DOMAIN Front(calls) = 1..n
    BY <1>5, <1>6
  <1> QED
    BY <1>6, <1>7, <1>8, <1>9 DEF n, OneLess

LEMMA TopReplaced ==
    ASSUME StackOK(stack), stack # <<>>, NEW frame, FrameOK(frame)
    PROVE  /\ StackOK(SetTop(frame)) /\ SetTop(frame) # <<>>
           /\ Len(SetTop(frame)) = Len(stack)
           /\ \A n \in 1..(Len(stack) - 1) : SetTop(frame)[n] = stack[n]
           /\ SetTop(frame)[Len(stack)] = frame
  <1> DEFINE rest == Front(stack)
  <1>0. Len(stack) \in Nat /\ Len(stack) > 0 /\ OneLess(rest, stack)
    BY Shortened, StackFrames
  <1>1. Len(stack) \in Nat /\ Len(stack) > 0 /\ StackOK(rest) /\ Len(rest) = Len(stack) - 1
    BY <1>0 DEF OneLess
  <1>2. \A n \in 1..(Len(stack) - 1) : n \in DOMAIN rest /\ rest[n] = stack[n]
    BY <1>0 DEF OneLess
  <1>3. SetTop(frame) = Append(rest, frame)
    BY DEF SetTop
  <1> HIDE DEF rest
  <1>4. /\ StackOK(Append(rest, frame)) /\ Append(rest, frame) # <<>>
        /\ Len(Append(rest, frame)) = Len(rest) + 1
        /\ \A n \in DOMAIN rest : Append(rest, frame)[n] = rest[n]
        /\ Append(rest, frame)[Len(rest) + 1] = frame
    BY <1>1, Pushed
  <1> QED
    BY <1>1, <1>2, <1>3, <1>4

-----------------------------------------------------------------------------
(* Reading.                                                                 *)

(* No extractor looks past the entries of its archive.                      *)
LEMMA ListedBound ==
    ASSUME NEW frame, frame.file \in Archives
    PROVE  Listed(frame) \in Nat /\ Listed(frame) <= Len(Members[frame.file])
  <1> DEFINE f == frame.file
             entries == {i \in DOMAIN Members[f] : Kind[f] = "tar" => Offset(f, i) < frame.got}
  <1>1. Members[f] \in Seq(Entry) /\ Len(Members[f]) \in Nat /\ DOMAIN Members[f] = 1..Len(Members[f])
    BY ArchiveAssumption DEF Archives
  <1>2. IsFiniteSet(1..Len(Members[f])) /\ Cardinality(1..Len(Members[f])) = Len(Members[f])
    BY <1>1, FS_Interval
  <1>3. Cardinality(entries) \in Nat /\ Cardinality(entries) <= Len(Members[f])
    BY <1>1, <1>2, FS_Subset, FS_CardinalityType
  <1>4. CASE health[<<f, 0>>] = "corrupt" \/ (Kind[f] = "zip" /\ IsCut(frame))
    BY <1>1, <1>4 DEF Listed
  <1>5. CASE ~(health[<<f, 0>>] = "corrupt" \/ (Kind[f] = "zip" /\ IsCut(frame)))
    <2>1. Listed(frame) = Min({MaxMembers, Cardinality(entries)})
      BY <1>5 DEF Listed
    <2>2. MaxMembers \in Nat
      BY ArchiveAssumption
    <2>3. Min({MaxMembers, Cardinality(entries)}) \in Nat /\ Min({MaxMembers, Cardinality(entries)}) <= Cardinality(entries)
      BY <1>3, <2>2, MinOfTwo
    <2> HIDE DEF entries
    <2> QED
      BY <1>1, <1>3, <2>1, <2>3
  <1> QED
    BY <1>4, <1>5

(* Reading gives at most what the cap allows.                               *)
LEMMA ReadableBound ==
    ASSUME NEW frame, frame.file \in Archives, NEW i \in 1..Len(Members[frame.file]), NEW cap \in Nat,
           NEW got \in Readable(frame, i, cap)
    PROVE  got \in Nat /\ got <= cap
  <1> DEFINE entry == Members[frame.file][i]
             whole == Min({Size[entry.file], cap})
  <1>1. entry \in Entry
    BY ArchiveAssumption DEF Archives
  <1>2. Size[entry.file] \in Nat
    BY <1>1, ArchiveAssumption DEF Entry
  <1>3. whole \in Nat /\ whole <= cap
    BY <1>2, MinOfTwo
  <1>4. got = 0 \/ got \in 0..whole \/ got = whole
    BY DEF Readable
  <1> HIDE DEF whole
  <1> QED
    BY <1>3, <1>4

LEMMA MostReadable ==
    ASSUME NEW frame, frame.file \in Archives, NEW i \in 1..Len(Members[frame.file]), NEW cap \in Nat
    PROVE  Max(Readable(frame, i, cap)) \in Nat /\ Max(Readable(frame, i, cap)) <= cap
  <1> DEFINE all == Readable(frame, i, cap)
             whole == Min({Size[Members[frame.file][i].file], cap})
  <1>1. \A got \in all : got \in Nat /\ got <= cap
    BY ReadableBound
  <1>2. 0 \in all \/ whole \in all
    <2>1. whole \in Nat
      <3>1. Members[frame.file][i] \in Entry
        BY ArchiveAssumption DEF Archives
      <3>2. Size[Members[frame.file][i].file] \in Nat
        BY <3>1, ArchiveAssumption DEF Entry
      <3> QED
        BY <3>2, MinOfTwo
    <2>2. all \in {{0}, 0..whole, {whole}}
      BY DEF Readable
    <2> HIDE DEF whole, all
    <2> QED
      BY <2>1, <2>2
  <1> HIDE DEF all
  <1>3. PICK most \in all : \A got \in all : got <= most
    <2>1. all \subseteq Nat /\ all # {}
      BY <1>1, <1>2
    <2> QED
      BY <1>1, <2>1, GreatestBounded
  <1>4. Max(all) \in all
    <2>1. \A got \in all : most >= got
      BY <1>1, <1>3
    <2> QED
      BY <2>1 DEF Max
  <1> QED
    BY <1>1, <1>4 DEF all

-----------------------------------------------------------------------------
(* Steps that several actions share.                                        *)

(* A running walk has a buffer under analysis, and no byte is unaccounted   *)
(* for.                                                                     *)
WalkInv ==
    /\ TypeOK
    /\ StackOK(stack)
    /\ status = "running" => stack # <<>>
    /\ kept + budget = MaxTotal

LEMMA RunningTop ==
    ASSUME WalkInv, status = "running"
    PROVE  /\ FrameOK(Top) /\ Top = stack[Len(stack)]
           /\ stack # <<>> /\ Len(stack) \in Nat \ {0} /\ DOMAIN stack = 1..Len(stack)
  <1>1. StackOK(stack) /\ stack # <<>>
    BY DEF WalkInv
  <1>2. Len(stack) \in Nat /\ DOMAIN stack = 1..Len(stack) /\ Len(stack) \in DOMAIN stack /\ FrameOK(Last(stack))
    BY <1>1, StackFrames
  <1> QED
    BY <1>1, <1>2 DEF Top, Last

(* What the type invariant says of the stack is in FrameOK.                 *)
LEMMA StackTyped ==
    ASSUME NEW calls, StackOK(calls)
    PROVE  \A n \in DOMAIN calls : calls[n].file \in Files /\ calls[n].severity \in Severities
  BY StackFrames DEF FrameOK

LEMMA EmptyStack == StackOK(<<>>) /\ Len(<<>>) = 0
  <1> DEFINE none == {}
  <1>1. <<>> \in Seq(none) /\ \A frame \in none : FrameOK(frame)
    OBVIOUS
  <1> HIDE DEF none
  <1>2. StackOK(<<>>)
    BY <1>1 DEF StackOK
  <1> QED
    BY <1>2

(* A call returns: the walk is done, or the calling archive's frame is on   *)
(* top, as bad as before or as what has come back.                          *)
LEMMA Returned ==
    ASSUME StackOK(stack), stack # <<>>, NEW severity \in Severities, NEW iocs, NEW exhausted,
           Return(severity, iocs, exhausted)
    PROVE  \/ /\ status' = "done" /\ stack' = <<>> /\ Len(stack) = 1
              /\ report'.severity = severity /\ report'.iocs = iocs
           \/ /\ status' = status /\ report' = report
              /\ StackOK(stack') /\ stack' # <<>> /\ Len(stack') = Len(stack) - 1
              /\ \A n \in 1..(Len(stack) - 2) : stack'[n] = stack[n]
              /\ stack[Len(stack) - 1].severity \in Severities
              /\ stack'[Len(stack) - 1].file = stack[Len(stack) - 1].file
              /\ stack'[Len(stack) - 1].severity = Worse(stack[Len(stack) - 1].severity, Graded(severity))
              /\ stack'[Len(stack) - 1].iocs = Merged(stack[Len(stack) - 1].iocs, iocs)
  <1>1. Len(stack) \in Nat \ {0} /\ DOMAIN stack = 1..Len(stack)
    BY StackFrames
  <1>2. CASE Len(stack) = 1
    BY <1>2 DEF Return
  <1>3. CASE Len(stack) # 1
    <2> DEFINE outer == stack[Len(stack) - 1]
               told == [outer EXCEPT !.severity = Worse(@, Graded(severity)), !.iocs = Merged(@, iocs)]
               front == Front(stack)
               rest == Front(front)
    <2>1. Len(stack) - 1 \in DOMAIN stack /\ FrameOK(outer)
      BY <1>1, <1>3, StackFrames
    <2>2. Worse(outer.severity, Graded(severity)) \in Severities
      BY <2>1, WorseOfTwo, GradedFacts DEF FrameOK
    <2>3. /\ FrameOK(told) /\ told.severity = Worse(outer.severity, Graded(severity))
          /\ told.file = outer.file /\ told.iocs = Merged(outer.iocs, iocs)
      BY <2>1, <2>2 DEF FrameOK, Fields
    <2>4. OneLess(front, stack)
      BY Shortened, Zenon DEF OneLess
    <2>5. front # <<>>
      <3>1. Len(front) # 0
        BY <1>1, <1>3, <2>4 DEF OneLess
      <3> QED
        BY <3>1, EmptyStack
    <2>6. OneLess(rest, front)
      BY <2>4, <2>5, Shortened, Zenon DEF OneLess
    <2>7. stack' = Append(rest, told) /\ status' = status /\ report' = report
      BY <1>3 DEF Return
    <2> HIDE DEF front, rest, told
    <2>8. /\ StackOK(rest) /\ Len(rest) = Len(stack) - 2
          /\ \A n \in 1..(Len(stack) - 2) : n \in DOMAIN rest /\ rest[n] = stack[n]
      BY <1>1, <2>4, <2>6 DEF OneLess
    <2>9. /\ StackOK(stack') /\ stack' # <<>>
          /\ Len(stack') = Len(rest) + 1
          /\ \A n \in DOMAIN rest : stack'[n] = rest[n]
          /\ stack'[Len(rest) + 1] = told
      <3>1. StackOK(rest) /\ FrameOK(told)
        BY <2>3, <2>8
      <3> QED
        BY <3>1, <2>7, Pushed
    <2>10. outer.severity \in Severities
      BY <2>1 DEF FrameOK
    <2> QED
      BY <1>1, <1>3, <2>3, <2>7, <2>8, <2>9, <2>10
  <1> QED
    BY <1>2, <1>3

(* What a step has to keep, apart from what it leaves alone.                *)
Keeps ==
    /\ UNCHANGED input
    /\ StackOK(stack') /\ Len(stack') <= MaxDepth + 1
    /\ status' \in {"running", "done", "raised"}
    /\ status' = "running" => stack' # <<>>
    /\ budget' \in 0..MaxTotal /\ kept' \in Nat /\ kept' + budget' = MaxTotal
    /\ report'.severity \in Severities
    /\ short' \in BOOLEAN

LEMMA Kept ==
    ASSUME WalkInv, Keeps
    PROVE  WalkInv'
  <1>1. \A n \in DOMAIN stack' : stack'[n].file \in Files /\ stack'[n].severity \in Severities
    BY StackTyped DEF Keeps
  <1>2. health' \in [Places -> Healths] /\ grade' \in [Leaves -> Severities]
    BY DEF Keeps, WalkInv, TypeOK, input
  <1>3. TypeOK'
    BY <1>1, <1>2 DEF Keeps, TypeOK
  <1> QED
    BY <1>3 DEF Keeps, WalkInv

(* A call that returns.                                                     *)
LEMMA ReturnKeeps ==
    ASSUME WalkInv, status = "running", NEW severity \in Severities, NEW iocs, NEW exhausted,
           Return(severity, iocs, exhausted), UNCHANGED <<input, budget, kept, short>>
    PROVE  WalkInv'
  <1>1. StackOK(stack) /\ stack # <<>> /\ Len(stack) \in Nat /\ Len(stack) <= MaxDepth + 1
    BY RunningTop DEF WalkInv, TypeOK
  <1>2. /\ UNCHANGED input
        /\ budget' \in 0..MaxTotal /\ kept' \in Nat /\ kept' + budget' = MaxTotal /\ short' \in BOOLEAN
    BY DEF WalkInv, TypeOK
  <1>3. CASE status' = "done" /\ stack' = <<>> /\ report'.severity = severity
    <2>1. StackOK(stack') /\ Len(stack') = 0
      BY <1>3, EmptyStack
    <2>2. 0 <= MaxDepth + 1
      BY ArchiveAssumption
    <2>3. Keeps
      BY <1>2, <1>3, <2>1, <2>2 DEF Keeps
    <2> QED
      BY <2>3, Kept
  <1>4. CASE /\ status' = status /\ report' = report
             /\ StackOK(stack') /\ stack' # <<>> /\ Len(stack') = Len(stack) - 1
    <2>1. Len(stack') <= MaxDepth + 1
      BY <1>1, <1>4, ArchiveAssumption
    <2>2. report'.severity \in Severities /\ status' = "running"
      BY <1>4 DEF WalkInv, TypeOK
    <2>3. Keeps
      BY <1>2, <1>4, <2>1, <2>2 DEF Keeps
    <2> QED
      BY <2>3, Kept
  <1> QED
    BY <1>1, <1>3, <1>4, Returned

(* A step that puts another frame on top and may take some of the budget.   *)
LEMMA TopKeeps ==
    ASSUME WalkInv, status = "running", NEW frame, FrameOK(frame), stack' = SetTop(frame),
           UNCHANGED <<input, status, report>>, short' \in BOOLEAN,
           NEW got \in Nat, got <= budget, budget' = budget - got, kept' = kept + got
    PROVE  WalkInv'
  <1>1. StackOK(stack) /\ stack # <<>> /\ Len(stack) <= MaxDepth + 1
    BY RunningTop DEF WalkInv, TypeOK
  <1>2. StackOK(stack') /\ stack' # <<>> /\ Len(stack') <= MaxDepth + 1
    BY <1>1, TopReplaced
  <1>3. budget' \in 0..MaxTotal /\ kept' \in Nat /\ kept' + budget' = MaxTotal
    BY ArchiveAssumption DEF WalkInv, TypeOK
  <1>4. report'.severity \in Severities /\ status' = "running"
    BY DEF WalkInv, TypeOK
  <1>5. Keeps
    BY <1>2, <1>3, <1>4 DEF Keeps
  <1> QED
    BY <1>5, Kept

-----------------------------------------------------------------------------
(* The invariant holds of the first state and is kept by every step.        *)

LEMMA WalkInit == Init => WalkInv
  <1> SUFFICES ASSUME Init PROVE WalkInv
    OBVIOUS
  <1>1. PICK f \in Roots : stack = <<NewFrame(f, Size[f])>>
    BY DEF Init
  <1>2. FrameOK(NewFrame(f, Size[f]))
    BY <1>1, NewFrameOK, ArchiveAssumption
  <1> DEFINE frame == NewFrame(f, Size[f])
  <1>3. stack = <<frame>>
    BY <1>1
  <1>4. FrameOK(frame)
    BY <1>2
  <1> HIDE DEF frame
  <1>5. stack = Append(<<>>, frame)
    BY <1>3
  <1>6. StackOK(stack) /\ Len(stack) = 1 /\ stack # <<>>
    <2>1. StackOK(Append(<<>>, frame)) /\ Append(<<>>, frame) # <<>>
      BY <1>4, EmptyStack, Pushed, Zenon
    <2> QED
      BY <1>3, <1>5, <2>1
  <1>7. health \in [Places -> Healths]
    BY DEF Init, Healths
  <1>8. grade \in [Leaves -> Severities]
    BY DEF Init, Severities
  <1>9. /\ budget = MaxTotal /\ status = "running" /\ kept = 0 /\ short = FALSE
        /\ report.severity \in Severities
    BY DEF Init, NoReport, Severities
  <1>10. \A n \in DOMAIN stack : stack[n].file \in Files /\ stack[n].severity \in Severities
    BY <1>6, StackTyped
  <1>11. TypeOK
    <2>1. budget \in 0..MaxTotal /\ kept \in Nat /\ Len(stack) <= MaxDepth + 1
      BY <1>6, <1>9, ArchiveAssumption
    <2>2. short \in BOOLEAN /\ status \in {"running", "done", "raised"}
      BY <1>9
    <2> QED
      BY <1>7, <1>8, <1>9, <1>10, <2>1, <2>2, Zenon DEF TypeOK
  <1> QED
    BY <1>6, <1>9, <1>11, ArchiveAssumption DEF WalkInv

(* A read advances the frame on top, and takes what is there.               *)
LEMMA ReadEntryTop ==
    ASSUME WalkInv, ReadEntry
    PROVE  \E frame, got :
              /\ FrameOK(frame) /\ frame.file = Top.file /\ frame.severity = Top.severity
              /\ frame.iocs = Top.iocs /\ stack' = SetTop(frame)
              /\ got \in Nat /\ got <= budget /\ budget' = budget - got /\ kept' = kept + got
              /\ short' => short \/ got = budget
  <1> DEFINE f == Top.file
             entry == Members[f][Top.next]
  <1>1. /\ status = "running" /\ f \in Archives
        /\ FrameOK(Top) /\ Top.next \in Nat \ {0} /\ Top.members \in Seq(Entry \X Nat)
    BY RunningTop DEF ReadEntry, Reading, FrameOK
  <1>2. Top.next \in 1..Len(Members[f])
    <2>1. Top.next <= Listed(Top) /\ Listed(Top) \in Nat /\ Listed(Top) <= Len(Members[f])
      BY <1>1, ListedBound DEF ReadEntry, HasEntry
    <2>2. Len(Members[f]) \in Nat
      BY <1>1, ArchiveAssumption
    <2> QED
      BY <1>1, <2>1, <2>2
  <1>3. entry \in Entry
    BY <1>1, <1>2, ArchiveAssumption
  <1>4. Cap \in Nat /\ Cap <= budget /\ budget \in Nat
    <2>1. MaxMember \in Nat /\ budget \in Nat
      BY ArchiveAssumption DEF WalkInv, TypeOK
    <2> QED
      BY <2>1, MinOfTwo DEF Cap
  <1>5. PICK got \in Readable(Top, Top.next, Cap) :
           /\ budget' = budget - got
           /\ kept' = kept + got
           /\ stack' = SetTop([Top EXCEPT
                  !.next = @ + 1,
                  !.members = IF Kind[Top.file] = "stream" /\ got = 0 THEN @
                              ELSE Append(@, <<Members[Top.file][Top.next], got>>)])
           /\ short' = (short \/ (got = Cap /\ Max(Readable(Top, Top.next, MaxMember)) > Cap))
    BY DEF ReadEntry
  <1>6. got \in Nat /\ got <= Cap
    BY <1>1, <1>2, <1>4, ReadableBound
  <1> DEFINE more == IF Kind[Top.file] = "stream" /\ got = 0 THEN Top.members
                     ELSE Append(Top.members, <<entry, got>>)
             frame == [Top EXCEPT !.next = @ + 1, !.members = more]
  <1>7. more \in Seq(Entry \X Nat)
    BY <1>1, <1>3, <1>6
  <1>8. stack' = SetTop(frame)
    BY <1>5
  <1> HIDE DEF more
  <1>9. FrameOK(frame) /\ frame.file = Top.file /\ frame.severity = Top.severity /\ frame.iocs = Top.iocs
    <2>1. Top.next + 1 \in Nat \ {0}
      BY <1>1
    <2> QED
      BY <1>1, <1>7, <2>1, FrameRead, ZenonT(30)
  <1>10. got <= budget
    BY <1>4, <1>6
  <1>11. short' => short \/ got = budget
    <2> SUFFICES ASSUME got = Cap, Max(Readable(Top, Top.next, MaxMember)) > Cap
                 PROVE  got = budget
      BY <1>5
    <2>1. MaxMember \in Nat
      BY ArchiveAssumption
    <2>2. Max(Readable(Top, Top.next, MaxMember)) \in Nat /\ Max(Readable(Top, Top.next, MaxMember)) <= MaxMember
      BY <1>1, <1>2, <2>1, MostReadable
    <2>3. Cap \in {MaxMember, budget}
      BY <1>4, <2>1, MinOfTwo DEF Cap
    <2> QED
      BY <1>4, <2>1, <2>2, <2>3
  <1> HIDE DEF frame
  <1> QED
    BY <1>5, <1>6, <1>8, <1>9, <1>10, <1>11

LEMMA ReadEntryKeeps ==
    ASSUME WalkInv, ReadEntry
    PROVE  WalkInv'
  <1>1. PICK frame, got :
           /\ FrameOK(frame) /\ stack' = SetTop(frame)
           /\ got \in Nat /\ got <= budget /\ budget' = budget - got /\ kept' = kept + got
    BY ReadEntryTop
  <1>2. status = "running" /\ short' \in BOOLEAN /\ UNCHANGED <<input, status, report>>
    BY DEF ReadEntry, Reading
  <1> QED
    BY <1>1, <1>2, TopKeeps

LEMMA StopReadingKeeps ==
    ASSUME WalkInv, StopReading
    PROVE  WalkInv'
  <1> DEFINE frame == [Top EXCEPT !.phase = "visit"]
  <1>1. status = "running" /\ FrameOK(Top)
    BY RunningTop DEF StopReading, Reading
  <1>2. FrameOK(frame)
    BY <1>1 DEF FrameOK, Fields
  <1>3. stack' = SetTop(frame) /\ UNCHANGED <<input, status, report>> /\ short' \in BOOLEAN
    BY DEF StopReading
  <1>4. 0 \in Nat /\ 0 <= budget /\ budget' = budget - 0 /\ kept' = kept + 0
    BY DEF StopReading, WalkInv, TypeOK
  <1> HIDE DEF frame
  <1> QED
    BY <1>1, <1>2, <1>3, <1>4, TopKeeps

LEMMA ReadRaisesKeeps ==
    ASSUME WalkInv, ReadRaises
    PROVE  WalkInv'
  <1>1. UNCHANGED <<input, budget, report, kept, short>> /\ status' = "raised" /\ stack' = <<>>
    BY DEF ReadRaises, history
  <1>2. StackOK(stack') /\ Len(stack') = 0 /\ 0 <= MaxDepth + 1
    BY <1>1, EmptyStack, ArchiveAssumption
  <1>3. Keeps
    BY <1>1, <1>2 DEF Keeps, WalkInv, TypeOK
  <1> QED
    BY <1>3, Kept

(* A visit changes the frame on top, and may push one for the member.       *)
LEMMA VisitMemberTop ==
    ASSUME WalkInv, VisitMember
    PROVE  \E frame, inner :
              /\ FrameOK(frame) /\ frame.file = Top.file /\ frame.severity >= Top.severity
              /\ FrameOK(inner) /\ inner.severity = NONE
              /\ frame.iocs = Top.iocs /\ inner.iocs = <<>>
              /\ stack' = SetTop(frame) \/ stack' = Append(SetTop(frame), inner)
  <1> DEFINE entry == Head(Top.members)[1]
             got == Head(Top.members)[2]
             unpacked == Unpacked(Top, Top.executable \/ entry.executable, Top.encrypted \/ entry.encrypted)
             bomb == Bombed(unpacked)
             inner == NewFrame(entry.file, got)
  <1>1. /\ FrameOK(Top) /\ Top.members # <<>> /\ Top.members \in Seq(Entry \X Nat)
        /\ Top.severity \in Severities
    BY RunningTop DEF VisitMember, Visiting, FrameOK
  <1>2. /\ FrameOK(unpacked) /\ unpacked.file = Top.file /\ unpacked.severity = Top.severity
        /\ FrameOK(bomb) /\ bomb.file = Top.file /\ bomb.severity >= Top.severity
        /\ unpacked.iocs = Top.iocs /\ bomb.iocs = Top.iocs
    <2>1. /\ FrameOK(unpacked) /\ unpacked.file = Top.file /\ unpacked.severity = Top.severity
          /\ unpacked.iocs = Top.iocs
      BY <1>1, FrameUnpacked
    <2> HIDE DEF unpacked
    <2> QED
      BY <2>1, FrameBombed
  <1>3. FrameOK(inner) /\ inner.severity = NONE /\ inner.iocs = <<>>
    <2>1. Head(Top.members) \in Entry \X Nat
      BY <1>1
    <2>2. entry.file \in Files
      BY <2>1 DEF Entry
    <2> QED
      BY <2>2, NewFrameOK
  <1>4. unpacked.severity >= Top.severity
    <2>1. Severities \subseteq Nat
      BY DEF Severities, NONE, INFO, MEDIUM, HIGH, CRITICAL
    <2>2. Top.severity \in Nat /\ unpacked.severity = Top.severity
      BY <1>1, <1>2, <2>1
    <2> HIDE DEF unpacked
    <2> QED
      BY <2>2
  <1>5. \/ stack' = SetTop(unpacked) \/ stack' = SetTop(bomb)
        \/ stack' = Append(SetTop(unpacked), inner)
    BY DEF VisitMember, Unpacked, Bombed
  <1> HIDE DEF unpacked, bomb, inner
  <1> QED
    BY <1>2, <1>3, <1>4, <1>5

LEMMA VisitMemberKeeps ==
    ASSUME WalkInv, VisitMember
    PROVE  WalkInv'
  <1>1. /\ status = "running" /\ ~AtLimit
        /\ UNCHANGED <<input, status, report>> /\ UNCHANGED <<short, budget, kept>>
    BY DEF VisitMember, Visiting, history
  <1>2. /\ short' \in BOOLEAN /\ 0 \in Nat /\ 0 <= budget
        /\ budget' = budget - 0 /\ kept' = kept + 0
    BY <1>1 DEF WalkInv, TypeOK
  <1>3. PICK frame, inner :
           /\ FrameOK(frame) /\ FrameOK(inner)
           /\ stack' = SetTop(frame) \/ stack' = Append(SetTop(frame), inner)
    BY VisitMemberTop
  <1>4. CASE stack' = SetTop(frame)
    BY <1>1, <1>2, <1>3, <1>4, TopKeeps
  <1>5. CASE stack' = Append(SetTop(frame), inner)
    <2>1. StackOK(SetTop(frame)) /\ Len(SetTop(frame)) = Len(stack)
      BY <1>1, <1>3, RunningTop, TopReplaced DEF WalkInv
    <2>2. StackOK(stack') /\ stack' # <<>> /\ Len(stack') = Len(SetTop(frame)) + 1
      BY <1>3, <1>5, <2>1, Pushed
    <2>3. Len(stack') <= MaxDepth + 1
      <3>1. Len(stack) \in Nat /\ MaxDepth \in Nat
        BY <1>1, RunningTop, ArchiveAssumption
      <3>2. ~(Len(stack) - 1 >= MaxDepth)
        BY <1>1 DEF AtLimit
      <3> QED
        BY <2>1, <2>2, <3>1, <3>2
    <2>4. Keeps
      BY <1>1, <1>2, <2>2, <2>3 DEF Keeps, WalkInv, TypeOK
    <2> QED
      BY <2>4, Kept
  <1> QED
    BY <1>3, <1>4, <1>5

LEMMA CloseArchiveKeeps ==
    ASSUME WalkInv, CloseArchive
    PROVE  WalkInv'
  <1> DEFINE a == IF Top.encrypted THEN MEDIUM ELSE NONE
             b == IF Top.executable THEN MEDIUM ELSE NONE
             c == IF Exhausted THEN INFO ELSE NONE
  <1>1. status = "running" /\ Top.severity \in Severities
    BY RunningTop DEF CloseArchive, Visiting, FrameOK
  <1>2. a \in Severities /\ b \in Severities /\ c \in Severities
    BY DEF Severities
  <1>3. Return(Max({Top.severity, a, b, c}), Top.iocs, Exhausted)
    BY DEF CloseArchive
  <1>4. UNCHANGED <<input, budget, kept, short>>
    BY DEF CloseArchive, history
  <1> HIDE DEF a, b, c
  <1>5. Max({Top.severity, a, b, c}) \in Severities
    BY <1>1, <1>2, WorstOfFour
  <1> QED
    BY <1>1, <1>3, <1>4, <1>5, ReturnKeeps

LEMMA AnalyzeLeafKeeps ==
    ASSUME WalkInv, AnalyzeLeaf
    PROVE  WalkInv'
  <1>1. status = "running" /\ grade[Top.file] \in Severities
    BY DEF AnalyzeLeaf, WalkInv, TypeOK
  <1>2. \E found : Return(grade[Top.file], found, FALSE)
    BY DEF AnalyzeLeaf
  <1>3. UNCHANGED <<input, budget, kept, short>>
    BY DEF AnalyzeLeaf
  <1> QED
    BY <1>1, <1>2, <1>3, ReturnKeeps

LEMMA StopAtLimitKeeps ==
    ASSUME WalkInv, StopAtLimit
    PROVE  WalkInv'
  <1>1. status = "running" /\ INFO \in Severities /\ Return(INFO, <<>>, FALSE)
    BY DEF StopAtLimit, Severities
  <1>2. UNCHANGED <<input, budget, kept, short>>
    BY DEF StopAtLimit, history
  <1> QED
    BY <1>1, <1>2, ReturnKeeps

LEMMA StutterKeeps ==
    ASSUME WalkInv, UNCHANGED vars
    PROVE  WalkInv'
  BY DEF vars, history, input, WalkInv, TypeOK

LEMMA WalkStep == WalkInv /\ [Next]_vars => WalkInv'
  <1> SUFFICES ASSUME WalkInv, [Next]_vars PROVE WalkInv'
    OBVIOUS
  <1>1. CASE ReadEntry
    BY <1>1, ReadEntryKeeps
  <1>2. CASE StopReading
    BY <1>2, StopReadingKeeps
  <1>3. CASE ReadRaises
    BY <1>3, ReadRaisesKeeps
  <1>4. CASE VisitMember
    BY <1>4, VisitMemberKeeps
  <1>5. CASE CloseArchive
    BY <1>5, CloseArchiveKeeps
  <1>6. CASE AnalyzeLeaf
    BY <1>6, AnalyzeLeafKeeps
  <1>7. CASE StopAtLimit
    BY <1>7, StopAtLimitKeeps
  <1>8. CASE UNCHANGED vars
    BY <1>8, StutterKeeps
  <1> QED
    BY <1>1, <1>2, <1>3, <1>4, <1>5, <1>6, <1>7, <1>8 DEF Next

-----------------------------------------------------------------------------
(* Whatever the files hold and however reading them fails, every variable   *)
(* keeps its type, and calls of analyze_bytes nest no deeper than the depth *)
(* limit allows (archive.py:268).                                           *)
THEOREM ArchiveTyped == Spec => []TypeOK
  <1>1. WalkInv => TypeOK
    BY DEF WalkInv
  <1> QED
    BY <1>1, WalkInit, WalkStep, PTL DEF Spec

(* All levels of the recursion together take no more than the one budget,   *)
(* and what they take is what it has lost (archive.py:15, 281).             *)
THEOREM BudgetNeverOverdrawn == Spec => []BudgetHeld
  <1>1. WalkInv => BudgetHeld
    BY ArchiveAssumption DEF WalkInv, TypeOK, BudgetHeld
  <1> QED
    BY <1>1, WalkInit, WalkStep, PTL DEF Spec

-----------------------------------------------------------------------------
(* The worst leaf met so far is on its way out: some archive on the stack   *)
(* is as bad.  Leaves, and archives at the depth limit, are on top and      *)
(* return before they have anything in their report.                        *)
Carried(severity) ==
    Graded(severity) = NONE \/ \E n \in 1..Len(stack) : Graded(stack[n].severity) >= Graded(severity)

WorstInv ==
    /\ met.severity \in Severities
    /\ \A n \in 1..Len(stack) : /\ n < Len(stack) => stack[n].file \in Archives
                                /\ stack[n].file \in Leaves \/ n > MaxDepth => stack[n].severity = NONE
    /\ status = "running" => Carried(met.severity)
    /\ status = "done" => Graded(report.severity) >= Graded(met.severity)

LEMMA WorstInit == Init => WorstInv
  <1> SUFFICES ASSUME Init PROVE WorstInv
    OBVIOUS
  <1>1. PICK f \in Roots : stack = <<NewFrame(f, Size[f])>>
    BY DEF Init
  <1> DEFINE frame == NewFrame(f, Size[f])
  <1>2. frame.severity = NONE
    BY <1>1, NewFrameOK, ArchiveAssumption
  <1>3. stack = <<frame>>
    BY <1>1
  <1> HIDE DEF frame
  <1>4. Len(stack) = 1 /\ stack[1] = frame
    BY <1>3
  <1>5. status = "running" /\ met.severity = NONE /\ NONE \in Severities
    BY DEF Init, Severities
  <1>6. Graded(NONE) = NONE
    BY DEF Graded, Verdict, NONE, MEDIUM, HIGH
  <1> QED
    BY <1>2, <1>4, <1>5, <1>6 DEF WorstInv, Carried

(* The frame on top is replaced by one as bad.                              *)
LEMMA TopCarries ==
    ASSUME WalkInv, WorstInv, status = "running", Top.file \in Archives, ~AtLimit,
           NEW frame, FrameOK(frame), frame.severity >= Top.severity, frame.file = Top.file,
           stack' = SetTop(frame), UNCHANGED <<status, report, met>>
    PROVE  WorstInv'
  <1>1. /\ Top = stack[Len(stack)] /\ Len(stack) \in Nat \ {0} /\ StackOK(stack) /\ stack # <<>>
        /\ Top.severity \in Severities /\ frame.severity \in Severities
    BY RunningTop DEF FrameOK, WalkInv
  <1>2. /\ Len(stack') = Len(stack) /\ stack'[Len(stack)] = frame
        /\ \A n \in 1..(Len(stack) - 1) : stack'[n] = stack[n]
    BY <1>1, TopReplaced
  <1>3. Len(stack) <= MaxDepth /\ MaxDepth \in Nat
    <2>1. ~(Len(stack) - 1 >= MaxDepth) /\ MaxDepth \in Nat
      BY ArchiveAssumption DEF AtLimit
    <2> QED
      BY <1>1, <2>1
  <1>4. frame.file \in Archives /\ ~(frame.file \in Leaves)
    BY DEF Leaves
  <1>5. ASSUME NEW n \in 1..Len(stack')
        PROVE  /\ n < Len(stack') => stack'[n].file \in Archives
               /\ stack'[n].file \in Leaves \/ n > MaxDepth => stack'[n].severity = NONE
    BY <1>1, <1>2, <1>3, <1>4 DEF WorstInv
  <1>6. Carried(met.severity)'
    <2>1. CASE Graded(met.severity) = NONE
      BY <2>1 DEF Carried
    <2>2. CASE Graded(met.severity) # NONE
      <3>1. PICK n \in 1..Len(stack) : Graded(stack[n].severity) >= Graded(met.severity)
        BY <2>2 DEF WorstInv, Carried
      <3>2. Graded(frame.severity) >= Graded(Top.severity)
        BY <1>1, GradedFacts
      <3>3. /\ Graded(met.severity) \in Severities /\ Graded(frame.severity) \in Severities
            /\ Graded(Top.severity) \in Severities
        BY <1>1, GradedFacts DEF WorstInv
      <3>4. Graded(stack'[n].severity) >= Graded(met.severity)
        <4>1. CASE n = Len(stack)
          BY <1>1, <1>2, <3>1, <3>2, <3>3, <4>1 DEF Severities, NONE, INFO, MEDIUM, HIGH, CRITICAL
        <4>2. CASE n # Len(stack)
          BY <1>1, <1>2, <3>1, <4>2
        <4> QED
          BY <4>1, <4>2
      <3>5. n \in 1..Len(stack')
        BY <1>2
      <3> QED
        BY <3>4, <3>5 DEF Carried
    <2> QED
      BY <2>1, <2>2
  <1> QED
    BY <1>5, <1>6 DEF WorstInv

(* A call returns with a report as bad as its frame, and as bad as what it  *)
(* has just met.                                                            *)
LEMMA ReturnCarries ==
    ASSUME WalkInv, WorstInv, status = "running", NEW severity \in Severities, NEW iocs, NEW exhausted,
           Return(severity, iocs, exhausted), severity >= Top.severity,
           met'.severity = met.severity \/ met'.severity = severity
    PROVE  WorstInv'
  <1>1. /\ Top = stack[Len(stack)] /\ Len(stack) \in Nat \ {0} /\ StackOK(stack) /\ stack # <<>>
        /\ Top.severity \in Severities /\ Len(stack) <= MaxDepth + 1 /\ MaxDepth \in Nat
    BY RunningTop, ArchiveAssumption DEF FrameOK, WalkInv, TypeOK
  <1>2. met.severity \in Severities /\ met'.severity \in Severities
    BY DEF WorstInv
  <1>3. /\ Graded(severity) \in Severities /\ Graded(Top.severity) \in Severities
        /\ Graded(met.severity) \in Severities /\ Graded(severity) >= Graded(Top.severity)
        /\ Graded(Graded(severity)) = Graded(severity)
    BY <1>1, <1>2, GradedFacts
  <1>4. CASE status' = "done" /\ stack' = <<>> /\ Len(stack) = 1 /\ report'.severity = severity
    <2>1. Graded(severity) >= Graded(met.severity)
      <3>1. Graded(met.severity) = NONE \/ Graded(Top.severity) >= Graded(met.severity)
        BY <1>1, <1>4 DEF WorstInv, Carried
      <3> QED
        BY <1>3, <3>1 DEF Severities, NONE, INFO, MEDIUM, HIGH, CRITICAL
    <2>2. Graded(report'.severity) >= Graded(met'.severity)
      BY <1>3, <1>4, <2>1 DEF Severities, NONE, INFO, MEDIUM, HIGH, CRITICAL
    <2>3. Len(stack') = 0
      BY <1>4
    <2> QED
      BY <1>2, <1>4, <2>2, <2>3 DEF WorstInv
  <1>5. CASE /\ status' = status /\ report' = report
             /\ StackOK(stack') /\ stack' # <<>> /\ Len(stack') = Len(stack) - 1
             /\ \A n \in 1..(Len(stack) - 2) : stack'[n] = stack[n]
             /\ stack[Len(stack) - 1].severity \in Severities
             /\ stack'[Len(stack) - 1].file = stack[Len(stack) - 1].file
             /\ stack'[Len(stack) - 1].severity = Worse(stack[Len(stack) - 1].severity, Graded(severity))
    <2> DEFINE outer == stack[Len(stack) - 1].severity
               told == stack'[Len(stack) - 1].severity
    <2>1. Len(stack') \in Nat \ {0}
      <3>1. Len(stack') # 0
        BY <1>5, EmptyStack
      <3> QED
        BY <1>1, <1>5, <3>1
    <2>2. told \in Severities /\ told >= outer /\ told >= Graded(severity)
      BY <1>3, <1>5, WorseOfTwo
    <2>3. /\ Graded(told) \in Severities /\ Graded(outer) \in Severities
          /\ Graded(told) >= Graded(outer) /\ Graded(told) >= Graded(severity)
      <3>1. /\ Graded(told) \in Severities /\ Graded(outer) \in Severities
            /\ Graded(told) >= Graded(outer) /\ Graded(told) >= Graded(Graded(severity))
        BY <1>3, <1>5, <2>2, GradedFacts
      <3> QED
        BY <1>3, <3>1
    <2>4. ASSUME NEW n \in 1..Len(stack')
          PROVE  /\ n < Len(stack') => stack'[n].file \in Archives
                 /\ stack'[n].file \in Leaves \/ n > MaxDepth => stack'[n].severity = NONE
      <3>1. n \in 1..Len(stack) /\ n < Len(stack) /\ n <= MaxDepth
        BY <1>1, <1>5, <2>1
      <3>2. stack[n].file \in Archives /\ ~(stack[n].file \in Leaves)
        BY <3>1 DEF WorstInv, Leaves
      <3>3. stack'[n].file = stack[n].file
        BY <1>1, <1>5, <3>1
      <3> QED
        BY <3>1, <3>2, <3>3, <1>1
    <2>5. Carried(met.severity)'
      <3>1. CASE Graded(met'.severity) = NONE
        BY <3>1 DEF Carried
      <3>2. CASE met'.severity = severity
        <4>1. Graded(stack'[Len(stack')].severity) >= Graded(met'.severity) /\ Len(stack') \in 1..Len(stack')
          BY <1>1, <1>5, <2>1, <2>3, <3>2
        <4> QED
          BY <4>1 DEF Carried
      <3>3. CASE met'.severity = met.severity /\ Graded(met.severity) # NONE
        <4>1. PICK n \in 1..Len(stack) : Graded(stack[n].severity) >= Graded(met.severity)
          BY <3>3 DEF WorstInv, Carried
        <4>2. CASE n <= Len(stack) - 2
          <5>1. n \in 1..Len(stack') /\ stack'[n] = stack[n]
            BY <1>1, <1>5, <4>2
          <5> QED
            BY <3>3, <4>1, <5>1 DEF Carried
        <4>3. CASE n = Len(stack) - 1 \/ n = Len(stack)
          <5>1. Graded(outer) >= Graded(met.severity) \/ Graded(Top.severity) >= Graded(met.severity)
            BY <1>1, <4>1, <4>3
          <5>2. Graded(told) >= Graded(met.severity)
            BY <1>3, <2>3, <5>1 DEF Severities, NONE, INFO, MEDIUM, HIGH, CRITICAL
          <5>3. Len(stack) - 1 \in 1..Len(stack')
            BY <1>1, <1>5, <2>1
          <5> QED
            BY <3>3, <5>2, <5>3 DEF Carried
        <4> QED
          BY <1>1, <4>2, <4>3
      <3> QED
        BY <3>1, <3>2, <3>3
    <2> QED
      BY <1>2, <1>5, <2>4, <2>5 DEF WorstInv
  <1> QED
    BY <1>1, <1>4, <1>5, Returned

LEMMA ReadEntryCarries ==
    ASSUME WalkInv, WorstInv, ReadEntry
    PROVE  WorstInv'
  <1>1. /\ status = "running" /\ Top.file \in Archives /\ ~AtLimit
        /\ UNCHANGED <<status, report, met>>
    BY DEF ReadEntry, Reading
  <1>2. PICK frame :
           /\ FrameOK(frame) /\ frame.file = Top.file /\ frame.severity = Top.severity
           /\ stack' = SetTop(frame)
    BY ReadEntryTop
  <1>3. frame.severity >= Top.severity
    BY <1>2 DEF FrameOK, Severities, NONE, INFO, MEDIUM, HIGH, CRITICAL
  <1> QED
    BY <1>1, <1>2, <1>3, TopCarries

LEMMA StopReadingCarries ==
    ASSUME WalkInv, WorstInv, StopReading
    PROVE  WorstInv'
  <1> DEFINE frame == [Top EXCEPT !.phase = "visit"]
  <1>1. status = "running" /\ Top.file \in Archives /\ ~AtLimit /\ FrameOK(Top)
    BY RunningTop DEF StopReading, Reading
  <1>2. FrameOK(frame) /\ frame.file = Top.file /\ frame.severity = Top.severity
    BY <1>1 DEF FrameOK, Fields
  <1>3. stack' = SetTop(frame) /\ UNCHANGED <<status, report, met>>
    BY DEF StopReading
  <1> HIDE DEF frame
  <1>4. frame.severity >= Top.severity
    BY <1>2 DEF FrameOK, Severities, NONE, INFO, MEDIUM, HIGH, CRITICAL
  <1> QED
    BY <1>1, <1>2, <1>3, <1>4, TopCarries

LEMMA VisitMemberCarries ==
    ASSUME WalkInv, WorstInv, VisitMember
    PROVE  WorstInv'
  <1>1. /\ status = "running" /\ ~AtLimit /\ Top.file \in Archives
        /\ UNCHANGED <<status, report, met>>
    BY DEF VisitMember, Visiting, history
  <1>2. PICK frame, inner :
           /\ FrameOK(frame) /\ frame.file = Top.file /\ frame.severity >= Top.severity
           /\ FrameOK(inner) /\ inner.severity = NONE
           /\ stack' = SetTop(frame) \/ stack' = Append(SetTop(frame), inner)
    BY VisitMemberTop
  <1>3. CASE stack' = SetTop(frame)
    BY <1>1, <1>2, <1>3, TopCarries
  <1>4. CASE stack' = Append(SetTop(frame), inner)
    <2> DEFINE left == SetTop(frame)
    <2>1. /\ Top = stack[Len(stack)] /\ Len(stack) \in Nat \ {0} /\ StackOK(stack) /\ stack # <<>>
          /\ Len(stack) - 1 < MaxDepth /\ MaxDepth \in Nat
      <3>1. ~(Len(stack) - 1 >= MaxDepth) /\ MaxDepth \in Nat
        BY <1>1, ArchiveAssumption DEF AtLimit
      <3> QED
        BY <1>1, <3>1, RunningTop DEF WalkInv
    <2>2. /\ StackOK(left) /\ Len(left) = Len(stack) /\ left[Len(stack)] = frame
          /\ \A n \in 1..(Len(stack) - 1) : left[n] = stack[n]
      BY <1>2, <2>1, TopReplaced
    <2>3. DOMAIN left = 1..Len(left)
      BY <2>2, StackFrames
    <2> HIDE DEF left
    <2>4. stack' = Append(left, inner)
      BY <1>4 DEF left
    <2>5. /\ Len(stack') = Len(stack) + 1 /\ stack'[Len(stack) + 1] = inner
          /\ \A n \in 1..Len(stack) : stack'[n] = left[n]
      BY <1>2, <2>2, <2>3, <2>4, Pushed
    <2>6. ASSUME NEW n \in 1..Len(stack')
          PROVE  /\ n < Len(stack') => stack'[n].file \in Archives
                 /\ stack'[n].file \in Leaves \/ n > MaxDepth => stack'[n].severity = NONE
      <3>1. CASE n = Len(stack) + 1
        BY <1>2, <2>1, <2>5, <3>1
      <3>2. CASE n = Len(stack)
        BY <1>1, <1>2, <2>1, <2>2, <2>5, <3>2 DEF Leaves
      <3>3. CASE n < Len(stack)
        BY <2>1, <2>2, <2>5, <3>3 DEF WorstInv
      <3> QED
        BY <2>1, <2>5, <3>1, <3>2, <3>3
    <2>7. Carried(met.severity)'
      <3>1. CASE Graded(met.severity) = NONE
        BY <1>1, <3>1 DEF Carried
      <3>2. CASE Graded(met.severity) # NONE
        <4>1. PICK n \in 1..Len(stack) : Graded(stack[n].severity) >= Graded(met.severity)
          BY <1>1, <3>2 DEF WorstInv, Carried
        <4>2. Graded(stack'[n].severity) >= Graded(met.severity)
          <5>1. CASE n = Len(stack)
            <6>1. /\ stack'[n] = frame /\ Top = stack[n]
                  /\ frame.severity \in Severities /\ Top.severity \in Severities
              BY <1>1, <1>2, <2>1, <2>2, <2>5, <5>1, RunningTop DEF FrameOK
            <6>2. Graded(frame.severity) >= Graded(Top.severity)
              BY <1>2, <6>1, GradedFacts
            <6>3. /\ Graded(frame.severity) \in Severities /\ Graded(Top.severity) \in Severities
                  /\ Graded(met.severity) \in Severities
              BY <6>1, GradedFacts DEF WorstInv
            <6> QED
              BY <4>1, <6>1, <6>2, <6>3 DEF Severities, NONE, INFO, MEDIUM, HIGH, CRITICAL
          <5>2. CASE n # Len(stack)
            BY <2>1, <2>2, <2>5, <4>1, <5>2
          <5> QED
            BY <5>1, <5>2
        <4>3. n \in 1..Len(stack')
          BY <2>1, <2>5
        <4> QED
          BY <1>1, <4>2, <4>3 DEF Carried
      <3> QED
        BY <3>1, <3>2
    <2> QED
      BY <1>1, <2>6, <2>7 DEF WorstInv
  <1> QED
    BY <1>2, <1>3, <1>4

LEMMA CloseArchiveCarries ==
    ASSUME WalkInv, WorstInv, CloseArchive
    PROVE  WorstInv'
  <1> DEFINE a == IF Top.encrypted THEN MEDIUM ELSE NONE
             b == IF Top.executable THEN MEDIUM ELSE NONE
             c == IF Exhausted THEN INFO ELSE NONE
  <1>1. status = "running" /\ Top.severity \in Severities
    BY RunningTop DEF CloseArchive, Visiting, FrameOK
  <1>2. a \in Severities /\ b \in Severities /\ c \in Severities
    BY DEF Severities
  <1>3. Return(Max({Top.severity, a, b, c}), Top.iocs, Exhausted)
    BY DEF CloseArchive
  <1>4. met' = met
    BY DEF CloseArchive, history
  <1> HIDE DEF a, b, c
  <1>5. Max({Top.severity, a, b, c}) \in Severities /\ Max({Top.severity, a, b, c}) >= Top.severity
    BY <1>1, <1>2, WorstOfFour
  <1> QED
    BY <1>1, <1>3, <1>4, <1>5, ReturnCarries

LEMMA AnalyzeLeafCarries ==
    ASSUME WalkInv, WorstInv, AnalyzeLeaf
    PROVE  WorstInv'
  <1>1. /\ status = "running" /\ Top.file \in Leaves /\ grade[Top.file] \in Severities
        /\ met.severity \in Severities
    BY DEF AnalyzeLeaf, WalkInv, TypeOK, WorstInv
  <1>2. \E found : Return(grade[Top.file], found, FALSE)
    BY DEF AnalyzeLeaf
  <1>3. Top.severity = NONE
    BY <1>1, RunningTop DEF WorstInv
  <1>4. grade[Top.file] >= Top.severity
    BY <1>1, <1>3 DEF Severities, NONE, INFO, MEDIUM, HIGH, CRITICAL
  <1>5. met'.severity = Worse(met.severity, grade[Top.file])
    BY DEF AnalyzeLeaf
  <1>6. met'.severity = met.severity \/ met'.severity = grade[Top.file]
    BY <1>1, <1>5, WorseOfTwo
  <1> QED
    BY <1>1, <1>2, <1>4, <1>6, ReturnCarries

LEMMA StopAtLimitCarries ==
    ASSUME WalkInv, WorstInv, StopAtLimit
    PROVE  WorstInv'
  <1>1. /\ status = "running" /\ INFO \in Severities /\ Return(INFO, <<>>, FALSE) /\ AtLimit
        /\ met' = met
    BY DEF StopAtLimit, Severities, history
  <1>2. Top.severity = NONE
    <2>1. Len(stack) > MaxDepth
      BY <1>1, RunningTop, ArchiveAssumption DEF AtLimit
    <2> QED
      BY <1>1, <2>1, RunningTop DEF WorstInv
  <1>3. INFO >= Top.severity
    BY <1>2 DEF NONE, INFO
  <1> QED
    BY <1>1, <1>3, ReturnCarries

LEMMA ReadRaisesCarries ==
    ASSUME WalkInv, WorstInv, ReadRaises
    PROVE  WorstInv'
  <1>1. status' = "raised" /\ stack' = <<>> /\ met' = met
    BY DEF ReadRaises, history
  <1>2. Len(stack') = 0
    BY <1>1
  <1> QED
    BY <1>1, <1>2 DEF WorstInv

LEMMA WorstStep == WalkInv /\ WorstInv /\ [Next]_vars => WorstInv'
  <1> SUFFICES ASSUME WalkInv, WorstInv, [Next]_vars PROVE WorstInv'
    OBVIOUS
  <1>1. CASE ReadEntry
    BY <1>1, ReadEntryCarries
  <1>2. CASE StopReading
    BY <1>2, StopReadingCarries
  <1>3. CASE ReadRaises
    BY <1>3, ReadRaisesCarries
  <1>4. CASE VisitMember
    BY <1>4, VisitMemberCarries
  <1>5. CASE CloseArchive
    BY <1>5, CloseArchiveCarries
  <1>6. CASE AnalyzeLeaf
    BY <1>6, AnalyzeLeafCarries
  <1>7. CASE StopAtLimit
    BY <1>7, StopAtLimitCarries
  <1>8. CASE UNCHANGED vars
    BY <1>8 DEF vars, history, WorstInv, Carried
  <1> QED
    BY <1>1, <1>2, <1>3, <1>4, <1>5, <1>6, <1>7, <1>8 DEF Next

(* However deep a file lies, the report about the file that was given is at *)
(* least as bad as the verdict about it (archive.py:348-365).               *)
THEOREM WorstReachesReport == Spec => []WorstSurfaces
  <1>1. WalkInv /\ WorstInv => WorstSurfaces
    <2> SUFFICES ASSUME WalkInv, WorstInv, status = "done"
                 PROVE  /\ Verdict(met.severity) = "malicious" => Verdict(report.severity) = "malicious"
                        /\ Verdict(met.severity) = "suspicious" => Verdict(report.severity) # "clean"
      BY DEF WorstSurfaces
    <2>1. /\ met.severity \in Severities /\ report.severity \in Severities
          /\ Graded(report.severity) >= Graded(met.severity)
      BY DEF WalkInv, TypeOK, WorstInv
    <2> QED
      BY <2>1 DEF Graded, Verdict, Severities, NONE, INFO, MEDIUM, HIGH, CRITICAL
  <1> QED
    BY <1>1, WalkInit, WalkStep, WorstInit, WorstStep, PTL DEF Spec

-----------------------------------------------------------------------------
(* Shortage.  What the budget has cut or left out can be told at the end,   *)
(* because then nothing is left of the budget, nothing is ever put back,    *)
(* and the file that was given is an archive that will be closed.           *)
ShortInv ==
    /\ short => budget = 0
    /\ status = "running" /\ short => stack[1].file \in Archives /\ MaxDepth > 0
    /\ ShortageReported

LEMMA ShortInit == Init => ShortInv
  BY DEF Init, ShortInv, ShortageReported

(* The frame on top is changed, but stays a frame of its file.              *)
LEMMA OutermostKept ==
    ASSUME WalkInv, status = "running", NEW frame, FrameOK(frame), frame.file = Top.file
    PROVE  SetTop(frame)[1].file = stack[1].file /\ 1 \in DOMAIN SetTop(frame)
  <1>1. /\ StackOK(stack) /\ stack # <<>> /\ Top = stack[Len(stack)] /\ Len(stack) \in Nat \ {0}
    BY RunningTop DEF WalkInv
  <1>2. /\ Len(SetTop(frame)) = Len(stack) /\ StackOK(SetTop(frame))
        /\ \A n \in 1..(Len(stack) - 1) : SetTop(frame)[n] = stack[n]
        /\ SetTop(frame)[Len(stack)] = frame
    BY <1>1, TopReplaced
  <1>3. DOMAIN SetTop(frame) = 1..Len(stack)
    BY <1>2, StackFrames
  <1>4. Len(stack) = 1 \/ 1 \in 1..(Len(stack) - 1)
    <2>1. Len(stack) \in Nat /\ Len(stack) # 0
      BY <1>1
    <2> QED
      BY <2>1, OneOrMore
  <1> QED
    BY <1>1, <1>2, <1>3, <1>4

(* An archive that is read is not at the limit, and lies in archives.       *)
LEMMA ReadingOutermost ==
    ASSUME WalkInv, WorstInv, status = "running", Top.file \in Archives, ~AtLimit
    PROVE  stack[1].file \in Archives /\ MaxDepth > 0
  <1>1. Top = stack[Len(stack)] /\ Len(stack) \in Nat \ {0}
    BY RunningTop
  <1>2. ~(Len(stack) - 1 >= MaxDepth) /\ MaxDepth \in Nat
    BY ArchiveAssumption DEF AtLimit
  <1>3. Len(stack) = 1 \/ (1 \in 1..Len(stack) /\ 1 < Len(stack))
    <2>1. Len(stack) \in Nat /\ Len(stack) # 0
      BY <1>1
    <2>2. Len(stack) = 1 \/ (1 \in 1..Len(stack) /\ Len(stack) > 1)
      BY <2>1, OneOrMore
    <2> QED
      BY <2>1, <2>2
  <1> QED
    BY <1>1, <1>2, <1>3 DEF WorstInv

(* A call returns and only the outermost one makes the report.              *)
LEMMA ReturnReports ==
    ASSUME WalkInv, ShortInv, status = "running",
           NEW severity \in Severities, NEW iocs, NEW exhausted,
           Return(severity, iocs, exhausted), UNCHANGED <<budget, short>>,
           short /\ Len(stack) = 1 => exhausted
    PROVE  ShortInv'
  <1>1. StackOK(stack) /\ stack # <<>> /\ Len(stack) \in Nat \ {0}
    BY RunningTop DEF WalkInv
  <1>2. CASE Len(stack) = 1
    <2>1. status' = "done" /\ report' = [severity |-> severity, iocs |-> iocs, exhausted |-> exhausted]
      BY <1>2 DEF Return
    <2>2. report'.exhausted = exhausted
      BY <2>1
    <2> QED
      BY <1>2, <2>1, <2>2 DEF ShortInv, ShortageReported
  <1>3. CASE Len(stack) # 1
    <2>1. /\ status' = status /\ Len(stack) - 1 >= 1
          /\ \A n \in 1..(Len(stack) - 2) : stack'[n] = stack[n]
          /\ stack'[Len(stack) - 1].file = stack[Len(stack) - 1].file
      BY <1>1, <1>3, Returned
    <2>2. 1 = Len(stack) - 1 \/ 1 \in 1..(Len(stack) - 2)
      <3>1. Len(stack) \in Nat /\ Len(stack) # 0 /\ Len(stack) # 1
        BY <1>1, <1>3
      <3>2. PICK n \in Nat : n = Len(stack) - 1 /\ n # 0 /\ n - 1 = Len(stack) - 2
        <4>1. Len(stack) - 1 \in Nat /\ Len(stack) - 1 # 0 /\ (Len(stack) - 1) - 1 = Len(stack) - 2
          BY <3>1
        <4> QED
          BY <4>1
      <3>3. n = 1 \/ 1 \in 1..(n - 1)
        BY <3>2, OneOrMore
      <3> QED
        BY <3>2, <3>3
    <2>3. stack'[1].file = stack[1].file
      BY <2>1, <2>2
    <2> QED
      BY <2>1, <2>3 DEF ShortInv, ShortageReported
  <1> QED
    BY <1>2, <1>3

LEMMA ShortStep == WalkInv /\ WorstInv /\ ShortInv /\ [Next]_vars => ShortInv'
  <1> SUFFICES ASSUME WalkInv, WorstInv, ShortInv, [Next]_vars PROVE ShortInv'
    OBVIOUS
  <1>1. CASE ReadEntry
    <2>1. status = "running" /\ Top.file \in Archives /\ ~AtLimit /\ UNCHANGED status
      BY <1>1 DEF ReadEntry, Reading
    <2>2. PICK frame, got :
             /\ FrameOK(frame) /\ frame.file = Top.file /\ stack' = SetTop(frame)
             /\ got \in Nat /\ got <= budget /\ budget' = budget - got
             /\ short' => short \/ got = budget
      BY <1>1, ReadEntryTop
    <2>3. stack'[1].file \in Archives /\ MaxDepth > 0
      BY <2>1, <2>2, OutermostKept, ReadingOutermost
    <2>4. short' => budget' = 0
      <3>1. budget \in Nat /\ (short => budget = 0)
        BY ArchiveAssumption DEF WalkInv, TypeOK, ShortInv
      <3> QED
        BY <2>2, <3>1
    <2> QED
      BY <2>1, <2>3, <2>4 DEF ShortInv, ShortageReported
  <1>2. CASE StopReading
    <2> DEFINE frame == [Top EXCEPT !.phase = "visit"]
    <2>1. /\ status = "running" /\ Top.file \in Archives /\ ~AtLimit /\ FrameOK(Top)
          /\ stack' = SetTop(frame) /\ UNCHANGED <<status, budget>>
      BY <1>2, RunningTop DEF StopReading, Reading
    <2>2. FrameOK(frame) /\ frame.file = Top.file
      BY <2>1 DEF FrameOK, Fields
    <2> HIDE DEF frame
    <2>3. stack'[1].file \in Archives /\ MaxDepth > 0
      BY <2>1, <2>2, OutermostKept, ReadingOutermost
    <2>4. short' => budget = 0
      <3>1. short' => short \/ ~(budget > 0)
        BY <1>2 DEF StopReading, HasEntry
      <3>2. budget \in Nat /\ (short => budget = 0)
        BY ArchiveAssumption DEF WalkInv, TypeOK, ShortInv
      <3> QED
        BY <3>1, <3>2
    <2> QED
      BY <2>1, <2>3, <2>4 DEF ShortInv, ShortageReported
  <1>3. CASE ReadRaises
    BY <1>3 DEF ReadRaises, history, ShortInv, ShortageReported
  <1>4. CASE VisitMember
    <2>1. status = "running" /\ UNCHANGED <<status, budget, short>>
      BY <1>4 DEF VisitMember, Visiting, history
    <2>2. PICK frame, inner :
             /\ FrameOK(frame) /\ frame.file = Top.file /\ FrameOK(inner)
             /\ stack' = SetTop(frame) \/ stack' = Append(SetTop(frame), inner)
      BY <1>4, VisitMemberTop
    <2>3. SetTop(frame)[1].file = stack[1].file /\ 1 \in DOMAIN SetTop(frame)
      BY <2>1, <2>2, OutermostKept
    <2>4. stack'[1].file = stack[1].file
      <3>1. StackOK(stack) /\ stack # <<>>
        BY <2>1, RunningTop DEF WalkInv
      <3>2. StackOK(SetTop(frame))
        BY <2>2, <3>1, TopReplaced
      <3>3. Append(SetTop(frame), inner)[1] = SetTop(frame)[1]
        BY <2>2, <2>3, <3>2, Pushed
      <3> QED
        BY <2>2, <2>3, <3>3
    <2> QED
      BY <2>1, <2>4 DEF ShortInv, ShortageReported
  <1>5. CASE CloseArchive
    <2> DEFINE a == IF Top.encrypted THEN MEDIUM ELSE NONE
               b == IF Top.executable THEN MEDIUM ELSE NONE
               c == IF Exhausted THEN INFO ELSE NONE
    <2>1. status = "running" /\ Top.severity \in Severities /\ UNCHANGED <<budget, short>>
      BY <1>5, RunningTop DEF CloseArchive, Visiting, FrameOK, history
    <2>2. a \in Severities /\ b \in Severities /\ c \in Severities
      BY DEF Severities
    <2>3. Return(Max({Top.severity, a, b, c}), Top.iocs, Exhausted)
      BY <1>5 DEF CloseArchive
    <2> HIDE DEF a, b, c
    <2>4. Max({Top.severity, a, b, c}) \in Severities
      BY <2>1, <2>2, WorstOfFour
    <2>5. short => Exhausted
      BY DEF ShortInv, Exhausted
    <2> QED
      BY <2>1, <2>3, <2>4, <2>5, ReturnReports
  <1>6. CASE AnalyzeLeaf
    <2>1. /\ status = "running" /\ Top.file \in Leaves /\ grade[Top.file] \in Severities
          /\ UNCHANGED <<budget, short>>
      BY <1>6 DEF AnalyzeLeaf, WalkInv, TypeOK
    <2>2. PICK found : Return(grade[Top.file], found, FALSE)
      BY <1>6 DEF AnalyzeLeaf
    <2>3. Len(stack) = 1 => ~short
      BY <2>1, RunningTop DEF ShortInv, Leaves
    <2> QED
      BY <2>1, <2>2, <2>3, ReturnReports
  <1>7. CASE StopAtLimit
    <2>1. /\ status = "running" /\ INFO \in Severities /\ Return(INFO, <<>>, FALSE) /\ AtLimit
          /\ UNCHANGED <<budget, short>>
      BY <1>7 DEF StopAtLimit, Severities, history
    <2>2. Len(stack) = 1 => ~short
      BY <2>1, ArchiveAssumption DEF ShortInv, AtLimit
    <2> QED
      BY <2>1, <2>2, ReturnReports
  <1>8. CASE UNCHANGED vars
    BY <1>8 DEF vars, history, ShortInv, ShortageReported
  <1> QED
    BY <1>1, <1>2, <1>3, <1>4, <1>5, <1>6, <1>7, <1>8 DEF Next

(* Whatever the budget cut or left out, at whatever level, the report about *)
(* the file that was given says so (archive.py:392-400).                    *)
THEOREM ShortageReachesReport == Spec => []ShortageReported
  <1>1. ShortInv => ShortageReported
    BY DEF ShortInv
  <1> QED
    BY <1>1, WalkInit, WalkStep, WorstInit, WorstStep, ShortInit, ShortStep, PTL DEF Spec

-----------------------------------------------------------------------------
(* The IOCs.  A frame's list and a member's are merged by a fold.           *)
With(known, i) == IF Contains(known, i) THEN known ELSE Append(known, i)
LEMMA AddedOnce ==
    ASSUME NEW T, NEW known \in Seq(T), NEW i \in T
    PROVE  /\ With(known, i) \in Seq(T) /\ ToSet(With(known, i)) = ToSet(known) \cup {i}
           /\ IsInjective(known) => IsInjective(With(known, i))
  <1> DEFINE q == With(known, i)
  <1>1. CASE Contains(known, i)
    BY <1>1 DEF Contains, ToSet, With
  <1>2. CASE ~Contains(known, i)
    <2>1. q = Append(known, i) /\ \A k \in DOMAIN known : known[k] # i
      BY <1>2 DEF Contains, With
    <2>2. /\ q \in Seq(T) /\ DOMAIN q = 1..Len(known) + 1 /\ DOMAIN known = 1..Len(known) /\ Len(known) \in Nat
          /\ q[Len(known) + 1] = i /\ \A k \in 1..Len(known) : q[k] = known[k]
      BY <2>1, AppendProperties
    <2>3. ToSet(q) = ToSet(known) \cup {i}
      <3>1. \A k \in DOMAIN q : k \in 1..Len(known) \/ k = Len(known) + 1
        BY <2>2
      <3>2. Len(known) + 1 \in DOMAIN q /\ \A k \in DOMAIN known : k \in DOMAIN q
        BY <2>2
      <3> QED
        BY <2>2, <3>1, <3>2 DEF ToSet
    <2>4. IsInjective(known) => IsInjective(q)
      <3> SUFFICES ASSUME IsInjective(known), NEW k \in DOMAIN q, NEW l \in DOMAIN q, q[k] = q[l] PROVE k = l
        BY DEF IsInjective
      <3>1. \A m \in DOMAIN q : m \in 1..Len(known) \/ m = Len(known) + 1
        BY <2>2
      <3> QED
        BY <2>1, <2>2, <3>1 DEF IsInjective
    <2> QED
      BY <2>2, <2>3, <2>4
  <1> QED
    BY <1>1, <1>2

LEMMA LastOfInterval ==
    ASSUME NEW k \in Nat, k > 0
    PROVE  Max(1..k) = k /\ (1..k) \ {k} = 1..(k - 1) /\ 1..k # {}
  <1>1. k \in 1..k /\ \A y \in 1..k : k >= y
    OBVIOUS
  <1>2. \A x \in 1..k : (\A y \in 1..k : x >= y) => x = k
    OBVIOUS
  <1>3. Max(1..k) = k
    BY <1>1, <1>2 DEF Max
  <1> QED
    BY <1>1, <1>3

LEMMA MergedFacts ==
    ASSUME NEW T, NEW iocs \in Seq(T), NEW more \in Seq(T)
    PROVE  /\ Merged(iocs, more) \in Seq(T)
           /\ ToSet(Merged(iocs, more)) = ToSet(iocs) \cup ToSet(more)
           /\ IsInjective(iocs) => IsInjective(Merged(iocs, more))
  <1> DEFINE n == Len(more)
             S == 1..n
             Fold(F) == [s \in SUBSET DOMAIN more |->
                            IF s = {} THEN iocs ELSE With(F[s \ {Max(s)}], more[Max(s)])]
             it == CHOOSE F : F = Fold(F)
  <1>1. Merged(iocs, more) = it[DOMAIN more]
    BY DEF Merged, FoldLeft, MapThenFoldSet, With
  <1>2. n \in Nat /\ DOMAIN more = S /\ \A k \in S : more[k] \in T
    OBVIOUS
  <1>3. \E F : F \in [SUBSET S -> Seq(T)] /\ F = Fold(F)
    <2> DEFINE pick == [s \in SUBSET S |-> Max(s)]
               g == [p \in S \X Seq(T) |-> With(p[2], more[p[1]])]
    <2>1. \A s \in SUBSET S : s # {} => pick[s] \in s /\ pick[s] = Max(s)
      <3> SUFFICES ASSUME NEW s \in SUBSET S, s # {} PROVE Max(s) \in s
        OBVIOUS
      <3>1. s \subseteq Nat /\ \A x \in s : x <= n
        BY <1>2
      <3>2. \E x \in s : \A y \in s : y <= x
        BY <1>2, <3>1, GreatestBounded
      <3>3. \E x \in s : \A y \in s : x >= y
        BY <3>1, <3>2
      <3> QED
        BY <3>3 DEF Max
    <2>2. \A x \in S, v \in Seq(T) : g[<<x, v>>] = With(v, more[x]) /\ g[<<x, v>>] \in Seq(T)
      BY <1>2, AddedOnce
    <2>3. IsFiniteSet(S)
      BY <1>2, FS_Interval
    <2> HIDE DEF pick, g, S, n
    <2>4. PICK F : Folds(F, S, Seq(T), iocs, pick, g)
      <3>1. Foldable(S, Seq(T), iocs, pick, g)
        BY <2>1, <2>2, <2>3 DEF Foldable
      <3> QED
        BY <3>1, FoldExists
    <2>5. ASSUME NEW s \in SUBSET S, s # {}
          PROVE  g[<<pick[s], F[s \ {pick[s]}]>>] = With(F[s \ {Max(s)}], more[Max(s)])
      <3>1. pick[s] = Max(s) /\ Max(s) \in S /\ s \ {Max(s)} \in SUBSET S
        BY <2>1, <2>5
      <3>2. F[s \ {Max(s)}] \in Seq(T)
        BY <2>4, <3>1 DEF Folds
      <3> QED
        BY <3>1, <3>2, <2>2
    <2>6. F \in [SUBSET S -> Seq(T)] /\ F = Fold(F)
      <3> QED
        BY <1>2, <2>4, <2>5 DEF Folds
    <2> QED
      BY <2>6
  <1>4. it = Fold(it)
    <2> HIDE DEF Fold
    <2> QED
      BY <1>3
  <1> HIDE DEF it
  <1>5. it[{}] = iocs
    BY <1>4
  <1>6. ASSUME NEW k \in 1..n PROVE it[1..k] = With(it[1..(k - 1)], more[k])
    <2>1. 1..k \in SUBSET DOMAIN more
      BY <1>2
    <2>2. k \in Nat /\ k > 0
      BY <1>2
    <2>3. Max(1..k) = k /\ (1..k) \ {k} = 1..(k - 1) /\ 1..k # {}
      BY <2>2, LastOfInterval
    <2>4. it[1..k] = With(it[(1..k) \ {Max(1..k)}], more[Max(1..k)])
      BY <1>4, <2>1, <2>3
    <2> QED
      BY <2>3, <2>4
  <1> HIDE DEF Fold, n
  <1> DEFINE Right(k) == /\ it[1..k] \in Seq(T)
                         /\ ToSet(it[1..k]) = ToSet(iocs) \cup {more[j] : j \in 1..k}
                         /\ IsInjective(iocs) => IsInjective(it[1..k])
             Bad == {k \in 0..n : ~Right(k)}
  <1>7. Right(0)
    <2>1. 1..0 = {}
      OBVIOUS
    <2> QED
      BY <1>5, <2>1
  <1>8. ASSUME NEW k \in 1..n, Right(k - 1) PROVE Right(k)
    <2>1. /\ it[1..(k - 1)] \in Seq(T) /\ more[k] \in T
          /\ it[1..k] = With(it[1..(k - 1)], more[k])
      BY <1>2, <1>6, <1>8
    <2>2. 1..k = (1..(k - 1)) \cup {k}
      BY <1>2
    <2>3. {more[j] : j \in 1..k} = {more[j] : j \in 1..(k - 1)} \cup {more[k]}
      BY <2>2
    <2>4. /\ it[1..k] \in Seq(T) /\ ToSet(it[1..k]) = ToSet(it[1..(k - 1)]) \cup {more[k]}
          /\ IsInjective(it[1..(k - 1)]) => IsInjective(it[1..k])
      <3>1. PICK known, i : known = it[1..(k - 1)] /\ i = more[k]
        OBVIOUS
      <3>2. known \in Seq(T) /\ i \in T /\ it[1..k] = With(known, i)
        BY <2>1, <3>1
      <3>3. With(known, i) \in Seq(T) /\ ToSet(With(known, i)) = ToSet(known) \cup {i}
        BY <3>2, AddedOnce
      <3>4. IsInjective(known) => IsInjective(With(known, i))
        BY <3>2, AddedOnce
      <3> QED
        BY <3>1, <3>2, <3>3, <3>4
    <2> QED
      BY <1>8, <2>3, <2>4
  <1>9. Right(n)
    <2> HIDE DEF Right
    <2>1. CASE Bad = {}
      BY <1>2, <2>1
    <2>2. CASE Bad # {}
      <3>1. Bad \subseteq Nat
        BY <1>2
      <3>2. PICK k \in Bad : \A l \in Bad : k <= l
        BY <2>2, <3>1, LeastNatural
      <3>3. k \in Nat /\ k <= n /\ k # 0 /\ ~Right(k)
        BY <1>2, <1>7, <3>2
      <3>4. k \in 1..n /\ k - 1 \in 0..n /\ ~(k <= k - 1)
        BY <1>2, <3>3
      <3>5. Right(k - 1)
        BY <3>2, <3>4
      <3> QED
        BY <1>8, <3>3, <3>4, <3>5
    <2> QED
      BY <2>1, <2>2
  <1>10. ToSet(more) = {more[j] : j \in 1..n}
    BY <1>2 DEF ToSet
  <1> QED
    BY <1>1, <1>2, <1>9, <1>10

-----------------------------------------------------------------------------
(* The IOCs met so far are those in the frames of the stack, and no frame   *)
(* lists one twice.                                                         *)
Held == UNION {ToSet(stack[n].iocs) : n \in 1..Len(stack)}

IocInv ==
    /\ \A n \in 1..Len(stack) :
          /\ stack[n].iocs \in Seq(STRING) /\ IsInjective(stack[n].iocs)
          /\ stack[n].file \in Leaves \/ n > MaxDepth => stack[n].iocs = <<>>
    /\ status = "running" => met.iocs = Held
    /\ status = "done" =>
          /\ report.iocs \in Seq(STRING) /\ IsInjective(report.iocs)
          /\ ToSet(report.iocs) = met.iocs

LEMMA EmptyIocs == ToSet(<<>>) = {} /\ <<>> \in Seq(STRING) /\ IsInjective(<<>>)
  <1> DEFINE T == STRING
  <1>1. <<>> \in Seq(T)
    OBVIOUS
  <1>2. DOMAIN <<>> = {}
    OBVIOUS
  <1> QED
    BY <1>1, <1>2 DEF ToSet, IsInjective

LEMMA IocInit == Init => IocInv
  <1> SUFFICES ASSUME Init PROVE IocInv
    OBVIOUS
  <1>1. PICK f \in Roots : stack = <<NewFrame(f, Size[f])>>
    BY DEF Init
  <1> DEFINE frame == NewFrame(f, Size[f])
  <1>2. frame.iocs = <<>>
    BY <1>1, NewFrameOK, ArchiveAssumption
  <1>3. stack = <<frame>>
    BY <1>1
  <1> HIDE DEF frame
  <1>4. Len(stack) = 1 /\ stack[1] = frame
    BY <1>3
  <1>5. status = "running" /\ met.iocs = {}
    BY DEF Init
  <1>6. Held = {}
    BY <1>2, <1>4, EmptyIocs DEF Held
  <1>7. \A n \in 1..Len(stack) : stack[n].iocs = <<>>
    BY <1>2, <1>4
  <1> QED
    BY <1>5, <1>6, <1>7, EmptyIocs DEF IocInv

(* Frames that keep their files and IOCs.                                   *)
LEMMA SameIocs ==
    ASSUME IocInv, Len(stack') = Len(stack), UNCHANGED <<status, report, met>>,
           \A n \in 1..Len(stack) : stack'[n].iocs = stack[n].iocs /\ stack'[n].file = stack[n].file
    PROVE  IocInv'
  <1>1. Held' = Held
    BY DEF Held
  <1>2. \A n \in 1..Len(stack') :
           /\ stack'[n].iocs \in Seq(STRING) /\ IsInjective(stack'[n].iocs)
           /\ stack'[n].file \in Leaves \/ n > MaxDepth => stack'[n].iocs = <<>>
    BY DEF IocInv
  <1> QED
    BY <1>1, <1>2 DEF IocInv

LEMMA TopIocs ==
    ASSUME WalkInv, IocInv, status = "running",
           NEW frame, FrameOK(frame), frame.iocs = Top.iocs, frame.file = Top.file,
           stack' = SetTop(frame), UNCHANGED <<status, report, met>>
    PROVE  IocInv'
  <1>1. Top = stack[Len(stack)] /\ Len(stack) \in Nat \ {0} /\ StackOK(stack) /\ stack # <<>>
    BY RunningTop DEF WalkInv
  <1>2. /\ Len(stack') = Len(stack) /\ stack'[Len(stack)] = frame
        /\ \A n \in 1..(Len(stack) - 1) : stack'[n] = stack[n]
    BY <1>1, TopReplaced
  <1>3. \A n \in 1..Len(stack) : stack'[n].iocs = stack[n].iocs /\ stack'[n].file = stack[n].file
    BY <1>1, <1>2
  <1> QED
    BY <1>2, <1>3, SameIocs

LEMMA VisitMemberIocs ==
    ASSUME WalkInv, WorstInv, IocInv, VisitMember
    PROVE  IocInv'
  <1>1. /\ status = "running" /\ ~AtLimit /\ Top.file \in Archives
        /\ UNCHANGED <<status, report, met>>
    BY DEF VisitMember, Visiting, history
  <1>2. PICK frame, inner :
           /\ FrameOK(frame) /\ frame.file = Top.file
           /\ FrameOK(inner) /\ frame.iocs = Top.iocs /\ inner.iocs = <<>>
           /\ stack' = SetTop(frame) \/ stack' = Append(SetTop(frame), inner)
    BY VisitMemberTop
  <1>3. CASE stack' = SetTop(frame)
    BY <1>1, <1>2, <1>3, TopIocs
  <1>4. CASE stack' = Append(SetTop(frame), inner)
    <2> DEFINE left == SetTop(frame)
    <2>1. Top = stack[Len(stack)] /\ Len(stack) \in Nat \ {0} /\ StackOK(stack) /\ stack # <<>>
      BY <1>1, RunningTop DEF WalkInv
    <2>2. /\ StackOK(left) /\ Len(left) = Len(stack) /\ left[Len(stack)] = frame
          /\ \A n \in 1..(Len(stack) - 1) : left[n] = stack[n]
      BY <1>2, <2>1, TopReplaced
    <2>3. DOMAIN left = 1..Len(left)
      BY <2>2, StackFrames
    <2> HIDE DEF left
    <2>4. stack' = Append(left, inner)
      BY <1>4 DEF left
    <2>5. /\ Len(stack') = Len(stack) + 1 /\ stack'[Len(stack) + 1] = inner
          /\ \A n \in 1..Len(stack) : stack'[n] = left[n]
      BY <1>2, <2>2, <2>3, <2>4, Pushed
    <2>6. \A n \in 1..Len(stack) : stack'[n].iocs = stack[n].iocs /\ stack'[n].file = stack[n].file
      BY <1>2, <2>1, <2>2, <2>5
    <2>7. \A n \in 1..Len(stack') : n \in 1..Len(stack) \/ n = Len(stack) + 1
      BY <2>1, <2>5
    <2>8. Len(stack) + 1 \in 1..Len(stack') /\ \A n \in 1..Len(stack) : n \in 1..Len(stack')
      BY <2>1, <2>5
    <2>9. Held' = Held
      BY <1>2, <2>5, <2>6, <2>7, <2>8, EmptyIocs DEF Held
    <2>10. \A n \in 1..Len(stack') :
              /\ stack'[n].iocs \in Seq(STRING) /\ IsInjective(stack'[n].iocs)
              /\ stack'[n].file \in Leaves \/ n > MaxDepth => stack'[n].iocs = <<>>
      BY <1>2, <2>5, <2>6, <2>7, EmptyIocs DEF IocInv
    <2> QED
      BY <1>1, <2>9, <2>10 DEF IocInv
  <1> QED
    BY <1>2, <1>3, <1>4

(* A call returns with the IOCs of its frame, and those it has just met.    *)
LEMMA ReturnIocs ==
    ASSUME WalkInv, WorstInv, IocInv, status = "running",
           NEW severity \in Severities, NEW iocs \in Seq(STRING), NEW exhausted,
           IsInjective(iocs), ToSet(Top.iocs) \subseteq ToSet(iocs),
           Return(severity, iocs, exhausted), met'.iocs = met.iocs \cup ToSet(iocs)
    PROVE  IocInv'
  <1>1. /\ Top = stack[Len(stack)] /\ Len(stack) \in Nat \ {0} /\ StackOK(stack) /\ stack # <<>>
        /\ Len(stack) <= MaxDepth + 1 /\ MaxDepth \in Nat
    BY RunningTop, ArchiveAssumption DEF WalkInv, TypeOK
  <1>2. met.iocs = Held
    BY DEF IocInv
  <1>3. CASE status' = "done" /\ stack' = <<>> /\ Len(stack) = 1 /\ report'.iocs = iocs
    <2>1. Held = ToSet(Top.iocs)
      BY <1>1, <1>3 DEF Held
    <2>2. ToSet(iocs) = met'.iocs
      BY <1>2, <2>1
    <2>3. Len(stack') = 0
      BY <1>3
    <2> QED
      BY <1>3, <2>2, <2>3 DEF IocInv
  <1>4. CASE /\ status' = status /\ report' = report
             /\ StackOK(stack') /\ stack' # <<>> /\ Len(stack') = Len(stack) - 1
             /\ \A n \in 1..(Len(stack) - 2) : stack'[n] = stack[n]
             /\ stack'[Len(stack) - 1].file = stack[Len(stack) - 1].file
             /\ stack'[Len(stack) - 1].iocs = Merged(stack[Len(stack) - 1].iocs, iocs)
    <2> DEFINE outer == stack[Len(stack) - 1].iocs
               told == stack'[Len(stack) - 1].iocs
    <2>1. Len(stack') \in Nat \ {0}
      <3>1. Len(stack') # 0
        BY <1>4, EmptyStack
      <3> QED
        BY <1>1, <1>4, <3>1
    <2>2. Len(stack) - 1 \in 1..Len(stack) /\ outer \in Seq(STRING) /\ IsInjective(outer)
      <3>1. Len(stack) - 1 \in 1..Len(stack)
        BY <1>1, <1>4, <2>1
      <3> QED
        BY <3>1 DEF IocInv
    <2>3. told \in Seq(STRING) /\ ToSet(told) = ToSet(outer) \cup ToSet(iocs)
      BY <1>4, <2>2, MergedFacts
    <2>4. IsInjective(told)
      BY <1>4, <2>2, MergedFacts
    <2>5. \A n \in 1..Len(stack) : n \in 1..(Len(stack) - 2) \/ n = Len(stack) - 1 \/ n = Len(stack)
      BY <1>1
    <2>6. \A n \in 1..Len(stack') : n \in 1..(Len(stack) - 2) \/ n = Len(stack) - 1
      BY <1>1, <1>4
    <2>7. /\ \A n \in 1..(Len(stack) - 2) : n \in 1..Len(stack') /\ n \in 1..Len(stack)
          /\ Len(stack) - 1 \in 1..Len(stack') /\ Len(stack) \in 1..Len(stack)
      BY <1>1, <1>4, <2>1
    <2> HIDE DEF told, outer
    <2> DEFINE Deep == UNION {ToSet(stack[n].iocs) : n \in 1..(Len(stack) - 2)}
    <2>8. Held = Deep \cup ToSet(outer) \cup ToSet(Top.iocs)
      BY <1>1, <2>2, <2>5, <2>7 DEF Held, outer
    <2>9. Held' = Deep \cup ToSet(told)
      BY <1>4, <2>6, <2>7, SMTT(30) DEF Held, told
    <2>10. met'.iocs = Held'
      BY <1>2, <2>3, <2>8, <2>9
    <2>11. ASSUME NEW n \in 1..Len(stack')
           PROVE  /\ stack'[n].iocs \in Seq(STRING) /\ IsInjective(stack'[n].iocs)
                  /\ stack'[n].file \in Leaves \/ n > MaxDepth => stack'[n].iocs = <<>>
      <3>1. n \in 1..Len(stack) /\ n < Len(stack) /\ n <= MaxDepth
        BY <1>1, <1>4, <2>1
      <3>2. ~(stack[n].file \in Leaves)
        BY <3>1 DEF WorstInv, Leaves
      <3>3. stack'[n].file = stack[n].file
        BY <1>1, <1>4, <3>1
      <3>4. stack'[n].iocs = told \/ stack'[n] = stack[n]
        BY <1>4, <2>6 DEF told
      <3>5. stack'[n].iocs \in Seq(STRING)
        BY <2>3, <3>1, <3>4 DEF IocInv
      <3>6. IsInjective(stack'[n].iocs)
        BY <2>4, <3>1, <3>4 DEF IocInv
      <3>7. MaxDepth \in Nat /\ n \in Nat
        BY <1>1
      <3> QED
        BY <3>1, <3>2, <3>3, <3>5, <3>6, <3>7
    <2> QED
      BY <1>4, <2>10, <2>11 DEF IocInv
  <1> QED
    BY <1>1, <1>3, <1>4, Returned

LEMMA IocStep == WalkInv /\ WorstInv /\ IocInv /\ [Next]_vars => IocInv'
  <1> SUFFICES ASSUME WalkInv, WorstInv, IocInv, [Next]_vars PROVE IocInv'
    OBVIOUS
  <1>1. CASE ReadEntry
    <2>1. status = "running" /\ UNCHANGED <<status, report, met>>
      BY <1>1 DEF ReadEntry, Reading
    <2>2. PICK frame :
             /\ FrameOK(frame) /\ frame.file = Top.file /\ frame.iocs = Top.iocs
             /\ stack' = SetTop(frame)
      BY <1>1, ReadEntryTop
    <2> QED
      BY <2>1, <2>2, TopIocs
  <1>2. CASE StopReading
    <2> DEFINE frame == [Top EXCEPT !.phase = "visit"]
    <2>1. status = "running" /\ FrameOK(Top) /\ stack' = SetTop(frame) /\ UNCHANGED <<status, report, met>>
      BY <1>2, RunningTop DEF StopReading, Reading
    <2>2. FrameOK(frame) /\ frame.file = Top.file /\ frame.iocs = Top.iocs
      BY <2>1 DEF FrameOK, Fields
    <2> HIDE DEF frame
    <2> QED
      BY <2>1, <2>2, TopIocs
  <1>3. CASE ReadRaises
    <2>1. status' = "raised" /\ Len(stack') = 0
      BY <1>3 DEF ReadRaises
    <2> QED
      BY <2>1 DEF IocInv
  <1>4. CASE VisitMember
    BY <1>4, VisitMemberIocs
  <1>5. CASE CloseArchive
    <2>1. PICK severity, exhausted : Return(severity, Top.iocs, exhausted) /\ severity \in Severities
      <3> DEFINE a == IF Top.encrypted THEN MEDIUM ELSE NONE
                 b == IF Top.executable THEN MEDIUM ELSE NONE
                 c == IF Exhausted THEN INFO ELSE NONE
      <3>1. status = "running" /\ Top.severity \in Severities
        BY <1>5, RunningTop DEF CloseArchive, Visiting, FrameOK
      <3>2. a \in Severities /\ b \in Severities /\ c \in Severities
        BY DEF Severities
      <3>3. Return(Max({Top.severity, a, b, c}), Top.iocs, Exhausted)
        BY <1>5 DEF CloseArchive
      <3> HIDE DEF a, b, c
      <3> QED
        BY <3>1, <3>2, <3>3, WorstOfFour
    <2>2. status = "running" /\ met'.iocs = met.iocs
      BY <1>5 DEF CloseArchive, Visiting, history
    <2>3. Top.iocs \in Seq(STRING) /\ IsInjective(Top.iocs) /\ ToSet(Top.iocs) \subseteq met.iocs
      <3>1. Top = stack[Len(stack)] /\ Len(stack) \in 1..Len(stack)
        BY <2>2, RunningTop
      <3>2. ToSet(Top.iocs) \subseteq Held
        BY <3>1 DEF Held
      <3> QED
        BY <2>2, <3>1, <3>2 DEF IocInv
    <2>4. met'.iocs = met.iocs \cup ToSet(Top.iocs)
      BY <2>2, <2>3
    <2> QED
      BY <2>1, <2>2, <2>3, <2>4, ReturnIocs
  <1>6. CASE AnalyzeLeaf
    <2> DEFINE found == IF IsCut(Top) THEN <<>> ELSE Iocs[Top.file]
    <2>1. /\ status = "running" /\ Top.file \in Leaves /\ grade[Top.file] \in Severities
          /\ Return(grade[Top.file], found, FALSE) /\ met'.iocs = met.iocs \cup ToSet(found)
      BY <1>6 DEF AnalyzeLeaf, WalkInv, TypeOK
    <2>2. found \in Seq(STRING) /\ IsInjective(found)
      BY <2>1, EmptyIocs, ArchiveAssumption
    <2>3. ToSet(Top.iocs) = {}
      <3>1. Top = stack[Len(stack)] /\ Len(stack) \in 1..Len(stack)
        BY <2>1, RunningTop
      <3> QED
        BY <2>1, <3>1, EmptyIocs DEF IocInv
    <2> HIDE DEF found
    <2> QED
      BY <2>1, <2>2, <2>3, ReturnIocs
  <1>7. CASE StopAtLimit
    <2>1. /\ status = "running" /\ INFO \in Severities /\ Return(INFO, <<>>, FALSE) /\ AtLimit
          /\ met' = met
      BY <1>7 DEF StopAtLimit, Severities, history
    <2>2. ToSet(Top.iocs) = {}
      <3>1. Top = stack[Len(stack)] /\ Len(stack) \in 1..Len(stack) /\ Len(stack) > MaxDepth
        BY <2>1, RunningTop, ArchiveAssumption DEF AtLimit
      <3> QED
        BY <2>1, <3>1, EmptyIocs DEF IocInv
    <2>3. met'.iocs = met.iocs \cup ToSet(<<>>)
      BY <2>1, EmptyIocs
    <2> QED
      BY <2>1, <2>2, <2>3, EmptyIocs, ReturnIocs
  <1>8. CASE UNCHANGED vars
    BY <1>8 DEF vars, history, IocInv, Held
  <1> QED
    BY <1>1, <1>2, <1>3, <1>4, <1>5, <1>6, <1>7, <1>8 DEF Next

LEMMA LengthIsCount ==
    ASSUME NEW T, NEW q \in Seq(T), IsInjective(q)
    PROVE  Len(q) = Cardinality(ToSet(q))
  <1>1. Len(q) \in Nat /\ DOMAIN q = 1..Len(q) /\ q \in [1..Len(q) -> ToSet(q)]
    BY DEF ToSet
  <1>2. q \in Bijection(1..Len(q), ToSet(q))
    BY <1>1 DEF Bijection, Injection, Surjection, IsInjective, ToSet
  <1>3. ExistsBijection(1..Len(q), ToSet(q))
    BY <1>2 DEF ExistsBijection
  <1>4. IsFiniteSet(1..Len(q)) /\ Cardinality(1..Len(q)) = Len(q)
    BY <1>1, FS_Interval
  <1> QED
    BY <1>3, <1>4, FS_Bijection

(* Whatever is nested in what, the report about the file that was given     *)
(* lists the IOCs of every leaf that was analysed, each once, and no others *)
(* (archive.py:332-337).                                                    *)
THEOREM IocsReachReport == Spec => []IocsSurface
  <1>1. IocInv => IocsSurface
    <2> SUFFICES ASSUME IocInv, status = "done"
                 PROVE  ToSet(report.iocs) = met.iocs /\ Len(report.iocs) = Cardinality(met.iocs)
      BY DEF IocsSurface
    <2> QED
      BY LengthIsCount DEF IocInv
  <1> QED
    BY <1>1, WalkInit, WalkStep, WorstInit, WorstStep, IocInit, IocStep, PTL DEF Spec
=============================================================================
