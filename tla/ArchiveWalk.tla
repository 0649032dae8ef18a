---------------------------- MODULE ArchiveWalk ----------------------------
(* The recursive archive analyzer (analyze/archive.py) and the dispatcher   *)
(* that calls it for members and is called by it (analyze/dispatcher.py).   *)
(* The recursion is a stack of frames, one per buffer under analysis; all   *)
(* of them draw on one budget of uncompressed bytes.                        *)
EXTENDS Integers, Sequences, SequencesExt, FiniteSets, FiniteSetsExt

CONSTANTS
    Files,       \* contents that may be met
    Kind,        \* Kind[f]: "zip", "tar", "stream" (gzip, bzip2, xz) or "leaf"
    Size,        \* Size[f]: its bytes
    Members,     \* Members[f]: the entries of an archive, in order
    Iocs,        \* Iocs[f]: the IOCs a sweep of a leaf finds, in order, each once
    Roots,       \* the files the command may be given
    MaxDepth,    \* MAX_ARCHIVE_DEPTH
    MaxMembers,  \* MAX_ARCHIVE_MEMBERS
    MaxMember,   \* MAX_MEMBER_BYTES
    MaxTotal,    \* MAX_TOTAL_BYTES
    BombBytes,   \* ZIP_BOMB_MIN_BYTES
    BombRatio    \* ZIP_BOMB_RATIO

Archives == {f \in Files : Kind[f] # "leaf"}
Leaves == Files \ Archives

(* An entry as its archive describes it: declared and packed are the sizes  *)
(* the directory claims, executable is a matter of the name.                *)
Entry == [file : Files, encrypted : BOOLEAN, executable : BOOLEAN, declared : Nat, packed : Nat]

ASSUME ArchiveAssumption ==
    /\ Kind \in [Files -> {"zip", "tar", "stream", "leaf"}]
    /\ Size \in [Files -> Nat \ {0}]
    /\ Members \in [Archives -> Seq(Entry)]
    /\ \A f \in Archives : Kind[f] = "stream" => Len(Members[f]) <= 1
    /\ Iocs \in [Leaves -> Seq(STRING)] /\ \A f \in Leaves : IsInjective(Iocs[f])
    /\ Roots \subseteq Files
    /\ MaxDepth \in Nat /\ MaxMembers \in Nat
    /\ MaxMember \in Nat /\ MaxTotal \in Nat
    /\ BombBytes \in Nat /\ BombRatio \in Nat

(* Severity of findings; NONE is a report without any.                      *)
NONE == 0
INFO == 10
MEDIUM == 50
HIGH == 70
CRITICAL == 90
Severities == {NONE, INFO, MEDIUM, HIGH, CRITICAL}

(* AnalyzerReport.verdict.                                                  *)
Verdict(severity) ==
    IF severity >= HIGH THEN "malicious" ELSE IF severity >= MEDIUM THEN "suspicious" ELSE "clean"

(* What reading entry i of archive f does, and, for i = 0, opening f.       *)
Places == UNION {{f} \X (0..Len(Members[f])) : f \in Archives}
Healths == {"ok", "corrupt", "raises"}

VARIABLES
    health,  \* state of every place, part of the input
    grade,   \* worst severity the analyzers give to a leaf, part of the input
    stack,   \* calls of analyze_bytes, outermost first
    budget,  \* bytes that may still be produced
    status,  \* "running", "done" or "raised"
    report,  \* the outermost report, when done
    kept,    \* history: bytes produced so far
    short,   \* history: the budget cut a member or left one out
    met      \* history: worst severity and IOCs of the leaves analysed

input == <<health, grade>>
history == <<kept, short, met>>
vars == <<input, stack, budget, status, report, history>>

(* A buffer under analysis: the first got bytes of a file, the entries      *)
(* read from it so far (its members), and its report up to now.             *)
NewFrame(file, got) ==
    [file |-> file, got |-> got, phase |-> "read", next |-> 1, members |-> <<>>,
     severity |-> NONE, iocs |-> <<>>, encrypted |-> FALSE, executable |-> FALSE]

NoReport == [severity |-> NONE, iocs |-> <<>>, exhausted |-> FALSE]

Top == Last(stack)
SetTop(frame) == Append(Front(stack), frame)
IsCut(frame) == frame.got < Size[frame.file]

(* Mutant of AtLimit: one level too deep.                                   *)
AtLimitLate == Len(stack) - 1 > MaxDepth

(* The outermost buffer has depth 0.                                        *)
AtLimit == Len(stack) - 1 >= MaxDepth

Worse(s, t) == Max({s, t})

-----------------------------------------------------------------------------
(* Reading entries.                                                         *)

(* The data of a tar's entries follow each other.                           *)
Offset(f, i) == SumFunctionOnSet([j \in DOMAIN Members[f] |-> Size[Members[f][j].file]], 1..(i - 1))

(* How many entries an extractor goes through.  A zip's directory is at its *)
(* end, so a cut zip has none; a cut tar ends in the middle.                *)
Listed(frame) ==
    LET f == frame.file
        entries == {i \in DOMAIN Members[f] : Kind[f] = "tar" => Offset(f, i) < frame.got}
    IN  IF health[<<f, 0>>] = "corrupt" \/ (Kind[f] = "zip" /\ IsCut(frame)) THEN 0
        ELSE Min({MaxMembers, Cardinality(entries)})

(* Declared sizes that look like a decompression bomb.                      *)
IsBomb(frame, entry) ==
    /\ Kind[frame.file] = "zip"
    /\ entry.declared >= BombBytes
    /\ entry.declared >= BombRatio * Max({1, entry.packed})

Attempted(frame, entry) == ~IsBomb(frame, entry) /\ ~entry.encrypted

(* The numbers of bytes that reading entry i with a cap may give.  A cut    *)
(* stream gives some part of what it holds.                                 *)
Readable(frame, i, cap) ==
    LET f == frame.file
        whole == Min({Size[Members[f][i].file], cap})
        reads == /\ Attempted(frame, Members[f][i])
                 /\ health[<<f, i>>] = "ok"
                 /\ Kind[f] = "tar" => Offset(f, i) + whole <= frame.got
    IN  IF ~reads THEN {0}
        ELSE IF Kind[f] = "stream" /\ IsCut(frame) THEN 0..whole
        ELSE {whole}

(* Mutant of Cap: each member may be as large as any.                       *)
CapAlone == MaxMember

Cap == Min({MaxMember, budget})

(* The extractor looks at its next entry.  Only the single streams do so    *)
(* with nothing left of the budget.                                         *)
HasEntry ==
    /\ Top.next <= Listed(Top)
    /\ Kind[Top.file] = "stream" \/ budget > 0

Reading == status = "running" /\ Top.file \in Archives /\ ~AtLimit /\ Top.phase = "read"

(* zlib.error, LZMAError and NotImplementedError of a zip are not caught.   *)
Raises ==
    /\ Kind[Top.file] = "zip" /\ ~IsCut(Top)
    /\ \/ health[<<Top.file, 0>>] = "raises"
       \/ HasEntry /\ Attempted(Top, Members[Top.file][Top.next]) /\ health[<<Top.file, Top.next>>] = "raises"

-----------------------------------------------------------------------------
Init ==
    /\ health \in {[p \in Places |-> "ok"]} \cup
                 {[p \in Places |-> IF p = q THEN h ELSE "ok"] : q \in Places, h \in {"corrupt", "raises"}}
    /\ grade \in [Leaves -> {INFO, MEDIUM, CRITICAL}]
    /\ \E f \in Roots : stack = <<NewFrame(f, Size[f])>>
    /\ budget = MaxTotal
    /\ status = "running"
    /\ report = NoReport
    /\ kept = 0 /\ short = FALSE /\ met = [severity |-> NONE, iocs |-> {}]

(* The extractor reads its next entry: an encrypted one and a bomb give no  *)
(* bytes, nor does one that fails.  A stream without bytes has no member.   *)
ReadEntry ==
    /\ Reading /\ HasEntry /\ ~Raises
    /\ \E got \in Readable(Top, Top.next, Cap) :
           /\ budget' = budget - got
           /\ kept' = kept + got
           /\ stack' = SetTop([Top EXCEPT
                  !.next = @ + 1,
                  !.members = IF Kind[Top.file] = "stream" /\ got = 0 THEN @
                              ELSE Append(@, <<Members[Top.file][Top.next], got>>)])
           /\ short' = (short \/ (got = Cap /\ Max(Readable(Top, Top.next, MaxMember)) > Cap))
    /\ UNCHANGED <<input, status, report, met>>

(* The members of this level are complete before any is looked into.        *)
StopReading ==
    /\ Reading /\ ~HasEntry /\ ~Raises
    /\ stack' = SetTop([Top EXCEPT !.phase = "visit"])
    /\ short' = (short \/ Top.next <= Listed(Top))
    /\ UNCHANGED <<input, budget, status, report, kept, met>>

(* The exception unwinds every call.                                        *)
ReadRaises ==
    /\ Reading /\ Raises
    /\ status' = "raised" /\ stack' = <<>>
    /\ UNCHANGED <<input, budget, report, history>>

-----------------------------------------------------------------------------
Visiting == status = "running" /\ Top.file \in Archives /\ ~AtLimit /\ Top.phase = "visit"

(* Mutant of VisitMember: an encrypted member is counted and not removed.   *)
VisitMemberAgain ==
    /\ Visiting /\ Top.members # <<>>
    /\ LET entry == Head(Top.members)[1]
           got == Head(Top.members)[2]
           unpacked == [Top EXCEPT !.members = Tail(@), !.executable = @ \/ entry.executable]
       IN  stack' = IF entry.encrypted THEN SetTop([Top EXCEPT !.encrypted = TRUE])
                    ELSE IF got = 0
                    THEN SetTop(IF entry.declared >= BombBytes /\ entry.packed > 0
                                THEN [unpacked EXCEPT !.severity = Worse(@, HIGH)] ELSE unpacked)
                    ELSE Append(SetTop(unpacked), NewFrame(entry.file, got))
    /\ UNCHANGED <<input, budget, status, report, history>>

(* The next member is taken up: no bytes are passed on of an encrypted one, *)
(* nor of one that is a bomb or could not be read.                          *)
VisitMember ==
    /\ Visiting /\ Top.members # <<>>
    /\ LET entry == Head(Top.members)[1]
           got == Head(Top.members)[2]
           unpacked == [Top EXCEPT !.members = Tail(@),
                                   !.executable = @ \/ entry.executable,
                                   !.encrypted = @ \/ entry.encrypted]
       IN  stack' = IF entry.encrypted THEN SetTop(unpacked)
                    ELSE IF got = 0
                    THEN SetTop(IF entry.declared >= BombBytes /\ entry.packed > 0
                                THEN [unpacked EXCEPT !.severity = Worse(@, HIGH)] ELSE unpacked)
                    ELSE Append(SetTop(unpacked), NewFrame(entry.file, got))
    /\ UNCHANGED <<input, budget, status, report, history>>

(* Mutant of Graded: only malicious members count.                          *)
GradedMalicious(severity) == IF Verdict(severity) = "malicious" THEN HIGH ELSE NONE

(* What a member's verdict adds to its archive.                             *)
Graded(severity) ==
    CASE Verdict(severity) = "malicious"  -> HIGH
      [] Verdict(severity) = "suspicious" -> MEDIUM
      [] OTHER                            -> NONE

(* Mutant of Merged: the IOCs are not compared.                             *)
MergedAll(iocs, more) == iocs \o more

(* A member's IOCs are added to those of its archive, each once.            *)
Merged(iocs, more) ==
    FoldLeft(LAMBDA known, i : IF Contains(known, i) THEN known ELSE Append(known, i), iocs, more)

(* analyze_bytes returns to the archive, or analyze to its caller.          *)
Return(severity, iocs, exhausted) ==
    IF Len(stack) = 1
    THEN /\ status' = "done" /\ stack' = <<>>
         /\ report' = [severity |-> severity, iocs |-> iocs, exhausted |-> exhausted]
    ELSE LET outer == stack[Len(stack) - 1]
         IN  /\ stack' = Append(Front(Front(stack)),
                    [outer EXCEPT !.severity = Worse(@, Graded(severity)), !.iocs = Merged(@, iocs)])
             /\ UNCHANGED <<status, report>>

(* A leaf is analysed and swept; what is left of a cut leaf has no IOCs.    *)
AnalyzeLeaf ==
    /\ status = "running" /\ Top.file \in Leaves
    /\ LET found == IF IsCut(Top) THEN <<>> ELSE Iocs[Top.file]
       IN  /\ Return(grade[Top.file], found, FALSE)
           /\ met' = [severity |-> Worse(met.severity, grade[Top.file]), iocs |-> met.iocs \cup ToSet(found)]
    /\ UNCHANGED <<input, budget, kept, short>>

StopAtLimit ==
    /\ status = "running" /\ Top.file \in Archives /\ AtLimit
    /\ Return(INFO, <<>>, FALSE)
    /\ UNCHANGED <<input, budget, history>>

(* Mutant of Exhausted: a budget used to the last byte is not noticed.      *)
ExhaustedOverdrawn == budget < 0

Exhausted == budget <= 0

(* The findings about the archive as a whole.                               *)
CloseArchive ==
    /\ Visiting /\ Top.members = <<>>
    /\ Return(Max({Top.severity,
                   IF Top.encrypted THEN MEDIUM ELSE NONE,
                   IF Top.executable THEN MEDIUM ELSE NONE,
                   IF Exhausted THEN INFO ELSE NONE}), Top.iocs, Exhausted)
    /\ UNCHANGED <<input, budget, history>>

Next ==
    \/ ReadEntry \/ StopReading \/ ReadRaises
    \/ VisitMember \/ CloseArchive
    \/ AnalyzeLeaf \/ StopAtLimit

Spec == Init /\ [][Next]_vars

(* The analysis is a sequential program that runs on.                       *)
FairSpec == Spec /\ WF_vars(Next)

-----------------------------------------------------------------------------
(* Every variable keeps its type, the budget is not overdrawn and calls of  *)
(* analyze_bytes nest no deeper than the depth limit allows.                *)
TypeOK ==
    /\ health \in [Places -> Healths]
    /\ grade \in [Leaves -> Severities]
    /\ Len(stack) <= MaxDepth + 1
    /\ \A n \in DOMAIN stack : stack[n].file \in Files /\ stack[n].severity \in Severities
    /\ budget \in 0..MaxTotal
    /\ status \in {"running", "done", "raised"}
    /\ report.severity \in Severities
    /\ kept \in Nat /\ short \in BOOLEAN

(* archive.py:15 "a shared uncompressed-bytes budget across the whole       *)
(* recursion bounds total work": what the members of all levels take is     *)
(* exactly what the budget has lost, and never more than MaxTotal.          *)
BudgetHeld == kept + budget = MaxTotal /\ kept <= MaxTotal

(* However deep it lies, no analysed file has a worse verdict than the      *)
(* report about the file that was given (archive.py:348-365).               *)
WorstSurfaces ==
    status = "done" =>
        /\ Verdict(met.severity) = "malicious" => Verdict(report.severity) = "malicious"
        /\ Verdict(met.severity) = "suspicious" => Verdict(report.severity) # "clean"

(* The IOCs of all analysed files are in the report, each once, and no      *)
(* others (archive.py:332-337).                                             *)
IocsSurface ==
    status = "done" => ToSet(report.iocs) = met.iocs /\ Len(report.iocs) = Cardinality(met.iocs)

(* When the byte budget cut a member or left one out, at whatever level,    *)
(* the report about the file that was given says so (archive.py:392-400).   *)
(* What the caps on the number and the size of members cut is not reported. *)
ShortageReported == status = "done" /\ short => report.exhausted

(* The analysis ends, also of an archive that contains itself.              *)
WalkEnds == <>(status # "running")

(* archive.py:20 "Everything is total: [...] degrades the report, it never  *)
(* raises."                                                                 *)
NeverRaises == status # "raised"
=============================================================================
