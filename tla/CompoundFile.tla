---------------------------- MODULE CompoundFile ----------------------------
(* The compound file under an Office document (analyze/ole.py): sectors are *)
(* chained by the FAT, small streams live in mini sectors of their own      *)
(* table, and the directory is a tree of entries. A sector is a sequence of *)
(* cells: numbers of a table, directory entries, or pieces of a stream. A   *)
(* mini sector is one cell.                                                 *)
EXTENDS OfficeFile

CONSTANTS
    Documents,   \* the files that may be analysed
    MaxSectors,  \* MAX_SECTORS
    MaxEntries,  \* MAX_DIR_ENTRIES
    MaxStream,   \* MAX_STREAM_BYTES
    MaxDepth     \* how deep _resolve_streams goes

VARIABLES
    input,   \* the wrapper, the fields of the header and the sectors after it
    work,    \* the parsed container: tables, directory, streams
    report   \* the findings
vars == <<input, work, report>>

Free == -1
End == -2
Regular(n) == n >= 0
Nowhere == Free   \* NOSTREAM

(* Past the end of the file there is nothing to read.                       *)
ReadSector(n) == IF n + 1 \in DOMAIN input.sectors THEN input.sectors[n + 1] ELSE <<>>
Whole(n) == Len(ReadSector(n)) = input.per
ReadSectors(chain) == FlattenSeq([i \in DOMAIN chain |-> ReadSector(chain[i])])

(* _walk_chain: no sector twice, none the table does not know.              *)
WalkChain(start, fat) ==
    FoldLeft(LAMBDA acc, i :
                 IF Regular(acc.at) /\ acc.at < Len(fat) /\ acc.at \notin ToSet(acc.chain)
                 THEN [chain |-> Append(acc.chain, acc.at), at |-> fat[acc.at + 1]]
                 ELSE [acc EXCEPT !.at = End],
             [chain |-> <<>>, at |-> start], [i \in 1..MaxSectors |-> i]).chain
Upto(s, n) == SubSeq(s, 1, Min({n, Len(s)}))

(* A stream shorter than the cutoff is in the mini stream, if there is one. *)
SmallUpTo(size) == size <= input.cutoff /\ work.mini # <<>>   \* mutant: the cutoff counts as small
Small(size) == size < input.cutoff /\ work.mini # <<>>
StreamData(e) ==
    LET size == Min({e.size, MaxStream})
        chain == WalkChain(e.start, work.minifat)
        cells == [i \in DOMAIN chain |-> IF chain[i] < Len(work.mini) THEN <<work.mini[chain[i] + 1]>> ELSE <<>>]
    IN  CASE size = 0    -> <<>>
          [] size > 0 /\ Small(size)  -> Upto(FlattenSeq(cells), size)
          [] size > 0 /\ ~Small(size) -> Upto(ReadSectors(WalkChain(e.start, work.fat)), size)

----------------------------------------------------------------------------
Init ==
    /\ input \in Documents
    /\ work = [pc |-> "wrapper", difat |-> <<>>, next |-> End, hops |-> 0, fat |-> <<>>, directory |-> <<>>,
               mini |-> <<>>, minifat |-> <<>>, stack |-> <<>>, streams |-> <<>>, modules |-> <<>>, done |-> FALSE]
    /\ report = {}

Step(pc, w) == work' = [w EXCEPT !.pc = pc] /\ UNCHANGED <<input, report>>

(* analyze_ooxml and analyze_rtf as far as the compound file inside, which  *)
(* analyze_ole is handed at once.                                           *)
Unwrap(opens) ==
    /\ work.pc = "wrapper" /\ ~WrapperRaises(input.wrapper) /\ opens = HoldsCompound(input.wrapper)
    /\ work' = [work EXCEPT !.pc = "header", !.done = ~opens]
    /\ report' = WrapperFindings(input.wrapper)
    /\ UNCHANGED input
ReadRaises ==
    /\ work.pc = "wrapper" /\ WrapperRaises(input.wrapper)
    /\ work' = [work EXCEPT !.done = TRUE]
    /\ UNCHANGED <<input, report>>

(* parse_cfb and _parse_header: signature, byte order and sector sizes.     *)
Refuse ==
    /\ work.pc = "header" /\ ~(input.magic /\ input.sound)
    /\ work' = [work EXCEPT !.done = TRUE]
    /\ report' = report \cup Broken(input.wrapper)
    /\ UNCHANGED input
ReadHeader ==
    /\ work.pc = "header" /\ input.magic /\ input.sound
    /\ Step("difat", [work EXCEPT !.difat = SelectSeq(input.difat, LAMBDA n : n # Free), !.next = input.firstDifat])

(* _build_fat: the list of table sectors goes on in sectors of its own,     *)
(* whose last cell names the next; then the table itself.                   *)
MoreTable == Regular(work.next) /\ work.hops < MaxSectors /\ Whole(work.next)
ReadDifat ==
    /\ work.pc = "difat" /\ MoreTable
    /\ LET block == ReadSector(work.next)
       IN  Step("difat", [work EXCEPT !.difat = @ \o SelectSeq(Front(block), LAMBDA n : n # Free),
                                      !.next = Last(block), !.hops = @ + 1])
BuildFat ==
    /\ work.pc = "difat" /\ ~MoreTable
    /\ LET listed == Upto(work.difat, input.fatSectors)
           missing == SelectInSeq(listed, LAMBDA n : ~Whole(n))
           present == IF missing = 0 THEN listed ELSE Upto(listed, missing - 1)
       IN  Step("directory", [work EXCEPT !.fat = ReadSectors(Upto(present, (MaxSectors - 1) \div input.per + 1))])

BuildDirectory ==
    /\ work.pc = "directory"
    /\ Step("mini", [work EXCEPT !.directory = Upto(ReadSectors(WalkChain(input.firstDir, work.fat)), MaxEntries)])

(* The first entry is the root; its chain holds the mini stream.            *)
BuildMini ==
    /\ work.pc = "mini"
    /\ LET rooted == work.directory # <<>> /\ work.directory[1].type = "root"
           stream == Upto(ReadSectors(WalkChain(work.directory[1].start, work.fat)), work.directory[1].size)
       IN  Step("walk", [work EXCEPT
               !.mini = IF rooted THEN stream ELSE @,
               !.minifat = ReadSectors(WalkChain(input.firstMini, work.fat)),
               !.stack = IF work.directory = <<>> THEN <<>>
                         ELSE <<[at |-> work.directory[1].child, path |-> <<>>, depth |-> 0]>>])

(* _resolve_streams: an entry, what it contains, its left and right         *)
(* siblings, each one level deeper. A later stream of the same path wins.   *)
Beyond(visit) == visit.at = Nowhere \/ visit.at >= Len(work.directory) \/ visit.depth > MaxDepth
SkipEntry ==
    /\ work.pc = "walk" /\ work.stack # <<>> /\ Beyond(Head(work.stack))
    /\ Step("walk", [work EXCEPT !.stack = Tail(@)])
VisitEntry ==
    /\ work.pc = "walk" /\ work.stack # <<>> /\ ~Beyond(Head(work.stack))
    /\ LET visit == Head(work.stack)
           e == work.directory[visit.at + 1]
           path == Append(visit.path, e.name)
           data == IF e.type = "stream" /\ Regular(e.start) THEN StreamData(e) ELSE <<>>
           go(at, prefix) == [at |-> at, path |-> prefix, depth |-> visit.depth + 1]
       IN  Step("walk", [work EXCEPT
               !.streams = IF data = <<>> THEN @ ELSE [p \in DOMAIN @ \cup {path} |-> IF p = path THEN data ELSE @[p]],
               !.stack = (IF e.type \in {"storage", "root"} THEN <<go(e.child, path)>> ELSE <<>>)
                         \o <<go(e.left, visit.path), go(e.right, visit.path)>> \o Tail(@)])

(* analyze_ole: the marks of the container, then its macros.                *)
Ending(name) == \E p \in DOMAIN work.streams : Last(p) = name
HasVba == \E p \in DOMAIN work.streams : \E i \in 1..Len(p) - 1 : p[i] = "VBA" /\ p[i + 1] = "dir"
RiskyObjects == {"Equation Editor 3.0", "Package"}
OleFindings ==
    Marked(HasVba, "vba_project", 50)
    \cup Marked(\E e \in ToSet(work.directory) : e.clsid \in RiskyObjects, "suspicious_clsid", 70)
    \cup Marked(Ending("Ole10Native"), "ole10native", 70)
    \cup Marked(Ending("Equation Native"), "equation_editor", 70)
Analyze ==
    /\ work.pc = "walk" /\ work.stack = <<>>
    /\ LET kind == input.wrapper.kind
           modules == IF kind = "ooxml" \/ (kind = "ole" /\ HasVba) THEN Modules(work.streams) ELSE <<>>
           native == \E p \in DOMAIN work.streams : "Equation Native" \in ToSet(p)
       IN  /\ work' = [work EXCEPT !.pc = "end", !.modules = modules, !.done = TRUE]
           /\ report' = report
                 \cup (IF kind = "ole" THEN OleFindings ELSE {})
                 \cup Marked(kind = "rtf" /\ native, "equation_native_payload", 90)
                 \cup VbaFindings(modules)
    /\ UNCHANGED input

Next ==
    /\ ~work.done
    /\ \/ Unwrap(TRUE) \/ Unwrap(FALSE) \/ ReadRaises
       \/ Refuse \/ ReadHeader \/ ReadDifat \/ BuildFat \/ BuildDirectory \/ BuildMini
       \/ SkipEntry \/ VisitEntry \/ Analyze
Spec == Init /\ [][Next]_vars
=============================================================================
