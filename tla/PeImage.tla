------------------------------ MODULE PeImage ------------------------------
(* A Windows image (analyze/pe.py, analyze/resources.py). Its tables name   *)
(* each other by the addresses they will have in memory (RVAs), which the   *)
(* section table turns into places in the file; only a debug record is      *)
(* named by its place.                                                      *)
EXTENDS ImageFile

CONSTANTS
    PeFiles,    \* the images that may be analysed
    Flag,       \* the top bit of a thunk and of a resource's offset
    MaxDebug,   \* debug entries looked at
    MaxLeaves,  \* _MAX_DIR_ENTRIES of a resource tree
    MaxData     \* a longer resource is passed over

VARIABLES
    input,   \* the fields of the headers, and the cells of the whole file
    work,    \* the tables read so far
    report   \* the findings
vars == <<input, work, report>>

(* The directories, counted from one.                                       *)
EXPORT == 1
IMPORT == 2
RESOURCE == 3
DEBUG == 7
TLS == 10
DELAYED == 14
MANAGED == 15
MANIFEST == 24   \* RT_MANIFEST
CODEVIEW == 2

Here(at) == Num(input.cells, at)
Text(at) == Str(input.cells, at)
Plus(at, n) == IF at = None THEN None ELSE at + n

(* A directory the header does not list is as good as an empty one.         *)
Dir(k) == IF k \in DOMAIN input.dirs THEN input.dirs[k] ELSE [rva |-> 0, size |-> 0]
Listed(k) == Dir(k).rva # 0 /\ Dir(k).size # 0

HasData(s) == s.raw # 0 /\ s.rsize # 0
HoldsOneMore(s, rva) == s.va <= rva /\ rva <= s.va + s.rsize   \* mutant: the next section's first byte too
Holds(s, rva) == s.va <= rva /\ rva < s.va + s.rsize

(* In bits a byte, what is 7.5 or more counted as 8.                        *)
Entropy(s) == IF HasData(s) /\ Slice(input.cells, s.raw, s.rsize) THEN s.entropy ELSE 0

(* rva_to_offset: the first section with data that holds the address.       *)
Offset(rva) ==
    LET i == SelectInSeq(work.ranges, LAMBDA s : Holds(s, rva))
    IN  IF rva <= 0 \/ i = 0 THEN None ELSE work.ranges[i].raw + rva - work.ranges[i].va

----------------------------------------------------------------------------
Init ==
    /\ input \in PeFiles
    /\ work = [pc |-> "headers", sections |-> <<>>, ranges |-> <<>>, imports |-> <<>>, next |-> 0,
               exports |-> <<>>, stack |-> <<>>, leaves |-> <<>>, pdb |-> "", done |-> FALSE]
    /\ report = {}

Step(pc, w) == work' = [w EXCEPT !.pc = pc] /\ UNCHANGED <<input, report>>

Symbols == UNION {ToSet(work.imports[i].symbols) : i \in DOMAIN work.imports}
Behaviour ==
    Combos([format |-> "pe", symbols |-> Symbols, packed |-> input.packed,
            count |-> FoldLeft(LAMBDA n, lib : n + Len(lib.symbols), 0, work.imports),
            libraries |-> Len(work.imports), managed |-> Listed(MANAGED),
            dense |-> \E s \in ToSet(work.sections) : Entropy(s) >= 7 /\ s.rsize > MinBulk])

(* A header that is not there ends the analysis of the format, and what is  *)
(* then known of the image - nothing - goes through the rules like any.     *)
Counted ==
    Marked(input.claimed = 0, "zero_sections", HIGH)
    \cup Marked(input.claimed > MaxSections, "too_many_sections", MEDIUM)
Refuse ==
    /\ work.pc = "headers" /\ input.defect # "none"
    /\ work' = [work EXCEPT !.pc = "refused", !.done = TRUE]
    /\ report' = {Finding(input.defect, HIGH), Finding("no_imports", HIGH)}
                 \cup IF input.defect = "truncated_opt" THEN Counted ELSE {}
    /\ UNCHANGED input

Odd(s) ==
    Marked(Entropy(s) >= 8 /\ s.rsize > 0, "high_entropy_section", MEDIUM)
    \cup Marked({"W", "X"} \subseteq s.flags, "wx_section", HIGH)
    \cup Marked(s.vsize > 10 * s.rsize /\ s.rsize > 0, "virt_much_larger", LOW)
ReadHeaders ==
    /\ work.pc = "headers" /\ input.defect = "none"
    /\ LET sections == First(input.sections, Min({input.claimed, MaxSections}))
       IN  /\ work' = [work EXCEPT !.pc = "imports", !.sections = sections, !.ranges = SelectSeq(sections, HasData)]
           /\ report' = Counted
                 \cup Marked(~input.known, "bad_opt_magic", MEDIUM)
                 \cup Marked(~input.aslr, "no_aslr", LOW) \cup Marked(~input.dep, "no_dep", LOW)
                 \cup Marked(input.checksum = "zero" /\ input.dll, "zero_checksum_dll", INFO)
                 \cup UNION {Odd(s) : s \in ToSet(sections)}
    /\ UNCHANGED input

(* _parse_imports and _parse_delay_imports: a library per descriptor, and   *)
(* the thunks up to a zero. The lookup table is preferred to the address    *)
(* table, which a loader overwrites.                                        *)
Thunks(rva) ==
    LET at == Offset(rva)
        entry(j) == IF at = None THEN None ELSE Here(at + j - 1)
        stop == Min({j \in 1..MaxSymbols : entry(j) \in {None, 0}} \cup {MaxSymbols + 1})
        symbol(e) == IF e >= Flag THEN "#" \o ToString((e - Flag) % 2^16) ELSE Text(Plus(Offset(e), 1))
    IN  SelectSeq([j \in 1..stop - 1 |-> symbol(entry(j))], LAMBDA s : s # "")
Descriptor(dir, width) ==
    LET at == IF Offset(Dir(dir).rva) = None THEN None ELSE Offset(Dir(dir).rva) + work.next * width
    IN  IF work.next < MaxLibs /\ Slice(input.cells, at, width) THEN [i \in 1..width |-> Here(at + i - 1)] ELSE <<>>
More(d) == \E i \in DOMAIN d : d[i] # 0
ReadImport ==
    /\ work.pc = "imports"
    /\ LET d == Descriptor(IMPORT, 3)
           name == Text(Offset(d[2]))
       IN  /\ More(d)
           /\ Step("imports", [work EXCEPT !.next = @ + 1,
                 !.imports = Append(@, [library |-> IF name = "" THEN "<unnamed>" ELSE name,
                                        symbols |-> Thunks(IF d[1] # 0 THEN d[1] ELSE d[3])])])
EndImports == work.pc = "imports" /\ ~More(Descriptor(IMPORT, 3)) /\ Step("delayed", [work EXCEPT !.next = 0])
ReadDelayed ==
    /\ work.pc = "delayed"
    /\ LET d == Descriptor(DELAYED, 2)
           name == Text(Offset(d[1]))
       IN  /\ More(d)
           /\ Step("delayed", [work EXCEPT !.next = @ + 1,
                 !.imports = IF name = "" THEN @
                             ELSE Append(@, [library |-> name \o " (delayed)", symbols |-> Thunks(d[2])])])
EndDelayed == work.pc = "delayed" /\ ~More(Descriptor(DELAYED, 2)) /\ Step("exports", work)

(* _parse_exports: two tables side by side, of names and of ordinals.       *)
ReadExports ==
    /\ work.pc = "exports"
    /\ LET at == IF Listed(EXPORT) THEN Offset(Dir(EXPORT).rva) ELSE None
           names == Offset(Here(Plus(at, 2)))
           ordinals == Offset(Here(Plus(at, 3)))
           row(i) == [name |-> Text(Offset(Here(names + i - 1))), ordinal |-> Here(at) + Here(ordinals + i - 1)]
           readable(i) == Slice(input.cells, ordinals + i - 1, 1)
           rows == SelectSeq([i \in 1..Min({Here(at + 1), MaxSymbols}) |-> i], LAMBDA i : readable(i) /\ row(i).name # "")
           found == Slice(input.cells, at, 4) /\ names # None /\ ordinals # None
           tree == IF Listed(RESOURCE) THEN Offset(Dir(RESOURCE).rva) ELSE None
       IN  Step("resources", [work EXCEPT
               !.exports = IF found THEN [i \in DOMAIN rows |-> row(rows[i])] ELSE <<>>,
               !.next = tree,
               !.stack = IF tree = None THEN <<>> ELSE <<[dir |-> TRUE, at |-> tree, level |-> 0, type |-> 0]>>])

(* _walk_directory, depth first: the level below the root tells the type; a *)
(* leaf counts from the third level on.                                     *)
VisitDirectory ==
    /\ work.pc = "resources" /\ work.stack # <<>> /\ Head(work.stack).dir
    /\ LET node == Head(work.stack)
           count == Here(node.at)
           entries == SelectSeq([i \in 1..count |-> node.at + 2 * i - 1], LAMBDA at : Slice(input.cells, at, 2))
           child(at) ==
               [dir |-> Here(at + 1) >= Flag, at |-> work.next + (Here(at + 1) % Flag), level |-> node.level + 1,
                type |-> IF node.level = 0 /\ Here(at + 1) >= Flag THEN Here(at) % Flag ELSE node.type]
           walked == node.level <= 3 /\ count \in 1..MaxLeaves
       IN  Step("resources", [work EXCEPT
               !.stack = (IF walked THEN [i \in DOMAIN entries |-> child(entries[i])] ELSE <<>>) \o Tail(@)])
VisitLeaf ==
    /\ work.pc = "resources" /\ work.stack # <<>> /\ ~Head(work.stack).dir
    /\ LET node == Head(work.stack)
       IN  Step("resources", [work EXCEPT !.stack = Tail(@), !.leaves = IF node.level >= 3 THEN Append(@, node) ELSE @])

(* What the leaves point at, as far as it lies in the file and is not too   *)
(* long.                                                                    *)
Resources ==
    LET place(l) == Offset(Here(l.at))
        holds(l) == /\ Slice(input.cells, l.at, 2) /\ Here(l.at + 1) \in 1..MaxData
                    /\ place(l) # None /\ Slice(input.cells, place(l), Here(l.at + 1))
        held == SelectSeq(First(work.leaves, MaxLeaves), holds)
    IN  [i \in DOMAIN held |-> [type |-> held[i].type,
                               says |-> {Text(place(held[i]) + k) : k \in 0..Here(held[i].at + 1) - 1} \ {""}]]

(* The first manifest that says something counts; an image may be embedded  *)
(* in a resource of any type.                                               *)
Manifest ==
    LET told == SelectSeq(Resources, LAMBDA l : l.type = MANIFEST /\ l.says # {})
    IN  IF told = <<>> THEN {} ELSE told[1].says
ResourceFindings ==
    Marked({"requireAdministrator", "highestAvailable"} \cap Manifest # {}, "manifest_admin", LOW)
    \cup Marked("autoElevate" \in Manifest, "manifest_autoelevate", MEDIUM)
    \cup Marked("uiAccess" \in Manifest, "manifest_uiaccess", MEDIUM)
    \cup Marked(\E l \in ToSet(Resources) : "MZ" \in l.says, "embedded_pe_in_resources", HIGH)

(* _extract_pdb_path: type, size and place in the file of a record.         *)
ReadDebug ==
    /\ work.pc = "resources" /\ work.stack = <<>>
    /\ LET at == Offset(Dir(DEBUG).rva)
           count == IF at = None THEN 0 ELSE Min({Dir(DEBUG).size \div 3, MaxDebug})
           place(i) == Here(at + 3 * i - 1)
           names(i) == /\ Slice(input.cells, at + 3 * (i - 1), 3)
                       /\ Here(at + 3 * (i - 1)) = CODEVIEW /\ Here(at + 3 * i - 2) >= 1 /\ place(i) # 0
                       /\ Text(place(i)) = "RSDS" /\ Slice(input.cells, place(i) + 1, Here(at + 3 * i - 2) - 1)
           first == SelectInSeq([i \in 1..count |-> i], names)
       IN  Step("finish", [work EXCEPT !.pdb = IF first = 0 \/ Here(at + 3 * first - 2) < 2 THEN "" ELSE Text(place(first) + 1)])

(* The entry point is judged by the sections, each against the raw range of *)
(* the same number: zip (pe.py:624) pairs a section with its own range only *)
(* as long as no section before it is without data.                         *)
EntryFindings ==
    LET paired == [i \in 1..Min({Len(work.sections), Len(work.ranges)}) |-> i]
        i == SelectInSeq(paired, LAMBDA k : Holds(work.ranges[k], input.entry))
    IN  IF input.entry = 0 THEN {}
        ELSE Marked(i = 0, "entry_outside_sections", HIGH)
             \cup Marked(i # 0 /\ "X" \notin work.sections[i].flags, "entry_in_nonexec_section", HIGH)
Overlay ==
    IF work.ranges = <<>> THEN 0
    ELSE Len(input.cells) - Max({s.raw + s.rsize : s \in ToSet(work.ranges)})
Finish ==
    /\ work.pc = "finish"
    /\ work' = [work EXCEPT !.pc = "end", !.done = TRUE]
    /\ report' = report
          \cup Marked(Listed(TLS), "tls_callbacks", MEDIUM)
          \cup ResourceFindings
          \cup Marked(Overlay > MinBulk, "overlay", LOW)
          \cup Marked(Overlay > MinBulk /\ input.overlay >= 8, "overlay_high_entropy", MEDIUM)
          \cup Marked(input.packed, "packer_signature", MEDIUM)
          \cup EntryFindings
          \cup Marked(input.stamp = "ancient", "timestamp_ancient", INFO)
          \cup Marked(input.stamp = "future", "timestamp_future", INFO)
          \cup Marked(input.checksum = "wrong", "checksum_mismatch", INFO)
          \cup Behaviour
    /\ UNCHANGED input

Next ==
    /\ ~work.done
    /\ \/ Refuse \/ ReadHeaders \/ ReadImport \/ EndImports \/ ReadDelayed \/ EndDelayed
       \/ ReadExports \/ VisitDirectory \/ VisitLeaf \/ ReadDebug \/ Finish
Spec == Init /\ [][Next]_vars
=============================================================================
