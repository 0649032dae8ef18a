------------------------------ MODULE ElfImage -----------------------------
(* An ELF image (analyze/elf.py). Sections are found through the section    *)
(* headers, and named by one of them; the strings of the dynamic section by *)
(* the name .dynstr, or else by the address the dynamic section gives them. *)
(* The entries of a table, a string and a field of a note take one cell.    *)
EXTENDS ImageFile

CONSTANTS
    ElfFiles,    \* the images that may be analysed
    MaxNotes,    \* notes read of a section
    MaxShnames,  \* what is read of the table of section names,
    MaxStrings,  \* of the strings of the dynamic section,
    MaxNoteSize, \* of a section of notes,
    MaxSampled   \* and of a section or segment for its entropy

VARIABLES
    input,   \* the headers, and the cells of the whole file
    work,    \* what was found through them
    report   \* the findings
vars == <<input, work, report>>

Here(at) == Num(input.cells, at)
Text(at) == Str(input.cells, at)

(* The tags of the dynamic section that are looked at.                      *)
NEEDED == 1
STRTAB == 5
STRSZ == 10
RPATH == 15
RUNPATH == 29
FLAGS == 30
BIND_NOW == 8
BUILD_ID == 3   \* the type of a GNU note, and of Go's
GO_BUILD_ID == 4

(* Of several headers of a type the last one counts.                        *)
Headers == First(input.headers, MaxSections)
Segments == First(input.segments, MaxSections)
OfType(headers, type) == SelectSeq(headers, LAMBDA h : h.type = type)

(* No more than so much is read of a section, and then only that much need  *)
(* lie in the file.                                                         *)
Capped(size, cap) == Min({size, cap})
Readable(at, size, cap) == Slice(input.cells, at, Capped(size, cap))

(* A string in a table: nothing outside of what was read of it.             *)
NoTable == [at |-> 0, size |-> 0]
Table(at, size, cap) == IF Readable(at, size, cap) THEN [at |-> at, size |-> Capped(size, cap)] ELSE NoTable
StringAt(table, n) == IF n >= 0 /\ n < table.size THEN Text(table.at + n) ELSE ""

Compact(s) == s.dense /\ s.size > MinBulk /\ Readable(s.at, s.size, MaxSampled)

----------------------------------------------------------------------------
Init ==
    /\ input \in ElfFiles
    /\ work = [pc |-> "headers", named |-> <<>>, dynamic |-> <<>>, strings |-> NoTable, symbols |-> {},
               notes |-> <<>>, seen |-> 0, build |-> 0, go |-> 0, done |-> FALSE]
    /\ report = {}

Step(pc, w) == work' = [w EXCEPT !.pc = pc] /\ UNCHANGED <<input, report>>

Refuse ==
    /\ work.pc = "headers" /\ input.defect # "none"
    /\ work' = [work EXCEPT !.done = TRUE]
    /\ report' = {Finding(input.defect, HIGH)}
    /\ UNCHANGED input

(* The last word on the stack counts; without one it is not executable.     *)
ExecStack ==
    LET said == OfType(Segments, "stack")
    IN  said # <<>> /\ "X" \in Last(said).flags
ReadHeaders ==
    /\ work.pc = "headers" /\ input.defect = "none"
    /\ LET ndx == input.names
           names == IF ndx > 0 /\ ndx < Len(Headers)
                    THEN Table(Headers[ndx + 1].at, Headers[ndx + 1].size, MaxShnames) ELSE NoTable
       IN  work' = [work EXCEPT !.pc = "dynamic",
                                !.named = [i \in DOMAIN Headers |-> [Headers[i] EXCEPT !.name = StringAt(names, @)]]]
    /\ report' = Marked(Len(input.segments) > MaxSections, "too_many_phdr", MEDIUM)
                 \cup Marked(Len(input.headers) > MaxSections, "too_many_shdr", MEDIUM)
                 \cup Marked(\E s \in ToSet(OfType(Segments, "load")) : {"W", "X"} \subseteq s.flags, "wx_segment", HIGH)
                 \cup Marked(ExecStack, "exec_stack", MEDIUM)
    /\ UNCHANGED input

(* The entries up to the first that is zero or past the end of the file.    *)
Listing(h) ==
    LET tag(i) == Here(h.at + 2 * i - 2)
        stop == Min({i \in 1..Min({h.size \div 2, MaxSymbols}) : tag(i) \in {None, 0}}
                    \cup {Min({h.size \div 2, MaxSymbols}) + 1})
    IN  [i \in 1..stop - 1 |-> [tag |-> tag(i), value |-> Max({0, Here(h.at + 2 * i - 1)})]]
Tagged(entries, t) == SelectSeq(entries, LAMBDA e : e.tag = t)
Value(entries, t) == IF Tagged(entries, t) = <<>> THEN 0 ELSE Last(Tagged(entries, t)).value
ReadDynamic ==
    /\ work.pc = "dynamic"
    /\ LET sections == OfType(work.named, "dynamic")
           found == SelectSeq(work.named, LAMBDA h : h.type = "strings" /\ h.name = ".dynstr" /\ Readable(h.at, h.size, MaxStrings))
           entries == IF sections = <<>> THEN <<>> ELSE Listing(Last(sections))
       IN  Step("strings", [work EXCEPT !.dynamic = entries,
                 !.strings = IF found = <<>> THEN NoTable ELSE Table(Last(found).at, Last(found).size, MaxStrings)])

(* Without .dynstr: the first section that holds the address, if the        *)
(* strings lie in the file.                                                 *)
FindStrings ==
    /\ work.pc = "strings"
    /\ LET addr == Value(work.dynamic, STRTAB)
           size == Value(work.dynamic, STRSZ)
           place(h) == h.at + addr - h.addr
           holding == SelectSeq(work.named, LAMBDA h :
                          h.addr # 0 /\ h.addr <= addr /\ addr < h.addr + h.size /\ Readable(place(h), size, MaxStrings))
           wanted == work.strings.size = 0 /\ addr # 0 /\ size # 0 /\ holding # <<>>
       IN  Step("symbols", [work EXCEPT !.strings = IF wanted THEN Table(place(holding[1]), size, MaxStrings) ELSE @])

ReadSymbols ==
    /\ work.pc = "symbols"
    /\ LET tables == OfType(work.named, "dynsym")
           s == work.strings
           noted == SelectSeq(work.named, LAMBDA h : h.type = "note" /\ Readable(h.at, h.size, MaxNoteSize))
       IN  Step("notes", [work EXCEPT
               !.symbols = IF tables = <<>> \/ s.size = 0 THEN {}
                           ELSE SymbolNames(input.cells, Last(tables).at, Last(tables).size, s.at, s.size),
               !.notes = [i \in DOMAIN noted |-> [noted[i] EXCEPT !.size = Capped(@, MaxNoteSize)]]])

(* _walk_notes: three fields, then the name and the description; what does  *)
(* not fit ends the section. The first build id counts.                     *)
Note == [at |-> Head(work.notes).at, name |-> Here(Head(work.notes).at), desc |-> Here(Head(work.notes).at + 1),
         type |-> Here(Head(work.notes).at + 2), end |-> Head(work.notes).at + Head(work.notes).size]
Fits == /\ work.seen < MaxNotes /\ Note.at + 3 <= Note.end /\ Note.name \in 0..64
        /\ Note.desc \in 0..4096 /\ Note.at + 3 + Note.name + Note.desc <= Note.end
ReadNote ==
    /\ work.pc = "notes" /\ work.notes # <<>> /\ Fits
    /\ LET owner == IF Note.name = 0 THEN "" ELSE Text(Note.at + 3)
           id == Here(Note.at + 3 + Note.name)
           whole == 3 + Note.name + Note.desc
           gnu == owner = "GNU" /\ Note.type = BUILD_ID /\ Note.desc > 0
           go == owner = "Go" /\ Note.type = GO_BUILD_ID /\ Note.desc > 0
       IN  Step("notes", [work EXCEPT
               !.notes[1] = [@ EXCEPT !.at = @ + whole, !.size = @ - whole], !.seen = @ + 1,
               !.build = IF gnu /\ @ = 0 THEN id ELSE @,
               !.go = IF go /\ @ = 0 THEN id ELSE @])
EndNotes == work.pc = "notes" /\ work.notes # <<>> /\ ~Fits /\ Step("notes", [work EXCEPT !.notes = Tail(@), !.seen = 0])

Needed == LET names == [i \in DOMAIN Tagged(work.dynamic, NEEDED) |->
                            StringAt(work.strings, Tagged(work.dynamic, NEEDED)[i].value)]
          IN  SelectSeq(names, LAMBDA s : s # "")
PathOf(t) == IF Tagged(work.dynamic, t) = <<>> THEN "" ELSE StringAt(work.strings, Value(work.dynamic, t))

(* What the image does without of the usual hardening.                      *)
BindsNow == (Value(work.dynamic, FLAGS) \div BIND_NOW) % 2 = 1
Lacks ==
    (IF input.type = "exec" THEN {"PIE"} ELSE {})
    \cup (IF ExecStack THEN {"NX"} ELSE {})
    \cup (IF OfType(Segments, "relro") # <<>> /\ BindsNow THEN {} ELSE {"FULL_RELRO"})
    \cup (IF "__stack_chk_fail" \in work.symbols THEN {} ELSE {"CANARY"})
Finish ==
    /\ work.pc = "notes" /\ work.notes = <<>>
    /\ work' = [work EXCEPT !.pc = "end", !.done = TRUE]
    /\ report' = report
          \cup Marked(PathOf(RPATH) # "", "rpath", LOW) \cup Marked(PathOf(RUNPATH) # "", "runpath", LOW)
          \cup Marked(Lacks # {}, "weak_hardening", LOW)
          \cup Marked("ptrace" \in work.symbols, "ptrace", MEDIUM)
          \cup Marked(input.packed, "packer_signature", MEDIUM)
          \cup Combos([format |-> "elf", symbols |-> work.symbols, packed |-> input.packed, count |-> 0,
                       libraries |-> Len(Needed), managed |-> FALSE,
                       dense |-> \E s \in ToSet(OfType(work.named, "code")) \cup ToSet(OfType(Segments, "load")) : Compact(s)])
    /\ UNCHANGED input

Next ==
    /\ ~work.done
    /\ \/ Refuse \/ ReadHeaders \/ ReadDynamic \/ FindStrings \/ ReadSymbols
       \/ ReadNote \/ EndNotes \/ Finish
Spec == Init /\ [][Next]_vars
=============================================================================
