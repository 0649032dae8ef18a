----------------------------- MODULE MachImage -----------------------------
(* A Mach-O image (analyze/macho.py), alone in its file or the first of the *)
(* slices of a universal binary: its load commands are walked one by one,   *)
(* and all they say of places in the file counts from the start of the      *)
(* slice, but for the code signature, whose blobs count from its own start. *)
(* A command's number is a cell whose text is its name.                     *)
EXTENDS ImageFile

CONSTANTS
    MachFiles,    \* the files that may be analysed
    Unprefixed,   \* the name behind a symbol's leading underscore
    MaxSlices,    \* slices of a universal binary
    MaxBlobCount, \* blobs of a code signature
    MaxStrtab     \* what is read of the strings of the symbols

VARIABLES
    input,   \* the universal header and those of the slices, and the cells
    work,    \* what the load commands said
    report   \* the findings
vars == <<input, work, report>>

Here(at) == Num(input.cells, at)
Text(at) == Str(input.cells, at)
Field(i) == Here(work.at + i)

(* parse_fat_header: the slices that lie in the file, in their order.       *)
Slices == IF Len(input.arches) \in 1..MaxSlices
          THEN SelectSeq(input.arches, LAMBDA a : Slice(input.cells, a.at, a.size)) ELSE <<>>
NoHeader == [magic |-> FALSE, whole |-> FALSE, commands |-> 0, size |-> 0, type |-> "", flags |-> {}]
HeaderAt(at) == IF at \in DOMAIN input.headers THEN input.headers[at] ELSE NoHeader
Header == HeaderAt(work.base)
HeaderCells == 1

----------------------------------------------------------------------------
Init ==
    /\ input \in MachFiles
    /\ work = [pc |-> "file", base |-> 0, at |-> 0, walked |-> 0, libraries |-> <<>>, rpaths |-> {}, sections |-> <<>>,
               signature |-> <<>>, encrypted |-> FALSE, table |-> <<>>, symbols |-> {},
               identifier |-> "", team |-> "", granted |-> {}, done |-> FALSE]
    /\ report = {}

Step(pc, w, findings) ==
    /\ work' = [w EXCEPT !.pc = pc]
    /\ report' = report \cup findings
    /\ UNCHANGED input
End(findings) == Step("end", [work EXCEPT !.done = TRUE], findings)

(* _run takes the first slice; the others are only listed.                  *)
ChooseSlice ==
    /\ work.pc = "file" /\ (input.fat => Slices # <<>>)
    /\ Step("header", [work EXCEPT !.base = IF input.fat THEN Slices[1].at ELSE 0], {})
RefuseFat == work.pc = "file" /\ input.fat /\ Slices = <<>> /\ End({Finding("bad_fat", MEDIUM)})

(* A slice without a magic number is refused; when the file ends before the *)
(* number would, wording that finding raises.                               *)
Refuse ==
    /\ work.pc = "header" /\ work.base < Len(input.cells) /\ ~(Header.magic /\ Header.whole)
    /\ End({Finding(IF Header.magic THEN "truncated_header" ELSE "bad_magic", HIGH)})
Raise == work.pc = "header" /\ work.base >= Len(input.cells) /\ End({})
ReadHeader ==
    /\ work.pc = "header" /\ Header.magic /\ Header.whole
    /\ Step("commands", [work EXCEPT !.at = work.base + HeaderCells],
            Marked("stack" \in Header.flags, "allow_stack_execution", MEDIUM)
            \cup Marked("pie" \notin Header.flags /\ Header.type = "execute", "no_pie", LOW))

(* The walk ends with the number or the size of commands the header gives,  *)
(* with the file, or with a command that cannot be as long as it says.      *)
MoreCommands ==
    /\ work.walked < Header.commands /\ work.walked <= MaxSections * 4
    /\ work.at + 2 <= Min({work.base + HeaderCells + Header.size, Len(input.cells)})
BadSize == Field(1) = 0 \/ work.at + Field(1) > Len(input.cells)
Command(names) == work.pc = "commands" /\ MoreCommands /\ ~BadSize /\ Text(work.at) \in names
Walk(w, findings) == Step("commands", [w EXCEPT !.at = @ + Field(1), !.walked = @ + 1], findings)
(* _read_lc_str: its place counts from the start of the command.            *)
NameIn == IF Field(2) \in 0..Field(1) - 1 THEN Text(work.at + Field(2)) ELSE ""

(* _parse_segment: name, place, size, protection, number of sections; then  *)
(* name, place and size of each.                                            *)
ReadSegment ==
    /\ Command({"segment"})
    /\ LET whole == Slice(input.cells, work.at, 7)
           at(i) == work.at + 7 + 3 * (i - 1)
           rows == SelectSeq([i \in 1..Min({Field(6), MaxSections}) |-> at(i)], LAMBDA a : Slice(input.cells, a, 3))
           row(name, a) == [name |-> name, at |-> work.base + a]
           wx == Field(5) % 8 \in {6, 7}
       IN  Walk([work EXCEPT !.sections =
                   IF whole THEN @ \o <<row(<<Text(work.at + 2)>>, Field(3))>>
                                   \o [i \in DOMAIN rows |-> row(<<Text(work.at + 2), Text(rows[i])>>, Here(rows[i] + 1))]
                   ELSE @],
                Marked(whole /\ wx, "wx_segment", HIGH))
ReadLibrary ==
    /\ Command({"load_dylib", "load_weak_dylib", "id_dylib"})
    /\ Walk([work EXCEPT !.libraries = IF NameIn # "" /\ Len(@) < MaxLibs THEN Append(@, NameIn) ELSE @], {})
ReadRpath == Command({"rpath"}) /\ Walk([work EXCEPT !.rpaths = @ \cup ({NameIn} \ {""})], {})

(* Places are made absolute here, so that the file can be read at them.     *)
ReadSignature ==
    /\ Command({"code_signature"})
    /\ Walk([work EXCEPT !.signature = IF Slice(input.cells, work.at, 4) THEN <<work.base + Field(2), Field(3)>> ELSE @], {})
ReadEncryption ==
    /\ Command({"encryption_info"})
    /\ Walk([work EXCEPT !.encrypted = @ \/ Field(4) \notin {None, 0}], {})
RebasedOnce(fields) == <<work.base + fields[1], fields[2], fields[3], fields[4]>>   \* mutant: the strings are not rebased
Rebased(fields) == <<work.base + fields[1], fields[2], work.base + fields[3], fields[4]>>
ReadSymtab ==
    /\ Command({"symtab"})
    /\ LET fields == [i \in 1..4 |-> Field(i + 1)]
       IN  Walk([work EXCEPT !.table = IF Slice(input.cells, work.at, 6) THEN Rebased(fields) ELSE @], {})
ReadOther ==
    /\ work.pc = "commands" /\ MoreCommands /\ ~BadSize
    /\ Text(work.at) \notin {"segment", "load_dylib", "load_weak_dylib", "id_dylib", "rpath",
                             "code_signature", "encryption_info", "symtab"}
    /\ Walk(work, {})

EndCommands ==
    /\ work.pc = "commands" /\ (MoreCommands => BadSize)
    /\ Step("signature", work, Marked(MoreCommands, "bad_lc_size", MEDIUM))

(* _parse_code_signature: kind, length and number of blobs; a slot and a    *)
(* place for each; and the blobs, of a kind and a length.                   *)
Blobs ==
    LET at == work.signature[1]
        slots == [i \in 1..Here(at + 2) |-> [slot |-> Here(at + 2 * i + 1), at |-> at + Here(at + 2 * i + 2),
                                             row |-> at + 2 * i + 1, end |-> Here(at + 2 * i + 2) + Here(at + Here(at + 2 * i + 2) + 1)]]
    IN  IF work.signature # <<>> /\ work.signature[2] >= 3 /\ Slice(input.cells, at, 3)
           /\ Text(at) = "superblob" /\ Here(at + 2) \in 1..MaxBlobCount
        THEN SelectSeq(slots, LAMBDA b : Slice(input.cells, b.row, 2) /\ Slice(input.cells, b.at, 2)
                                         /\ Here(b.at + 1) >= 2 /\ b.end <= Here(at + 1))
        ELSE <<>>
DIRECTORY == 0     \* the slots of the code directory and of the entitlements
ENTITLEMENTS == 5
TEAMS == 2         \* the version from which a code directory names a team
InSlot(slot, kind) == SelectSeq(Blobs, LAMBDA b : b.slot = slot /\ Text(b.at) = kind)
Length(b) == Here(b.at + 1)

(* The last name given counts. The fourth field of a code directory is the  *)
(* place of the identifier, the fifth that of the team, both in the blob.   *)
Directories(field) ==
    SelectSeq(InSlot(DIRECTORY, "codedirectory"),
              LAMBDA b : Length(b) > field /\ Slice(input.cells, b.at, Min({Length(b), 6})))
Naming == [identifier |-> Directories(4),
           team |-> SelectSeq(Directories(5), LAMBDA b : Here(b.at + 2) >= TEAMS /\ Here(b.at + 5) # 0)]
Named(dirs, field) ==
    LET texts == SelectSeq([i \in DOMAIN dirs |-> Text(dirs[i].at + Here(dirs[i].at + field))], LAMBDA s : s # "")
    IN  IF texts = <<>> THEN "" ELSE Last(texts)
(* The entitlements whose value is true.                                    *)
Granted ==
    LET blobs == SelectSeq(InSlot(ENTITLEMENTS, "entitlements"), LAMBDA b : Length(b) > 2 /\ Slice(input.cells, b.at, Length(b)))
        b == Last(blobs)
    IN  IF blobs = <<>> THEN {} ELSE {Text(k) : k \in {k \in b.at + 2..b.at + Length(b) - 1 : Here(k) = 1}}
Risky ==
    {<<"disable_library_validation", HIGH>>, <<"allow_unsigned_exec", HIGH>>, <<"dyld_env", HIGH>>,
     <<"disable_page_protection", HIGH>>, <<"get_task_allow", MEDIUM>>, <<"allow_jit", LOW>>}
ParseSignature ==
    /\ work.pc = "signature"
    /\ Step("symbols", [work EXCEPT !.identifier = Named(Naming.identifier, 4), !.team = Named(Naming.team, 5),
                                       !.granted = Granted],
            {Finding(r[1], r[2]) : r \in {r \in Risky : r[1] \in Granted}}
            \cup Marked(work.rpaths # {}, "rpath", LOW) \cup Marked(work.encrypted, "encrypted", MEDIUM))

(* The symbols, without the underscore C names carry. The rules take a      *)
(* universal binary for another format than Mach-O.                         *)
Bare(name) == IF name \in DOMAIN Unprefixed THEN Unprefixed[name] ELSE name
ReadSymbols ==
    /\ work.pc = "symbols"
    /\ LET t == work.table
           names == IF t = <<>> THEN {} ELSE {Bare(s) : s \in SymbolNames(input.cells, t[1], t[2], t[3], Min({t[4], MaxStrtab}))} \ {""}
       IN  /\ work' = [work EXCEPT !.pc = "end", !.symbols = names, !.done = TRUE]
           /\ report' = report
                 \cup Marked(names \cap {"task_for_pid", "mach_vm_write"} # {}, "mach_injection", HIGH)
                 \cup Marked("ptrace" \in names, "ptrace", MEDIUM)
                 \cup Marked(input.packed, "packer_signature", MEDIUM)
                 \cup Combos([format |-> IF input.fat THEN "macho_fat" ELSE "macho", symbols |-> names,
                              packed |-> input.packed, count |-> 0, libraries |-> Len(work.libraries),
                              managed |-> FALSE, dense |-> input.dense])
    /\ UNCHANGED input

Next ==
    /\ ~work.done
    /\ \/ ChooseSlice \/ RefuseFat \/ Refuse \/ Raise \/ ReadHeader
       \/ ReadSegment \/ ReadLibrary \/ ReadRpath \/ ReadSignature \/ ReadEncryption \/ ReadSymtab \/ ReadOther
       \/ EndCommands \/ ParseSignature \/ ReadSymbols
Spec == Init /\ [][Next]_vars
=============================================================================
