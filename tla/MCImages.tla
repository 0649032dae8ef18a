------------------------------ MODULE MCImages -----------------------------
(* Small executables: what an image means, laid out in its file in several  *)
(* ways.                                                                    *)
EXTENDS Integers, Sequences, SequencesExt, FiniteSets, Functions

N(n) == [n |-> n, s |-> ""]
T(s) == [n |-> 0, s |-> s]
Numbers(ns) == [i \in DOMAIN ns |-> N(ns[i])]
Texts(ss) == [i \in DOMAIN ss |-> T(ss[i])]
TopBit == 1000
Orders(n) == {p \in [1..n -> 1..n] : \A i \in 1..n : \E j \in 1..n : p[j] = i}

(* pe: the image in memory, from address 10 to 95; a debug record's place   *)
(* in the file is put in by the layout.                                     *)
Memory(names, place(_)) ==
    Texts(<<"code">>) \o Numbers(<<20, 30, 24, 0, 32, 26, 0, 0, 0>>)                     \* 10: imports at 11
    \o Numbers(<<34, 36, 0, 0, 999, 0, TopBit + 7, 38, 0, 0>>)                           \* 20: thunks
    \o Texts(<<"kernel32", "", "ws2_32", "", "", names[1], "", names[2], "", names[3]>>)  \* 30
    \o Numbers(<<9, 46, 48, 46, 0, 0, 38, 0>>) \o Texts(<<"user32", "">>)                \* 40: delayed imports
    \o Numbers(<<3, 2, 54, 56, 58, 59, 1, 0>>) \o Texts(<<"run", "stop">>)               \* 50: exports
    \o Numbers(<<2, 24, TopBit + 5, 10, TopBit + 8, 1, 1, TopBit + 11, 1, 1, TopBit + 16>>)
    \o Numbers(<<2, 9, 19, 8, 23, 1, 9, 21, 85, 2, 87, 1, 30, 4>>)                       \* 60: resources, one too long
    \o Texts(<<"autoElevate", "requireAdministrator", "MZ">>)
    \o Numbers(<<1, 1, place(94), 2, 2, place(94)>>) \o Texts(<<"RSDS", "a.pdb">>)       \* 88: debug
Dirs == [i \in 1..15 |-> CASE i = 1 -> [rva |-> 50, size |-> 4]  [] i = 2 -> [rva |-> 11, size |-> 9]
                           [] i = 3 -> [rva |-> 60, size |-> 25] [] i = 7 -> [rva |-> 88, size |-> 6]
                           [] i = 14 -> [rva |-> 40, size |-> 6] [] OTHER -> [rva |-> 0, size |-> 0]]
Bss == [name |-> ".bss", va |-> 200, vsize |-> 9, raw |-> 0, rsize |-> 0, flags |-> {"R", "W"}, entropy |-> 0]
PeLaid(names, cuts, order, flags, entry) ==
    LET count == Len(cuts)
        ends == Append(Tail(cuts), 96)
        size(k) == ends[k] - cuts[k]
        before(k) == {j \in 1..count : order[j] < order[k]}
        raw(k) == 5 + FoldLeft(+, 0, [j \in 1..count |-> IF j \in before(k) THEN size(j) ELSE 0])
        home(rva) == CHOOSE k \in 1..count : cuts[k] <= rva /\ rva < ends[k]
        place(rva) == raw(home(rva)) + rva - cuts[home(rva)]
        memory == Memory(names, place)
        at(pos) == CHOOSE k \in 1..count : raw(k) <= pos /\ pos < raw(k) + size(k)
    IN  [defect |-> "none", known |-> TRUE, aslr |-> TRUE, dep |-> entry # 10, dll |-> entry = 0, claimed |-> count,
         dirs |-> Dirs, entry |-> entry, stamp |-> "plausible", checksum |-> IF entry = 0 THEN "zero" ELSE "wrong",
         overlay |-> 0, packed |-> entry = 45, intact |-> TRUE,
         sections |-> [k \in 1..count |->
             [name |-> "s", va |-> cuts[k], vsize |-> size(k), raw |-> raw(k), rsize |-> size(k), flags |-> flags[k], entropy |-> 7]],
         cells |-> [i \in 1..91 |-> IF i <= 5 THEN T("head") ELSE memory[cuts[at(i - 1)] + i - 1 - raw(at(i - 1)) - 9]],
         means |-> [imports |-> <<[library |-> "kernel32", symbols |-> <<names[1], names[2]>>],
                                  [library |-> "ws2_32", symbols |-> <<"#7", names[3]>>],
                                  [library |-> "user32 (delayed)", symbols |-> <<names[3]>>]>>,
                    exports |-> <<[name |-> "run", ordinal |-> 4], [name |-> "stop", ordinal |-> 3]>>,
                    resources |-> {[type |-> 24, says |-> {"autoElevate", "requireAdministrator"}], [type |-> 10, says |-> {"MZ"}]},
                    pdb |-> "a.pdb"]]
Code == {"R", "X"}
Static == {"R"}
Used == {<<"WriteProcessMemory", "CreateRemoteThread", "VirtualAllocEx">>, <<"GetProcAddress", "LoadLibraryA", "socket">>}
IntactPe ==
    {PeLaid(u, <<10, 40, 60>>, o, <<Code, Static, Static>>, e) : u \in Used, o \in Orders(3), e \in {0, 10, 45, 300}}
    \cup {PeLaid(u, <<10, 30, 88>>, o, <<Code, {"R", "W", "X"}, Static>>, 39) : u \in Used, o \in Orders(3)}
    \cup {PeLaid(u, <<10, 48>>, o, <<Static, Code>>, 47) : u \in Used, o \in Orders(2)}
WithBss(p) == [p EXCEPT !.sections = <<Bss>> \o @, !.claimed = @ + 1]
DamagedPe(p) ==
    {[p EXCEPT !.defect = d] : d \in {"bad_dos", "bad_e_lfanew", "bad_pe_sig", "truncated_coff", "truncated_opt"}}
    \cup {[p EXCEPT !.claimed = 0], [p EXCEPT !.claimed = 9], [p EXCEPT !.dirs = SubSeq(@, 1, 6)], [p EXCEPT !.cells = SubSeq(@, 1, 50)],
          [p EXCEPT !.cells[56] = N(9)], [p EXCEPT !.cells[63] = N(TopBit)], [p EXCEPT !.cells[58] = N(TopBit)],
          [p EXCEPT !.dirs[10] = [rva |-> 10, size |-> 1], !.dirs[15] = [rva |-> 10, size |-> 1], !.stamp = "ancient", !.known = FALSE],
          [p EXCEPT !.cells = @ \o [i \in 1..9 |-> T("")], !.overlay = 8, !.aslr = FALSE, !.stamp = "future"]}
PlainPe == PeLaid(<<"a", "b", "c">>, <<10, 40, 60>>, <<1, 2, 3>>, <<Code, Static, Static>>, 10)
MCPeFiles ==
    IntactPe \cup {WithBss(p) : p \in IntactPe}
    \cup {[p EXCEPT !.intact = FALSE] : p \in DamagedPe(PlainPe)}

(* elf: six pieces in any order in the file; in memory they are 100 higher. *)
Shnames == <<"", ".dynstr", ".dynamic", ".dynsym", ".note", "", ".dynstr">>
\* named: the place of .dynstr among the names of the sections, 6 being past
\* what is read of them; 0 without such a table. pad: how much longer the first
\* note is; 4 more put the last one past what is read of the notes.
ElfLaid(strings, order, named, now, canary, pad) ==
    LET symbols == IF canary THEN <<3, 4, 5>> ELSE <<3, 5>>
        pieces == [names |-> Texts(Shnames), strings |-> Texts(strings),
                   dynamic |-> <<>>, dynsym |-> Numbers(<<0>> \o symbols \o <<9>>),
                   note |-> Numbers(<<1, 2 + pad, 7>>) \o Texts(<<"GNU", "", "">> \o [i \in 1..pad |-> ""]) \o Numbers(<<1, 1, 3>>) \o <<T("GNU"), N(77)>>
                            \o Numbers(<<1, 1, 4>>) \o <<T("Go"), N(88)>> \o Numbers(<<0, 9, 3>>),
                   code |-> Texts(<<"code">>)]
        keys == <<"names", "strings", "dynamic", "dynsym", "note", "code">>
        index(k) == CHOOSE i \in 1..6 : keys[i] = k
        size(k) == IF k = "dynamic" THEN 14 ELSE Len(pieces[k])
        before(k) == {j \in ToSet(keys) : order[index(j)] < order[index(k)]}
        at(k) == 3 + FoldLeft(LAMBDA n, j : n + IF j \in before(k) THEN size(j) ELSE 0, 0, keys)
        dynamic == Numbers(<<1, 1, 5, 100 + at("strings"), 10, Len(strings), 15, 2, 30, IF now THEN 24 ELSE 2, 21, 0, 0, 1>>)
        content(k) == IF k = "dynamic" THEN dynamic ELSE pieces[k]
        sorted == [i \in 1..6 |-> CHOOSE k \in ToSet(keys) : order[index(k)] = i]
        header(name, type, k, addr) ==
            [name |-> name, type |-> type, at |-> at(k), size |-> size(k), addr |-> addr, dense |-> FALSE]
    IN  [defect |-> "none", type |-> IF now THEN "dyn" ELSE "exec", names |-> IF named = 0 THEN 0 ELSE 6,
         segments |-> <<[type |-> "load", at |-> at("code"), size |-> 1, dense |-> TRUE, flags |-> {"R", "X"}],
                        [type |-> "relro", at |-> 0, size |-> 0, dense |-> FALSE, flags |-> {"R"}],
                        [type |-> "stack", at |-> 0, size |-> 0, dense |-> FALSE, flags |-> IF canary THEN {"R"} ELSE {"R", "X"}]>>,
         headers |-> <<header(0, "null", "code", 0), header(2, "dynamic", "dynamic", 100 + at("dynamic")),
                       header(3, "dynsym", "dynsym", 100 + at("dynsym")), header(named, "strings", "strings", 100 + at("strings")),
                       header(4, "note", "note", 100 + at("note")), header(0, "code", "code", 100 + at("code")),
                       header(0, "strings", "names", 0)>>,
         cells |-> Texts(<<"head", "", "">>) \o FlattenSeq([i \in 1..6 |-> content(sorted[i])]),
         packed |-> FALSE, intact |-> TRUE,
         means |-> [needed |-> <<"libc">>, rpath |-> strings[3], build |-> 77, go |-> IF pad = 0 THEN 88 ELSE 0,
                    symbols |-> {strings[4], strings[6]} \cup IF canary THEN {"__stack_chk_fail"} ELSE {},
                    lacks |-> (IF now THEN {} ELSE {"PIE", "FULL_RELRO"}) \cup IF canary THEN {} ELSE {"NX", "CANARY"}]]
ElfStrings == {<<"", "libc", "/tmp", "ptrace", "__stack_chk_fail", "socket", "dlopen">>,
               <<"", "libc", "", "dlopen", "__stack_chk_fail", "dlsym", "">>}
\* The symbol named at 9 is past what is read of the strings.
LongStrings == <<"", "libc", "/tmp", "ptrace", "__stack_chk_fail", "socket", "dlopen", "", "", "execve">>
ElfOrders == {<<1, 2, 3, 4, 5, 6>>, <<6, 5, 4, 3, 2, 1>>, <<4, 1, 6, 2, 3, 5>>}
IntactElf ==
    {ElfLaid(s, o, n, w, c, 0) : s \in ElfStrings, o \in ElfOrders, n \in {0, 1}, w \in BOOLEAN, c \in BOOLEAN}
    \cup {ElfLaid(LongStrings, o, n, TRUE, TRUE, 4) : o \in ElfOrders, n \in {0, 1, 6}}
\* The strings claim to be longer than the file, or than what holds their place.
Boastful(p) == [p EXCEPT !.headers[4].size = 99]
PlainElf == ElfLaid(<<"", "libc", "", "a", "__stack_chk_fail", "b", "c">>, <<1, 2, 3, 4, 5, 6>>, 1, TRUE, TRUE, 0)
DamagedElf(p) ==
    {[p EXCEPT !.defect = d] : d \in {"bad_magic", "bad_class"}}
    \cup {[p EXCEPT !.cells = SubSeq(@, 1, k)] : k \in {5, 12, 20, 30}}
    \cup {[p EXCEPT !.headers = SubSeq(@, 1, 3)], [p EXCEPT !.headers = @ \o @], [p EXCEPT !.headers[4].at = 99],
          [p EXCEPT !.segments = @ \o @ \o @, !.segments[1].flags = {"W", "X"}], [p EXCEPT !.names = 9], [p EXCEPT !.packed = TRUE]}
MCElfFiles == IntactElf \cup {Boastful(ElfLaid(LongStrings, o, 1, TRUE, TRUE, 4)) : o \in ElfOrders} \cup {[p EXCEPT !.intact = FALSE] : p \in DamagedElf(PlainElf)}

(* mach: a header cell, the commands, then strings, symbols and signature.  *)
Cmd(name, cells) == <<T(name), N(Len(cells) + 2)>> \o cells
\* far: strings past what is read of them, the first of which is a symbol's.
MachSlice(list, order, far) ==
    LET strings == Texts(<<"", "_ptrace", "_", "socket", "_connect", "dup2", "execv", "">> \o far)
        symbols == Numbers(<<1, 0, 2, 3, 4, 5, 6, 8>>)
        \* the kind, the length and the number of its blobs; their slots and places; the blobs
        signature == <<T("superblob"), N(26), N(4)>> \o Numbers(<<0, 11, 5, 19, 0, 24, 7, 19>>)
                     \o <<T("codedirectory"), N(8)>> \o Numbers(<<2, 0, 6, 7>>) \o Texts(<<"com.x", "TEAM">>)
                     \o <<T("entitlements"), N(5), [n |-> 1, s |-> "dyld_env"], [n |-> 0, s |-> "allow_jit"], [n |-> 1, s |-> "camera"]>>
                     \o <<T("codedirectory"), N(9)>>
        segment == Cmd("segment", <<T("__TEXT"), N(0), N(9), N(5), N(2), T("__text"), N(1), N(2), T("__stubs"), N(3), N(1)>>)
        data == [strings |-> strings, symbols |-> symbols, signature |-> signature]
        size(k) == Len(data[k])
        length(c) == CASE c[1] = "segment" -> 13 [] c[1] = "symtab" -> 6 [] c[1] = "code_signature" -> 4 [] OTHER -> 5
        start == 1 + FoldLeft(LAMBDA n, c : n + length(c), 0, list)
        at(k) == start + FoldLeft(LAMBDA n, j : n + size(j), 0, SubSeq(order, 1, SelectInSeq(order, LAMBDA j : j = k) - 1))
        written(c) ==
            CASE c[1] = "segment" -> segment
              [] c[1] = "symtab" -> Cmd("symtab", Numbers(<<at("symbols"), 8, at("strings"), Len(strings)>>))
              [] c[1] = "code_signature" -> Cmd("code_signature", Numbers(<<at("signature"), 26>>))
              [] c[1] = "encryption_info" -> Cmd("encryption_info", Numbers(<<0, 9, 1>>))
              [] OTHER -> Cmd(c[1], <<N(4), N(0), T(c[2])>>)
        commands == FlattenSeq([i \in DOMAIN list |-> written(list[i])])
    IN  <<T("head")>> \o commands \o FlattenSeq([i \in 1..3 |-> data[order[i]]])
MachLists ==
    {<<<<"uuid", "">>, <<"segment", "">>, <<"load_dylib", "libA">>, <<"symtab", "">>, <<"code_signature", "">>, <<"rpath", "@x">>>>,
     <<<<"code_signature", "">>, <<"encryption_info", "">>, <<"load_weak_dylib", "libA">>, <<"symtab", "">>, <<"segment", "">>>>}
MachOrders == {<<"strings", "symbols", "signature">>, <<"signature", "symbols", "strings">>}
MachHeader(list, slice, far) ==
    [magic |-> TRUE, whole |-> TRUE, commands |-> Len(list), size |-> Len(slice) - 44 - Len(far), type |-> "execute", flags |-> {"stack"}]
\* A universal header of three cells; the slices follow a gap apart.
MachFile(list, order, fat, gap, far) ==
    LET slice == MachSlice(list, order, far)
        base == IF fat THEN 3 + gap ELSE 0
        at(i) == base + (i - 1) * (Len(slice) + gap)
    IN  [fat |-> fat, packed |-> gap = 2, dense |-> FALSE, intact |-> TRUE,
         arches |-> IF fat THEN [i \in 1..2 |-> [at |-> at(i), size |-> Len(slice)]] ELSE <<>>,
         headers |-> at(1) :> MachHeader(list, slice, far),
         cells |-> [i \in 1..base |-> T("fat")] \o slice \o IF fat THEN [i \in 1..gap |-> T("")] \o slice ELSE <<>>,
         means |-> [libraries |-> <<"libA">>, symbols |-> {"ptrace", "socket", "connect", "dup2", "execv"},
                    identifier |-> "com.x", team |-> "TEAM", granted |-> {"dyld_env", "camera"},
                    sections |-> <<[name |-> <<"__TEXT">>, at |-> base], [name |-> <<"__TEXT", "__text">>, at |-> base + 1],
                                   [name |-> <<"__TEXT", "__stubs">>, at |-> base + 3]>>]]
IntactMach == {MachFile(l, o, f, g, far) : l \in MachLists, o \in MachOrders, f \in BOOLEAN, g \in {1, 2},
                                           far \in {<<>>, <<"mach_vm_write", "">>}}
DamagedMach(p) ==
    LET base == p.arches[1].at
    IN  {[p EXCEPT !.arches = <<>>], [p EXCEPT !.arches[1].size = 999], [p EXCEPT !.arches[1] = [at |-> Len(p.cells), size |-> 0]],
         [p EXCEPT !.headers = 90 :> p.headers[base]], [p EXCEPT !.headers[base].whole = FALSE],
         [p EXCEPT !.headers[base].commands = 99], [p EXCEPT !.headers[base].size = 15], [p EXCEPT !.headers[base].flags = {"pie"}],
         [p EXCEPT !.cells[base + 3] = N(0)], [p EXCEPT !.cells[base + 8] = N(999)], [p EXCEPT !.cells = SubSeq(@, 1, base + 60)],
         [p EXCEPT !.cells[base + 12] = N(7)]}
MCMachFiles ==
    IntactMach \cup {[p EXCEPT !.intact = FALSE] : p \in UNION {DamagedMach(MachFile(l, <<"strings", "symbols", "signature">>, TRUE, 1, <<>>)) : l \in MachLists}}
MCUnprefixed == "_ptrace" :> "ptrace" @@ "_connect" :> "connect" @@ "_" :> ""
MCApis ==
    [injection |-> {"WriteProcessMemory", "CreateRemoteThread", "VirtualAllocEx"}, anti_debug |-> {}, anti_vm |-> {},
     service |-> {}, manager |-> {}, reg_open |-> {}, reg_set |-> {}, hook |-> {}, screen |-> {}, load |-> {"LoadLibraryA"},
     http |-> {}, crypto |-> {}, network |-> {"socket"}, socket |-> {"socket", "connect"}, dns |-> {}, infostealer |-> {},
     exec |-> {"execve", "execvp", "execv"}]
=============================================================================
