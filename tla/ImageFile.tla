----------------------------- MODULE ImageFile -----------------------------
(* What the analysers of executables share: the bounds-checked reader       *)
(* (Reader of analyze/common.py) and the rules about the symbols an image   *)
(* uses (analyze/heuristics.py). A file is a sequence of cells, each of     *)
(* which can be read as a number n and as a text s; a field of a table, a   *)
(* string or a thunk takes one cell.                                        *)
EXTENDS Integers, Sequences, SequencesExt, FiniteSets, FiniteSetsExt

CONSTANTS
    MaxSections,  \* MAX_SECTIONS
    MaxLibs,      \* MAX_IMPORT_LIBS
    MaxSymbols,   \* MAX_IMPORT_SYMBOLS_PER_LIB, and entries read of a table
    MinBulk,      \* more bytes than this are worth a finding about entropy
    Apis          \* the tables of symbols (common.py:486), by behaviour

INFO == 10
LOW == 30
MEDIUM == 50
HIGH == 70
CRITICAL == 90
Finding(rule, severity) == [rule |-> rule, severity |-> severity]
Marked(holds, rule, severity) == IF holds THEN {Finding(rule, severity)} ELSE {}
First(s, n) == SubSeq(s, 1, Min({n, Len(s)}))

(* Past the end of the file there is neither a number nor a text.           *)
None == -1
Slice(cells, at, length) == at >= 0 /\ length >= 0 /\ at + length <= Len(cells)
Num(cells, at) == IF Slice(cells, at, 1) THEN cells[at + 1].n ELSE None
Str(cells, at) == IF Slice(cells, at, 1) THEN cells[at + 1].s ELSE ""

(* The names a table of symbols gives, through what was read of a table of  *)
(* strings: 0 is no name, and neither is what lies past the strings.        *)
SymbolNames(cells, table, count, strings, size) ==
    LET given == {Num(cells, table + i) : i \in 0..Min({count, MaxSymbols}) - 1}
    IN  IF Slice(cells, strings, size)
        THEN {Str(cells, strings + x) : x \in {x \in given : 0 < x /\ x < size}} \ {""} ELSE {}

(* apply_heuristics, over what an image imports: its format, the symbols,   *)
(* how many there are and in how many libraries, whether it is packed, has  *)
(* dense code, and is managed code.                                         *)
Combos(image) ==
    LET syms == image.symbols
        hits(k) == Cardinality(syms \cap Apis[k])
        any(k) == hits(k) > 0
        both(k, l) == any(k) /\ any(l)
        posix == image.format \in {"elf", "macho"}
        service == both("service", "manager")
        crypto == both("http", "crypto")
    IN  Marked(hits("injection") >= 3, "process_injection", CRITICAL)
        \cup Marked(hits("injection") = 2, "process_injection_partial", MEDIUM)
        \cup Marked(hits("anti_debug") >= 3, "anti_debug", MEDIUM)
        \cup Marked(hits("anti_vm") >= 2, "anti_vm", MEDIUM)
        \cup Marked(service, "service_install", HIGH)
        \cup Marked(~service /\ both("reg_open", "reg_set"), "registry_persistence", MEDIUM)
        \cup Marked({"GetAsyncKeyState", "GetForegroundWindow"} \subseteq syms \/ any("hook"), "keylogger", HIGH)
        \cup Marked(hits("screen") >= 2, "screenshot_capture", HIGH)
        \cup Marked({"GetClipboardData", "OpenClipboard"} \subseteq syms, "clipboard_stealer", MEDIUM)
        \cup Marked("CryptUnprotectData" \in syms, "dpapi_dump", HIGH)
        \cup Marked("GetProcAddress" \in syms /\ any("load"), "dynamic_resolution",
                    IF image.packed \/ image.dense THEN MEDIUM ELSE LOW)
        \cup Marked(crypto, "crypto_c2", MEDIUM)
        \cup Marked(any("network") /\ ~crypto /\ both("socket", "dns"), "raw_socket_c2", LOW)
        \cup Marked(hits("infostealer") >= 4, "infostealer_battery", HIGH)
        \cup Marked(image.format = "pe" /\ ~image.managed /\ image.libraries = 0, "no_imports", HIGH)
        \cup Marked(image.packed /\ image.count \in 1..6, "packed_thin_imports", MEDIUM)
        \cup Marked(posix /\ {"socket", "connect", "dup2"} \subseteq syms /\ any("exec"), "posix_reverse_shell", HIGH)
        \cup Marked(posix /\ {"dlopen", "dlsym", "mprotect"} \subseteq syms, "posix_in_memory_loader", MEDIUM)
=============================================================================
