----------------------------- MODULE VbaProject -----------------------------
(* The macros of an Office document (analyze/vba.py): finding the source in *)
(* a module's stream, expanding it, and what its words tell. A stream is a  *)
(* sequence of items: bytes of compiled code, the signature byte, and       *)
(* chunks of compressed source with their tokens. A letter is a literal     *)
(* token, a number a copy token of 16 bits.                                 *)
EXTENDS Integers, Sequences, SequencesExt, FiniteSets, FiniteSetsExt

CONSTANTS
    MaxChunk,       \* MAX_CHUNK_DECOMPRESSED
    MaxText,        \* MAX_DECOMPRESSED_BYTES
    Words,          \* the words searched for, by rule
    Dense, Present  \* how many decoding helpers are many, and some

(* The width of the offset in a copy token grows with the text of its chunk *)
(* so far.                                                                  *)
CeilLog2(n) == IF n <= 1 THEN 0 ELSE CHOOSE b \in 1..13 : 2 ^ b >= n /\ 2 ^ (b - 1) < n
Copied(out, from, token) ==
    LET bits == Max({CeilLog2(Len(out) - from), 4})
        length == (token % 2 ^ (16 - bits)) + 3
        src == Len(out) - (token \div 2 ^ (16 - bits) + 1)
    IN  IF src < from THEN [out |-> out, live |-> FALSE, error |-> TRUE]
        ELSE LET longer == FoldLeft(LAMBDA o, k : Append(o, o[src + k]), out, [k \in 1..length |-> k])
             IN  [out |-> longer, live |-> Len(longer) - from < MaxChunk, error |-> FALSE]

(* Eight tokens share a flag byte: the limit of a chunk is looked at before *)
(* each flag byte and after each copy.                                      *)
Expanded(out, tokens) ==
    FoldLeft(LAMBDA acc, i :
                 LET full == (i - 1) % 8 = 0 /\ Len(acc.out) - Len(out) >= MaxChunk
                 IN  IF ~acc.live \/ full THEN [acc EXCEPT !.live = FALSE] ELSE
                     CASE tokens[i].t = "literal"   -> [acc EXCEPT !.out = Append(@, tokens[i].v)]
                       [] tokens[i].t = "cut"       -> [acc EXCEPT !.live = FALSE, !.error = TRUE]
                       [] OTHER                     -> Copied(acc.out, Len(out), tokens[i].v),
             [out |-> out, live |-> TRUE, error |-> FALSE], [i \in DOMAIN tokens |-> i])

(* decompress_compressed_atom: chunk after chunk until one is unsound.      *)
LooksLikeChunk(item) == item.t = "chunk" /\ item.signed /\ item.kind \in {"plain", "packed"}
Decompressed(items) ==
    FoldLeft(LAMBDA acc, item :
                 IF acc.error \/ Len(acc.out) >= MaxText THEN acc
                 ELSE IF ~LooksLikeChunk(item) \/ item.long THEN [acc EXCEPT !.error = TRUE] ELSE
                 CASE item.kind = "plain" ->
                         [acc EXCEPT !.out = @ \o SubSeq([i \in DOMAIN item.tokens |-> item.tokens[i].v], 1,
                                                         Min({MaxChunk, Len(item.tokens)}))]
                   [] OTHER -> LET e == Expanded(acc.out, item.tokens) IN [out |-> e.out, error |-> e.error],
             [out |-> <<>>, error |-> FALSE], items)

(* decompress_module_stream: the first place that looks like compressed     *)
(* source and expands to something.                                         *)
Sources(body) ==
    LET tail(i) == SubSeq(body, i + 1, Len(body))
        places == SelectSeq([i \in DOMAIN body |-> i],
                     LAMBDA i : /\ i < Len(body) /\ body[i].t = "sig" /\ LooksLikeChunk(body[i + 1])
                                /\ Decompressed(tail(i)).out # <<>>)
    IN  IF places = <<>> THEN <<>> ELSE Decompressed(tail(Head(places))).out

(* extract_vba_modules: the streams of a VBA storage but for its lists.     *)
Lists == {"dir", "_VBA_PROJECT", "PROJECT", "PROJECTwm", "ProjectLcid"}
IsModule(path) == (\E i \in 1..Len(path) - 1 : path[i] = "VBA") /\ Last(path) \notin Lists
Modules(streams) ==
    LET texts == [p \in {q \in DOMAIN streams : IsModule(q)} |-> Sources(streams[p])]
    IN  [p \in {q \in DOMAIN texts : texts[q] # <<>>} |-> texts[p]]

(* _emit_vba_findings. A symbol of the text is a letter or a whole word.    *)
Found(rule, modules) == Words[rule] \cap UNION {ToSet(modules[p]) : p \in DOMAIN modules}
Helpers(modules) ==
    MapThenSumSet(LAMBDA p : Len(SelectSeq(modules[p], LAMBDA w : w \in Words["helper"])), DOMAIN modules)
Severity == [auto_exec |-> 70, suspicious_api |-> 70, lolbin_spawn |-> 70, encoded_powershell |-> 90]
VbaFindings(modules) ==
    {[rule |-> r, severity |-> Severity[r]] : r \in {q \in DOMAIN Severity : Found(q, modules) # {}}}
    \cup CASE Helpers(modules) >= Dense -> {[rule |-> "obfuscation_density", severity |-> 50]}
           [] Helpers(modules) \in Present..Dense - 1 -> {[rule |-> "obfuscation_present", severity |-> 30]}
           [] OTHER -> {}
=============================================================================
