------------------------------ MODULE EvtxLog ------------------------------
(* Reading a Windows event log (analyze/evtx.py): the walk over the chunks  *)
(* and the records in them, and the decoding of a record's BinXml with the  *)
(* templates of its chunk. Places in a chunk are counted in bytes from the  *)
(* end of the chunk's own header; at some of them stands what looks like a  *)
(* record header, with the size it states and the tokens that follow it.    *)
EXTENDS Integers, Sequences, SequencesExt, FiniteSets, Functions

CONSTANTS
    Logs,        \* the log files that may be analysed
    HeaderSize,  \* EVTX_RECORD_HEADER_SIZE (24)
    ChunkSize,   \* bytes of a chunk behind its header (EVTX_CHUNK_SIZE less 512)
    MaxRecords,  \* _MAX_RECORDS
    MaxChunks,   \* _MAX_CHUNKS
    MaxFields,   \* _MAX_FIELDS
    MaxValues    \* substitution values a template instance may have (512)

CONSTANT Detect(_)  \* the findings of a sequence of events (EvtxDetect)

VARIABLES
    input,   \* the file: [magic, header, chunks], a chunk [magic, headers, templates]
    work,    \* the walk: [chunk, pos, cache, events, places, done]
    report   \* the findings
vars == <<input, work, report>>

Put(f, k, v) == [x \in DOMAIN f \cup {k} |-> IF x = k THEN v ELSE f[x]]
Get(f, k, default) == IF k \in DOMAIN f THEN f[k] ELSE default
Top(stack) == IF stack = <<>> THEN "" ELSE Last(stack)
Popped(stack) == IF stack = <<>> THEN stack ELSE Front(stack)

(* _decode_value: hexadecimal integers are written with eight digits.       *)
Hex32(n) == CASE n = 23 -> "0x00000017" [] n = 18 -> "0x00000012" [] OTHER -> "0x00000000"
Decode(value) == IF value.type = "hex32" THEN Hex32(value.v) ELSE value.v

(* _SYSTEM_SUBST and _subst_context_name, for the fields the model uses.    *)
SystemSubst(i) == CASE i = 0 -> "Provider" [] i = 3 -> "EventID" [] i = 15 -> "Channel" [] OTHER -> ""
ContextName(elem, attr) ==
    CASE elem = "Provider" /\ attr = "Name"        -> "Provider"
      [] elem \in {"EventID", "Channel"} /\ attr = "" -> elem
      [] OTHER                                     -> ""

(* _parse_template_binxml: which field each substitution of a template      *)
(* fills, and the values written in the template itself.                    *)
NoTemplate == [names |-> <<>>, literals |-> <<>>]
TemplateToken(s, tok) ==
    LET elem == Top(s.elems)
        named == elem = "Data" /\ s.data # ""
        name == IF named THEN s.data ELSE ContextName(elem, s.attr)
    IN  IF s.stop THEN s ELSE
        CASE tok.t = "eof"   -> [s EXCEPT !.stop = TRUE]
          [] tok.t = "open"  -> [s EXCEPT !.elems = Append(@, tok.name), !.data = ""]
          [] tok.t \in {"empty", "end"} -> [s EXCEPT !.elems = Popped(@)]
          [] tok.t = "attr"  -> [s EXCEPT !.attr = tok.name]
          [] tok.t = "value" /\ s.attr = "Name" /\ elem = "Data" ->
                [s EXCEPT !.data = Decode(tok.value), !.attr = ""]
          [] tok.t = "value" /\ ~(s.attr = "Name" /\ elem = "Data") ->
                [s EXCEPT !.attr = "", !.literals =
                    IF Decode(tok.value) = "" \/ s.attr # "" \/ ContextName(elem, "") = "" THEN @
                    ELSE Put(@, ContextName(elem, ""), Decode(tok.value))]
          [] tok.t = "subst" ->
                [s EXCEPT !.attr = "", !.names = IF name = "" THEN @ ELSE Put(@, tok.id, name)]
          [] OTHER -> s
ParseTemplate(tokens) ==
    LET s == FoldLeft(TemplateToken,
                      [elems |-> <<>>, attr |-> "", data |-> "", names |-> <<>>, literals |-> <<>>,
                       stop |-> FALSE], tokens)
    IN  [names |-> s.names, literals |-> s.literals]

(* _load_template: definitions are cached by their offset in the chunk.     *)
Known(chunk, cache, offset) ==
    IF offset \in DOMAIN cache THEN cache[offset]
    ELSE IF offset \in DOMAIN chunk.templates THEN ParseTemplate(chunk.templates[offset])
    ELSE NoTemplate
Cached(chunk, cache, offset) ==
    IF offset \in DOMAIN chunk.templates THEN Put(cache, offset, Known(chunk, cache, offset)) ELSE cache

(* _parse_bxml_blob: the values of an embedded instance, named by its own   *)
(* template and by nothing else.                                            *)
Filled(fields, name, value) ==
    IF name = "" \/ value.null \/ Decode(value) = "" THEN fields ELSE Put(fields, name, Decode(value))
FilledBy(fields, names, values) ==
    FoldLeftDomain(LAMBDA acc, i : Filled(acc, Get(names, i - 1, ""), values[i]), fields, values)
ApplyBlob(chunk, s, blob) ==
    LET names == Known(chunk, s.cache, blob.offset).names
    IN  IF blob.cut \/ Len(blob.values) > MaxValues THEN s
        ELSE [s EXCEPT !.cache = Cached(chunk, @, blob.offset), !.fields = FilledBy(@, names, blob.values)]

(* _apply_template_instance: a value the template does not name is taken    *)
(* for the standard field of its position; literals fill what is missing.   *)
Completed(fields, literals) == fields @@ literals
TemplateValue(chunk, s, names, i, value) ==
    LET n == Get(names, i, "")
        name == IF n = "" THEN SystemSubst(i) ELSE n
    IN  IF value.null THEN s
        ELSE IF value.type = "bxml" THEN ApplyBlob(chunk, s, value.blob)
        ELSE [s EXCEPT !.fields = Filled(@, name, value)]
ApplyTemplate(chunk, s, tok) ==
    LET template == Known(chunk, s.cache, tok.offset)
        after[n \in 0..Len(tok.values)] ==
            IF n = 0 THEN [s EXCEPT !.cache = Cached(chunk, @, tok.offset)]
            ELSE TemplateValue(chunk, after[n - 1], template.names, n - 1, tok.values[n])
    IN  IF tok.cut \/ Len(tok.values) > MaxValues THEN s
        ELSE [after[Len(tok.values)] EXCEPT !.fields = Completed(@, template.literals)]

(* _parse_event_binxml and _inline_attr_key: the tokens of a record; an     *)
(* unknown one ends it. The name of a Data element waits in the fields for  *)
(* the element's content.                                                   *)
AttrKey(elem, attr) ==
    CASE elem = "Data" /\ attr = "Name" -> "_DataName"
      [] elem = "Provider" /\ attr = "Name" -> "Provider"
      [] OTHER -> "other"
RecordValue(s, value) ==
    LET elem == Top(s.elems)
        waiting == Get(s.fields, "_DataName", "")
        without == [k \in DOMAIN s.fields \ {"_DataName"} |-> s.fields[k]]
    IN  CASE value = "" -> s
          [] value # "" /\ s.attr # "" -> [s EXCEPT !.fields = Put(@, AttrKey(elem, s.attr), value)]
          [] value # "" /\ s.attr = "" /\ elem = "Data" ->
                [s EXCEPT !.fields = IF waiting = "" THEN without ELSE Put(without, waiting, value)]
          [] OTHER -> [s EXCEPT !.fields = IF elem = "" THEN @ ELSE Put(@, elem, value)]
RecordToken(chunk, s, tok) ==
    IF s.stop \/ Cardinality(DOMAIN s.fields) >= MaxFields THEN s ELSE
    CASE tok.t = "open"  -> [s EXCEPT !.elems = Append(@, tok.name)]
      [] tok.t \in {"close", "empty"} -> [s EXCEPT !.elems = Popped(@), !.attr = ""]
      [] tok.t = "attr"  -> [s EXCEPT !.attr = tok.name]
      [] tok.t = "value" -> [RecordValue(s, Decode(tok.value)) EXCEPT !.attr = ""]
      [] tok.t = "template" -> ApplyTemplate(chunk, s, tok)
      [] tok.t \in {"header", "subst"} -> s
      [] OTHER -> [s EXCEPT !.stop = TRUE]
DecodeRecord(chunk, cache, record) ==
    LET start == [elems |-> <<>>, attr |-> "", fields |-> <<>>, cache |-> cache, stop |-> FALSE]
        after[n \in 0..Len(record.tokens)] ==
            IF n = 0 THEN start ELSE RecordToken(chunk, after[n - 1], record.tokens[n])
        s == after[Len(record.tokens)]
    IN  [event |-> [time |-> record.time, id |-> Get(s.fields, "EventID", "0"), fields |-> s.fields],
         cache |-> s.cache]

----------------------------------------------------------------------------
Init ==
    /\ input \in Logs
    /\ work = [chunk |-> 1, pos |-> 0, cache |-> <<>>, events |-> <<>>, places |-> <<>>, done |-> FALSE]
    /\ report = {}

Readable == input.magic /\ input.header
Chunk == input.chunks[work.chunk]
InChunk ==
    /\ ~work.done /\ Readable
    /\ work.chunk <= Len(input.chunks) /\ work.chunk <= MaxChunks /\ Chunk.magic
    /\ work.pos + HeaderSize <= ChunkSize
Header == Chunk.headers[work.pos]
IsRecord ==
    /\ work.pos \in DOMAIN Chunk.headers
    /\ Header.size >= HeaderSize /\ work.pos + Header.size <= ChunkSize

(* _iter_chunk_records: anything but a sound record header is passed over   *)
(* four bytes at a time.                                                    *)
PassWord ==
    /\ InChunk /\ ~IsRecord
    /\ work' = [work EXCEPT !.pos = @ + 4]
    /\ UNCHANGED <<input, report>>

(* Mutant: only the header of the record is passed over.                    *)
ReadRecordHeader ==
    /\ InChunk /\ IsRecord /\ Len(work.events) < MaxRecords
    /\ LET decoded == DecodeRecord(Chunk, work.cache, Header)
       IN  work' = [work EXCEPT !.pos = @ + HeaderSize, !.cache = decoded.cache,
                                !.events = Append(@, decoded.event),
                                !.places = Append(@, <<work.chunk, work.pos>>)]
    /\ UNCHANGED <<input, report>>

(* The walk goes on where the record ends, be it at a word or not. Past     *)
(* _MAX_RECORDS the chunk is left.                                          *)
ReadRecord ==
    /\ InChunk /\ IsRecord /\ Len(work.events) < MaxRecords
    /\ LET decoded == DecodeRecord(Chunk, work.cache, Header)
       IN  work' = [work EXCEPT !.pos = @ + Header.size, !.cache = decoded.cache,
                                !.events = Append(@, decoded.event),
                                !.places = Append(@, <<work.chunk, work.pos>>)]
    /\ UNCHANGED <<input, report>>

(* _iter_chunks: the next chunk, with a template cache of its own.          *)
KeptCache == work.cache   \* mutant: offsets of another chunk
NoCache == <<>>
NextChunk ==
    /\ ~work.done /\ Readable /\ work.chunk <= Len(input.chunks) /\ work.chunk <= MaxChunks
    /\ IF InChunk THEN IsRecord /\ Len(work.events) >= MaxRecords ELSE TRUE
    /\ work' = [work EXCEPT !.chunk = @ + 1, !.pos = 0, !.cache = NoCache]
    /\ UNCHANGED <<input, report>>

(* A file that is no event log gets a finding and no more.                  *)
Refuse ==
    /\ ~work.done /\ ~Readable
    /\ work' = [work EXCEPT !.done = TRUE]
    /\ report' = {[rule |-> IF input.magic THEN "truncated_header" ELSE "bad_magic", severity |-> 10]}
    /\ UNCHANGED input

Finish ==
    /\ ~work.done /\ Readable
    /\ work.chunk > Len(input.chunks) \/ work.chunk > MaxChunks
    /\ work' = [work EXCEPT !.done = TRUE]
    /\ report' = Detect(work.events)
    /\ UNCHANGED input

Next == PassWord \/ ReadRecord \/ NextChunk \/ Refuse \/ Finish
Spec == Init /\ [][Next]_vars
=============================================================================
