----------------------------- MODULE Extraction -----------------------------
(* What a mail, or any text, says of indicators: extract_iocs               *)
(* (core/parser.py) and the message around the text (core/eml.py). A text   *)
(* is a sequence of words and spaces; what the scanners match in a word,    *)
(* defanged or not, is known, and words with no space between them are one. *)
EXTENDS Integers, Sequences, SequencesExt, FiniteSets

CONSTANTS
    Messages,       \* the mails that may come
    Scanned,        \* what the scanners match in a word, once refanged
    Lowered,        \* the lower case of what is written with capitals
    MaxBody,        \* _MAX_BODY_BYTES
    MaxAttachment   \* _MAX_ATTACHMENT_BYTES

VARIABLES
    input,   \* its headers, received hops, origin and parts
    work,    \* the part being read, the bodies, the attachments
    report   \* the IOCs, in the order in which they were found
vars == <<input, work, report>>

Space == "sp"
Plain(data) == [i \in DOMAIN data |-> data[i].v]   \* a part holds words, spaces and, in HTML, tags and link targets
Spaced(texts) == FlattenSeq([i \in DOMAIN texts |-> Append(texts[i], Space)])
Runs(text) ==
    LET grow(runs, a) == IF a = Space THEN Append(runs, <<>>) ELSE Append(Front(runs), Append(Last(runs), a))
    IN  SelectSeq(FoldLeft(grow, << <<>> >>, text), LAMBDA r : r # <<>>)
Matches(run) == IF run \in DOMAIN Scanned THEN Scanned[run] ELSE <<>>

(* Each scanner goes over the whole text; IPv6 before IPv4, whose dots it   *)
(* may hold, and bare domains last.                                         *)
Scanners == <<"url", "email", "sha256", "sha1", "md5", "cve", "bech32", "legacy", "ipv6", "ipv4", "domain">>
TypeOf(scan) == IF scan \in {"bech32", "legacy"} THEN "btc" ELSE scan
Upper(v) == IF \E u \in DOMAIN Lowered : Lowered[u] = v THEN CHOOSE u \in DOMAIN Lowered : Lowered[u] = v ELSE v
Canonical(type, v) ==
    CASE type \in {"domain", "email", "url", "md5", "sha1", "sha256"} /\ v \in DOMAIN Lowered -> Lowered[v]
      [] type = "cve" -> Upper(v)
      [] OTHER -> v
Ioc(type, v) == [type |-> type, value |-> <<Canonical(type, v)>>]
Hosts(c) == IF c.host.type = "none" THEN <<>> ELSE <<Ioc(c.host.type, c.host.value)>>

Added(found, ioc) == IF ioc \in ToSet(found) THEN found ELSE Append(found, ioc)
AllAdded(found, iocs) == FoldLeft(Added, found, iocs)

(* A match counts if none of it is taken already and it is what it looks    *)
(* like (a checksum, an address, a known last label). It takes its span,    *)
(* without the punctuation at the end of a URL.                             *)
Overlap(a, b) == a.run = b.run /\ a.from <= b.to /\ b.from <= a.to
MarkHead(c) == [run |-> c.run, from |-> c.from, to |-> c.from]   \* mutant: only the first character is masked
Mark(c) == [run |-> c.run, from |-> c.from, to |-> c.kept]
Free(masked, c) == \A m \in masked : ~Overlap(m, c)
Scan(acc, c) ==
    IF ~c.valid \/ ~Free(acc.masked, c) THEN acc
    ELSE [masked |-> acc.masked \cup {Mark(c)},
          found |-> AllAdded(acc.found, <<Ioc(TypeOf(c.scan), c.value)>> \o Hosts(c))]
Candidates(text) ==
    LET runs == Runs(text)
        in(r) == [i \in DOMAIN Matches(runs[r]) |-> [run |-> r] @@ Matches(runs[r])[i]]
        all == FlattenSeq([r \in DOMAIN runs |-> in(r)])
    IN  FlattenSeq([s \in DOMAIN Scanners |-> SelectSeq(all, LAMBDA c : c.scan = Scanners[s])])
ExtractIocs(text) == FoldLeft(Scan, [masked |-> {}, found |-> <<>>], Candidates(text)).found

----------------------------------------------------------------------------
Init ==
    /\ input \in Messages
    /\ work = [at |-> 1, text |-> <<>>, html |-> <<>>, files |-> <<>>, done |-> FALSE]
    /\ report = <<>>

(* The leaves of the message, in the order of walk().                       *)
Part == input.parts[work.at]
At(is) == work.at <= Len(input.parts) /\ is
IsAttachment == Part.named \/ Part.disposition
Continue(w) == work' = [w EXCEPT !.at = @ + 1] /\ UNCHANGED <<input, report>>
SafeName == IF Part.path = <<>> THEN "(unnamed)" ELSE Last(Part.path)
Upto(data, n) == SubSeq(data, 1, Min({n, Len(data)}))
Chunk == Upto(Part.data, MaxBody - (Len(work.text) + Len(work.html)))

SkipPart ==
    /\ At(\/ Part.container
          \/ IsAttachment /\ Part.data = <<>>
          \/ ~IsAttachment /\ (Part.ctype \notin {"text", "html"}))
    /\ Continue(work)
ReadAttachment ==
    /\ At(~Part.container /\ IsAttachment /\ Part.data # <<>>)
    /\ Continue([work EXCEPT !.files = Append(@, [data |-> Plain(Upto(Part.data, MaxAttachment)), name |-> SafeName])])
ReadText ==
    /\ At(~Part.container /\ ~IsAttachment /\ Part.ctype = "text")
    /\ Continue([work EXCEPT !.text = @ \o Chunk])
ReadHtml ==
    /\ At(~Part.container /\ ~IsAttachment /\ Part.ctype = "html")
    /\ Continue([work EXCEPT !.html = @ \o Chunk])

(* _HTMLToText keeps the words and, set apart, the targets of links; a tag  *)
(* leaves nothing between the words around it. Some markup makes the parser *)
(* raise: the HTML is then taken as it is.                                  *)
Kept(e) == CASE e.t = "tag" -> <<>> [] e.t = "href" -> <<Space, e.v, Space>> [] OTHER -> <<e.v>>
AsIs(e) == IF e.t = "word" THEN <<e.v>> ELSE <<Space, e.v, Space>>
HtmlText(html) ==
    IF \E e \in ToSet(html) : e.t = "marked" THEN FlattenSeq([i \in DOMAIN html |-> AsIs(html[i])])
    ELSE FlattenSeq([i \in DOMAIN html |-> Kept(html[i])])

Combined ==
    Spaced(input.headers \o [i \in DOMAIN input.received |-> input.received[i].text]
           \o <<input.origin.text, Plain(work.text), HtmlText(work.html)>>
           \o [i \in DOMAIN work.files |-> <<work.files[i].name>>])
Ipv4(ip) == [type |-> "ipv4", value |-> <<ip>>]
Hops == FlattenSeq([i \in DOMAIN input.received |->
                       [j \in DOMAIN input.received[i].ips |-> Ipv4(input.received[i].ips[j])]])
Origin == IF input.origin.ip = "none" THEN <<>> ELSE <<Ipv4(input.origin.ip)>>
Hashes == FlattenSeq([i \in DOMAIN work.files |-> <<[type |-> "sha256", value |-> work.files[i].data],
                                                     [type |-> "md5", value |-> work.files[i].data]>>])
Finish ==
    /\ work.at > Len(input.parts) /\ ~work.done
    /\ report' = AllAdded(ExtractIocs(Combined), Hops \o Origin \o Hashes)
    /\ work' = [work EXCEPT !.done = TRUE]
    /\ UNCHANGED input

Next == SkipPart \/ ReadAttachment \/ ReadText \/ ReadHtml \/ Finish
Spec == Init /\ [][Next]_vars
=============================================================================
