------------------------------ MODULE MCTools ------------------------------
(* Small inputs for every part: captures of two sections, interleaved       *)
(* connections, event logs written in each of the three encodings,          *)
(* documents laid out in several ways, batches, calls of every command.     *)
EXTENDS Suite, MCImages

(* pcap_file: blocks of a capture.                                          *)
Block(kind_, headers, rest) ==
    rest @@ [kind |-> kind_, order |-> "little", sound |-> TRUE, short |-> FALSE, interface |-> 1,
             link |-> "ethernet", tick |-> 1, ticks |-> 3, headers |-> headers, lengths |-> "right"]
No == [x \in {} |-> 0]
Section == Block("section", <<>>, No)
Ethernet == Block("interface", <<>>, No)
Raw == Block("interface", <<>>, [link |-> "raw", tick |-> 5])
Short == [short |-> TRUE]
Snapped == {<<"eth", "vlan", "vlan", "ip4", "tcp", "data", "pad">>, <<"eth", "ip6", "hop", "frag", "udp", "data">>,
            <<"eth", "ip4", "tcp">>, <<"eth", "arp">>, <<>>}
RawFrames == {<<"ip4", "icmp", "data">>, <<"ip6", "udp", "data", "pad">>, <<"eth", "ip4">>}
OnRaw(n, headers) == Block("enhanced", headers, [interface |-> n])
Sections(f, g) ==
    {<<Section, Ethernet, Raw, Block("enhanced", f, No), OnRaw(2, g), Section, Raw, OnRaw(1, g),
       Block("simple", g, No)>>,
     <<Section, Ethernet, Block("other", <<>>, No), Block("enhanced", f, Short), Block("enhanced", f, [lengths |-> "zero"]),
       Section, Block("enhanced", f, No), Block("interface", <<>>, Short), Block("enhanced", f, No),
       Block("section", <<>>, [order |-> "big"]), Ethernet>>,
     <<Section, Block("simple", g, No), Block("simple", g, Short), Raw,
       Block("enhanced", g, [sound |-> FALSE]), Raw>>}
Classic(link, headers) ==
    [format |-> "pcap", link |-> link, tick |-> 1,
     blocks |-> <<Block("record", headers, No), Block("record", headers, [lengths |-> "zero"]),
                  Block("record", headers, No), Block("record", headers, Short), Block("record", headers, No)>>]
MCCaptures ==
    {[format |-> "pcapng", link |-> "", tick |-> 1, blocks |-> b] :
        b \in UNION {Sections(f, g) : f \in Snapped, g \in RawFrames}}
    \cup {Classic(lh[1], lh[2]) : lh \in
            {<<"sll", <<"sll", "ip4", "udp", "data">>>>, <<"sll2", <<"sll2", "arp">>>>, <<"null", <<"af_little", "ip6", "icmp6">>>>,
             <<"loop", <<"af_big", "ip4", "tcp", "data">>>>, <<"ipv6", <<"ip4", "tcp">>>>, <<"ipv4", <<"ip4", "esp">>>>,
             <<"ethernet", <<"eth", "ip6", "hop", "route", "dest", "ah", "tcp">>>>,
             <<"ethernet", <<"eth", "vlan", "vlan", "vlan", "ip4", "tcp">>>>}}
    \cup {[format |-> "unknown", link |-> "", tick |-> 1, blocks |-> <<>>]}

(* pcap: connections of a few packets.                                      *)
Packet(src, dst, proto, time, payload) ==
    [src |-> src, dst |-> dst, proto |-> proto, time |-> time, size |-> 1 + Len(payload), payload |-> payload,
     syn |-> FALSE, ack |-> TRUE]
Part(t, v) == [t |-> t, v |-> v]
Bare(t) == [t |-> t]
A(port) == <<"a", port>>
B(port) == <<"b", port>>
Browsing ==
    [get |-> <<Packet(A(50), B(80), "tcp", 1, <<Part("request", "/x"), Part("host", "one")>>),
               Packet(A(50), B(80), "tcp", 2, <<Part("agent", "bad"), Part("host", "two")>>),
               Packet(B(80), A(50), "tcp", 3, <<Part("status", "200")>>),
               Packet(A(50), B(80), "tcp", 4, <<Bare("end"), Part("request", "/y"), Bare("end")>>),
               Packet(B(80), A(50), "tcp", 5, <<Bare("end")>>)>>,
     post |-> <<Packet(A(51), B(80), "tcp", 1, <<Part("request", "/z")>>),
                Packet(A(51), B(80), "tcp", 6, <<Part("host", "three"), Bare("basic")>>),
                Packet(A(51), B(80), "tcp", 7, <<Bare("end")>>)>>]
Smb(response, share) == [t |-> "smb", dialect |-> "SMB2", response |-> response, share |-> share]
Ntlm(type, v, user) == [t |-> "ntlm", type |-> type, v |-> v, user |-> user, long |-> TRUE]
Logon(port, v) ==
    <<Packet(B(445), A(port), "tcp", 2, <<Smb(TRUE, "none"), Ntlm(2, v, "")>>),
      Packet(A(port), B(445), "tcp", 3, <<Smb(FALSE, "admin"), Ntlm(3, v, "ann")>>)>>
Hi(side, n) == [t |-> "hello", side |-> side, exts |-> n]
Lan ==
    [one |-> Logon(60, 1), two |-> Logon(61, 2),
     tls |-> <<Packet(A(63), B(8000), "tcp", 1, <<Hi("client", 2), Part("ciphers", 1), Part("ext", "grease"), Part("ext", "alpn")>>),
               Packet(B(8000), A(63), "tcp", 2, <<Hi("server", 0), Part("ciphers", 2)>>)>>]
Dns(name, response, missing, text) ==
    [t |-> "dns", name |-> name, label |-> "l", random |-> name # "site", response |-> response, missing |-> missing, text |-> text]
Krb(type, ticket, service, preauth) ==
    [t |-> "krb", type |-> type, ticket |-> ticket, service |-> service, preauth |-> preauth, etypes |-> {"rc4"}]
Names ==
    [old |-> <<Packet(A(62), B(139), "tcp", 4, <<[Smb(FALSE, "none") EXCEPT !.dialect = "SMB1"]>>)>>,
     dns |-> <<Packet(A(70), B(53), "udp", 1, <<Dns("qx", FALSE, FALSE, 0)>>),
               Packet(B(53), A(70), "udp", 2, <<Dns("qx", TRUE, TRUE, 0)>>),
               Packet(B(53), A(70), "udp", 4, <<Dns("site", TRUE, FALSE, 4)>>)>>,
     kdc |-> <<Packet(A(71), B(88), "udp", 2, <<Krb("AS-REQ", "none", "krbtgt", FALSE)>>),
               Packet(B(88), A(71), "udp", 2, <<Krb("TGS-REP", "rc4", "sql", TRUE)>>)>>,
     ftp |-> <<Packet(A(72), B(21), "tcp", 2, <<[t |-> "ftp", verb |-> "USER", value |-> "bob"]>>)>>]
Probe(port) == [Packet(A(80), B(port), "tcp", 1, <<>>) EXCEPT !.syn = TRUE, !.ack = FALSE]
Beat(time) == Packet(A(81), B(99), "tcp", time, <<Bare("blob"), Bare("blob"), Bare("blob")>>)
Ping(n) == [Packet(A(0), B(0), "icmp", n, <<>>) EXCEPT !.size = 20]
Noise ==
    [scan |-> <<Probe(1), Probe(2), [Probe(2) EXCEPT !.dst = <<"c", 2>>]>>,
     beat |-> <<Beat(10), Beat(20), Beat(30)>>, ping |-> <<Ping(1), Ping(2)>>]
(* A head that just fits into the buffer, and one that does not.            *)
Agents(n) == [i \in 1..n |-> Part("agent", "good")]
Long(port, n) ==
    <<Packet(A(port), B(80), "tcp", 1, <<Part("request", "/w")>> \o Agents(n)),
      Packet(A(port), B(80), "tcp", 2, <<Part("host", "four"), Bare("end")>>)>>
Oddity(port) == Packet(B(80), A(port), "tcp", 3, <<Part("status", "odd"), Bare("end")>>)
MCTraffic == {Browsing, Lan, Names, Noise, [fits |-> Long(52, 6) \o <<Probe(0), Oddity(52)>>, exceeds |-> Long(53, 7)]}

(* evtx: what an event says, and the tokens that say it: in place, as the   *)
(* tests of the reader write it and with end tags, or by templates.         *)
Value(v) == [type |-> "text", v |-> v, null |-> FALSE]
Null == [type |-> "null", v |-> "", null |-> TRUE]
Tok(t) == [t |-> t]
Named(t, n) == [t |-> t, name |-> n]
Text(v) == [t |-> "value", value |-> Value(v)]
Element(n, v) == <<Named("open", n), Text(v), Tok("close")>>
Data(n, v) == <<Named("open", "Data"), Named("attr", "Name"), Text(n), Text(v), Tok("close")>>
Header(tokens, says, size) == [size |-> size, time |-> 1, tokens |-> tokens, says |-> says]
Says(id, field, v) == [x \in {"EventID", field} |-> IF x = "EventID" THEN id ELSE v]
Inline(id, field, v) ==
    <<Tok("header"), Named("open", "Event")>> \o Element("EventID", id) \o Data(field, v) \o <<Tok("close"), Tok("eof")>>
Start(n) == <<Named("open", n), Tok("close")>>
WithEndTags(id, field, v) ==
    <<Tok("header")>> \o Start("Event") \o <<Named("open", "Provider"), Named("attr", "Name"), Text("Eventlog"), Tok("empty")>>
    \o Start("EventID") \o <<Text(id), Tok("end"), Named("open", "Data"), Named("attr", "Name"), Text(field), Tok("close"),
       Text(v), Tok("end"), Tok("end"), Tok("eof")>>
Instance(offset, values) == <<Tok("header"), [t |-> "template", offset |-> offset, cut |-> FALSE, values |-> values]>>
(* A template that names its first value, and one that embeds it.           *)
Subst(n) == [t |-> "subst", id |-> n]
Body(field) ==
    <<Named("open", "Data"), Named("attr", "Name"), Text(field), Tok("close"), Subst(0), Tok("end"), Tok("eof")>>
Whole(id, field) == Start("EventID") \o <<Text(id), Tok("end")>> \o Body(field)
Outer(id) ==
    Start("EventID") \o <<Subst(0), Tok("end")>> \o Start("EventData") \o <<Subst(1), Tok("end"), Tok("eof")>>
Blob(offset, v) ==
    [type |-> "bxml", v |-> "", null |-> FALSE, blob |-> [offset |-> offset, cut |-> FALSE, values |-> <<Value(v)>>]]
ChunkOf(headers, templates) == [magic |-> TRUE, headers |-> headers, templates |-> templates]
LogOf(chunks) == [magic |-> TRUE, header |-> TRUE, chunks |-> chunks]

Told == {<<"4625", "TargetUserName", "ann">>, <<"4625", "IpAddress", "1.2.3.4">>, <<"4624", "TargetUserName", "ann">>,
         <<"4624", "LogonType", "10">>, <<"4624", "IpAddress", "1.2.3.4">>,
         <<"1102", "x", "y">>, <<"104", "Channel", "System">>, <<"4648", "x", "y">>,
         <<"4769", "TicketEncryptionType", "23">>, <<"4768", "TicketEncryptionType", "0x17">>,
         <<"4688", "CommandLine", "encoded and suspicious">>, <<"4688", "CommandLine", "suspicious">>,
         <<"4688", "NewProcessName", "wmic.exe">>, <<"4104", "ScriptBlockText", "suspicious">>,
         <<"4698", "x", "y">>, <<"4720", "x", "y">>, <<"4728", "TargetUserName", "Domain Admins">>,
         <<"4732", "TargetUserName", "Readers">>, <<"5140", "ShareName", "C$">>, <<"4672", "SubjectUserName", "ann">>,
         <<"10", "TargetImage", "lsass.exe">>, <<"18", "PipeName", "\\lsass">>, <<"17", "Image", "temp">>,
         <<"1116", "Severity Name", "Severe">>, <<"1116", "SeverityName", "Low">>, <<"1117", "x", "y">>,
         <<"3", "DestinationPort", "4444">>, <<"4950", "SettingValue", "Off">>, <<"4740", "x", "y">>,
         <<"4723", "x", "y">>, <<"4776", "x", "y">>, <<"13", "TargetObject", "Run">>, <<"8", "SourceImage", "mal.exe">>}
InPlace(e, size) == Header(Inline(e[1], e[2], e[3]), Says(e[1], e[2], e[3]), size)
EndTagged(e, size) ==
    Header(WithEndTags(e[1], e[2], e[3]), [Provider |-> "Eventlog"] @@ Says(e[1], e[2], e[3]), size)
ByTemplate(e, size) == Header(Instance(7, <<Value(e[3]), Null>>), Says(e[1], e[2], e[3]), size)
Nested(e, size) == Header(Instance(9, <<Value(e[1]), Blob(8, e[3])>>), Says(e[1], e[2], e[3]), size)
Empty(size) == Header(<<>>, <<>>, size)
Twice(e, f) == LogOf(<<ChunkOf((0 :> InPlace(e, 95)) @@ (95 :> InPlace(f, 97)), <<>>)>>)
(* The same offset holds other templates in each chunk; the first record    *)
(* carries in its body the bytes of a header. It ends off the word, and the *)
(* record at 68 is missed.                                                  *)
Chunked(e, f) ==
    LogOf(<<ChunkOf((4 :> ByTemplate(e, 61)) @@ (28 :> Empty(24)) @@ (68 :> InPlace(f, 24)) @@ (97 :> Nested(f, 40))
                      @@ (141 :> EndTagged(f, 51)),
                    (7 :> Whole(e[1], e[2])) @@ (8 :> Body(f[2])) @@ (9 :> Outer(f[1]))),
            [ChunkOf(0 :> Empty(24), <<>>) EXCEPT !.magic = FALSE],
            ChunkOf((0 :> ByTemplate(f, 40)) @@ (24 :> Empty(24)) @@ (40 :> Empty(999)) @@ (44 :> InPlace(e, 23))
                      @@ (48 :> EndTagged(e, 92)) @@ (168 :> InPlace(e, 24)) @@ (172 :> InPlace(f, 20)),
                    7 :> Whole(f[1], f[2]))>>)
Guesses == {<<"4625", "TargetUserName", "ann">>, <<"1116", "Severity Name", "Severe">>, <<"4769", "TicketEncryptionType", "23">>}
MCLogs ==
    {Twice(e, f) : e \in Told, f \in Told} \cup {Chunked(e, f) : e \in Guesses, f \in Guesses}
    \cup {LogOf(<<ChunkOf([w \in {24 * i : i \in 0..7} |-> InPlace(<<"4740", "x", "y">>, 24)], <<>>)>>)}
    \cup {[LogOf(<<>>) EXCEPT !.magic = FALSE], [LogOf(<<>>) EXCEPT !.header = FALSE]}

(* document: MS-OVBA's packing of a script of words and copies [back, many].*)
OffsetBits(n) == CHOOSE b \in 4..12 : 2 ^ b >= n /\ (b = 4 \/ 2 ^ (b - 1) < n)
Literal(w) == [t |-> "literal", v |-> w]
Packing(acc, step) ==
    IF step.t = "literal" THEN [length |-> acc.length + 1, tokens |-> Append(acc.tokens, step)]
    ELSE [length |-> acc.length + step.many,
          tokens |-> Append(acc.tokens,
              [t |-> "copy", v |-> (step.back - 1) * 2 ^ (16 - OffsetBits(acc.length)) + step.many - 3])]
Chunk(tokens) == [t |-> "chunk", signed |-> TRUE, kind |-> "packed", long |-> FALSE, tokens |-> tokens]
Packed(script) == Chunk(FoldLeft(Packing, [length |-> 0, tokens |-> <<>>], script).tokens)
Written(text, step) ==
    IF step.t = "literal" THEN Append(text, step.v)
    ELSE FoldLeft(LAMBDA o, k : Append(o, o[Len(o) - step.back + 1]), text, [k \in 1..step.many |-> k])
TextOf(script) == FoldLeft(Written, <<>>, script)
Copy(back, many) == [t |-> "copy", back |-> back, many |-> many]
Letters == [i \in 1..16 |-> Literal(IF i % 2 = 0 THEN "Chr" ELSE IF i = 5 THEN "AutoOpen" ELSE "x")]
Script == Letters \o <<Copy(16, 3), Copy(18, 4), Literal("cmd")>>
Other == <<Literal("a"), Literal("WScript.Shell"), Copy(1, 5), Copy(7, 3), Literal("-enc")>>
Byte == [t |-> "byte"]
Sig == [t |-> "sig"]
Plain == [Chunk(<<Literal("Chr"), Literal("b")>>) EXCEPT !.kind = "plain"]
Bodies ==
    {[items |-> <<Byte, Sig, Packed(Script)>>, text |-> TextOf(Script)],
     [items |-> <<Sig, Packed(Other)>>, text |-> TextOf(Other)],
     [items |-> <<Sig, Byte, Sig, Plain, Packed(Other)>>, text |-> <<"Chr", "b">> \o TextOf(Other)],
     [items |-> <<Byte, Byte, Byte, Byte>>, text |-> <<>>]}

(* A document of 13 sectors of four cells. The sectors are numbered by      *)
(* their use, and lie in the file a stride apart.                           *)
PerSector == 4
Sectors == 13
CutIn(cells) ==
    [i \in 1..(Len(cells) + 3) \div 4 |->
        [j \in 1..4 |-> IF 4 * i + j - 4 \in DOMAIN cells THEN cells[4 * i + j - 4] ELSE Byte]]
Entry(name, type, start, size, left, right, child) ==
    [t |-> "byte", name |-> name, type |-> type, start |-> start, size |-> size, left |-> left, right |-> right, child |-> child,
     clsid |-> IF name = "Ole10Native" THEN "Package" ELSE ""]
NoEntry == Entry("", "empty", -1, 0, -1, -1, -1)
WordCells == [i \in 1..5 |-> Byte]
Document_(body, stride, far) ==
    LET at(i) == (i * stride) % Sectors
        small == Len(body.items) < 3
        mini == IF small THEN <<Byte>> \o body.items ELSE <<Byte>>
        directory ==
            <<Entry("Root Entry", "root", at(2), Len(mini), -1, -1, 2),
              Entry("Macros", "storage", -1, 0, -1, -1, 3),
              Entry("WordDocument", "stream", at(5), 5, 1, 6, -1),
              Entry("VBA", "storage", -1, 0, -1, -1, 4),
              Entry("dir", "stream", 0, 1, -1, 5, -1),
              Entry("ThisDocument", "stream", IF small THEN 1 ELSE at(7), Len(body.items), -1, -1, -1),
              Entry("Ole10Native", "stream", -2, 0, -1, -1, -1), NoEntry>>
        \* by use: 0, 1 the directory, 2 and 3 the mini stream and its table,
        \* 5, 6 and 7, 8 the streams, 9 to 12 the table, 4 its list or free
        next == [i \in 0..12 |-> CASE i \in {0, 5} -> at(i + 1)
                                   [] i = 7 /\ Len(body.items) > 4 -> at(8)
                                   [] i \in {4} \cup (9..12) -> -3
                                   [] OTHER -> -2]
        use(n) == CHOOSE i \in 0..12 : at(i) = n
        table == CutIn([n \in 1..16 |-> IF n <= Sectors THEN next[use(n - 1)] ELSE -1])
        content(i) ==
            CASE i \in {0, 1} -> CutIn(directory)[i + 1]
              [] i = 2 -> CutIn(mini)[1]
              [] i = 3 -> [j \in 1..4 |-> CASE j = 2 /\ small -> 2 [] j > Len(mini) -> -1 [] OTHER -> -2]
              [] i = 4 -> <<at(11), at(12), -1, -2>>
              [] i \in {5, 6} -> CutIn(WordCells)[i - 4]
              [] i \in {7, 8} -> IF i - 6 \in DOMAIN CutIn(body.items) THEN CutIn(body.items)[i - 6] ELSE <<Byte, Byte, Byte, Byte>>
              [] OTHER -> table[i - 8]
        path == <<"Macros", "VBA", "ThisDocument">>
    IN  [wrapper |-> [kind |-> "ole"], magic |-> TRUE, sound |-> TRUE, intact |-> TRUE, per |-> PerSector, cutoff |-> 3,
         difat |-> IF far THEN <<at(9), at(10), -1>> ELSE <<at(9), at(10), at(11), at(12)>>,
         firstDifat |-> IF far THEN at(4) ELSE -2, fatSectors |-> 4, firstDir |-> at(0), firstMini |-> at(3),
         sectors |-> [n \in 1..Sectors |-> content(use(n - 1))],
         written |-> (<<"WordDocument">> :> WordCells) @@ (<<"Macros", "VBA", "dir">> :> <<Byte>>) @@ (path :> body.items),
         sources |-> IF body.text = <<>> THEN <<>> ELSE path :> body.text]
Intact == {Document_(b, s, far) : b \in Bodies, s \in {1, 5, 8, 12}, far \in BOOLEAN}
Damaged(d) ==
    {[d EXCEPT !.magic = FALSE], [d EXCEPT !.sound = FALSE], [d EXCEPT !.sectors = SubSeq(@, 1, 9)],
     [d EXCEPT !.sectors[5] = [@ EXCEPT ![4] = 4]], [d EXCEPT !.sectors[10] = <<0, 0, 7, 90>>],
     [d EXCEPT !.sectors[1] = [@ EXCEPT ![2].left = 1, ![2].right = 3, ![3].right = 50]],
     [d EXCEPT !.sectors[1] = [@ EXCEPT ![1].type = "stream"]], [d EXCEPT !.firstDir = -1], [d EXCEPT !.fatSectors = 1]}
Wrapped(d, w, intact) == [d EXCEPT !.wrapper = w, !.intact = intact]
Member(path, marks, more) == more @@ [path |-> path, size |-> 1, read |-> "yes", marks |-> marks]
Office(members) ==
    [kind |-> "ooxml", entries |-> <<Member(<<"[Content_Types].xml">>, {"macroEnabled"}, No),
                                     Member(<<"word", "document.xml">>, {"ms-msdt:"}, No)>> \o members]
Vba(place) == Member(<<place, "vbaProject.bin">>, {}, No)
Relations(marks) == Member(<<"_rels", "rels">>, marks, No)
Strings(read) == Member(<<"xl", "sharedStrings.xml">>, {"=cmd|"}, [read |-> read])
Rtf(classes, words, blobs) == [kind |-> "rtf", classes |-> classes, words |-> words, blobs |-> blobs]
Wrappers ==
    {<<Office(<<Vba("xl")>>), TRUE>>, <<Office(<<Vba("custom"), Strings("yes")>>), TRUE>>,
     <<Office(<<Relations({"External", "oleObject", "url"}), Vba("custom"), Vba("word")>>), TRUE>>,
     <<Office(<<Relations({"External"}), Strings("refused"), Vba("ppt")>>), FALSE>>, <<Office(<<Vba("word"), Strings("raises")>>), FALSE>>,
     <<Office(<<Member(<<"word", "vbaProject.bin">>, {}, [size |-> 9]), Vba("xl")>>), FALSE>>,
     <<Rtf({"Equation3"}, {"objupdate"}, <<"nothing", "other", "compound">>), TRUE>>,
     <<Rtf({"Word.Basic"}, {"objocx", "bin"}, <<"other", "other", "other", "compound">>), FALSE>>}
MCDocuments ==
    {Wrapped(Document_(b, 5, TRUE), w[1], w[2]) : b \in Bodies, w \in Wrappers}
    \cup {Wrapped([Document_(b, 1, TRUE) EXCEPT !.sound = FALSE], w[1], FALSE) : b \in {c \in Bodies : Len(c.items) = 2}, w \in Wrappers}
    \cup Intact \cup {[d EXCEPT !.intact = FALSE] :
                    d \in UNION {Damaged(Document_(b, 1, TRUE)) : b \in {c \in Bodies : Len(c.items) \in {2, 3}}}}
MCWords ==
    [auto_exec |-> {"AutoOpen"}, suspicious_api |-> {"WScript.Shell"}, lolbin_spawn |-> {"cmd"},
     encoded_powershell |-> {"-enc"}, helper |-> {"Chr"}]

(* enrichment: IOCs and what the sources would answer.                      *)
Ioc(value, type, answers) == [value |-> value, type |-> type, host |-> "", net |-> "", answers |-> answers]
Vt(m, s, h) == [found |-> TRUE, malicious |-> m, suspicious |-> s, harmless |-> h, undetected |-> 0, tags |-> {}]
Abuse(c) == [whitelisted |-> FALSE, confidence |-> c, tags |-> {}]
Fox(c) == [query_status |-> "ok", data |-> <<[confidence |-> 0, malware |-> "", tags |-> {}],
                                            [confidence |-> c, malware |-> "emotet", tags |-> {"c2"}]>>]
Otx(p, r) == [pulses |-> p, reputation |-> r, tags |-> {"c2"}]
Haus(q, u) == [query_status |-> q, url_status |-> u, tags |-> {"emotet"}]
Misp(ids, warned) == [warned |-> warned, attributes |-> [i \in DOMAIN ids |-> [to_ids |-> ids[i], tags |-> {"apt"}]]]
Weighed ==
    {<<Ioc("a", "ipv4", [abuseipdb |-> a, virustotal |-> v, threatfox |-> f, misp |-> m])>> :
        a \in {Abuse(0), Abuse(30), Abuse(75), [Abuse(90) EXCEPT !.whitelisted = TRUE]},
        v \in {Vt(0, 0, 10), Vt(0, 2, 98), Vt(5, 0, 95), Vt(50, 0, 50), Vt(0, 0, 0), [Vt(0, 0, 0) EXCEPT !.found = FALSE]},
        f \in {Fox(10), Fox(50), [Fox(0) EXCEPT !.query_status = "no_result"]},
        m \in {Misp(<<>>, FALSE), Misp(<<TRUE, FALSE>>, TRUE), Misp(<<FALSE>>, FALSE)}}
    \cup {<<Ioc("u", "url", [otx |-> o, urlhaus |-> u, abuseipdb |-> Abuse(90)])>> :
        o \in {Otx(0, 0), Otx(2, 1), Otx(5, 0), Otx(0, -3)},
        u \in {Haus("ok", "online"), Haus("ok", "offline"), Haus("ok", ""), Haus("no_results", "")}}
Near == <<Ioc("1.1.1.1", "ipv4", [netmeta |-> [class |-> "rfc1918"], tor_exit |-> [listed |-> TRUE]]),
          Ioc("1.1.1.2", "ipv4", [netmeta |-> [class |-> "test-net-1"], tor_exit |-> [listed |-> TRUE]]),
          Ioc("9.9.9.9", "ipv4", [netmeta |-> [class |-> "public"], threatfox |-> Fox(50)])>>
Related ==
    {<<[Ioc("http://h.io/x", "url", [urlhaus |-> Haus("ok", "online"), misp |-> Misp(<<TRUE>>, TRUE)]) EXCEPT !.host = "h.io"],
       Ioc("h.io", "domain", [urlhaus |-> Haus("ok", ""), misp |-> Misp(<<TRUE>>, TRUE)]),
       [Ioc("m@h.io", "email", [threatfox |-> Fox(50)]) EXCEPT !.host = "h.io"]>>,
     [i \in 1..3 |-> [Near[i] EXCEPT !.net = IF i = 3 THEN "9.9.9" ELSE "1.1.1"]]}
MCBatches == Weighed \cup Related

(* command and configure.                                                   *)
Call(command, rest) ==
    rest @@ [command |-> command, usable |-> TRUE, iocs |-> TRUE, enrich |-> TRUE, form |-> "text", cached |-> TRUE,
             misp |-> TRUE, push |-> FALSE, out |-> FALSE, bad |-> TRUE]
MCCalls ==
    {Call(c, [usable |-> FALSE]) : c \in {"check", "analyze", "watch", "report"}}
    \cup {Call(c, [iocs |-> i, cached |-> d, misp |-> m]) :
            c \in {"scan", "correlate"}, i \in BOOLEAN, d \in BOOLEAN, m \in BOOLEAN}
    \cup {Call("parse-eml", [iocs |-> i, enrich |-> e, misp |-> FALSE]) : i \in BOOLEAN, e \in BOOLEAN}
    \cup {Call("analyze", [iocs |-> i, enrich |-> e, form |-> f, cached |-> d]) :
            i \in BOOLEAN, e \in BOOLEAN, f \in {"text", "json", "md"}, d \in BOOLEAN}
    \cup {Call("check", [push |-> p, misp |-> m, bad |-> b]) : p \in BOOLEAN, m \in BOOLEAN, b \in BOOLEAN}
    \cup {Call("report", [push |-> p, misp |-> m, out |-> o, iocs |-> i, cached |-> d]) :
            p \in BOOLEAN, m \in BOOLEAN, o \in BOOLEAN, i \in BOOLEAN, d \in BOOLEAN}
    \cup {Call("watch", [misp |-> m]) : m \in BOOLEAN}
Line(k, v) == [key |-> k, value |-> v]
MCEnvFiles ==
    {<<>>, <<Line("#", "mine"), Line("MISP_URL", "u1"), Line("IOC_CACHE_TTL", "9"), Line("MISP_URL", "u2")>>,
     <<Line("MISP_KEY", "k1"), Line("OTX_API_KEY", "")>>}
MCConfigurable == <<"OTX_API_KEY", "MISP_URL", "MISP_KEY">>
(* mail: words the scanners know, and messages made of them.                *)
Host(type, value) == [type |-> type, value |-> value]
NoHost == Host("none", "")
Match(scan, from, to, value, host) ==
    [scan |-> scan, from |-> from, to |-> to, kept |-> to, valid |-> TRUE, value |-> value, host |-> host]
Invalid == [valid |-> FALSE]
Evil == Host("domain", "evil.com")
MCScanned ==
    <<"hxxp://evil[.]com/a@b.com.">> :>
        <<[kept |-> 19] @@ Match("url", 1, 20, "http://evil.com/a@b.com", Evil), Match("domain", 8, 12, "evil.com", NoHost),
          Match("email", 14, 19, "a@b.com", Host("domain", "b.com")), Match("domain", 16, 19, "b.com", NoHost)>>
    @@ <<"Evil.com">> :> <<Match("domain", 1, 8, "Evil.com", NoHost)>>
    @@ <<"evil.com">> :> <<Match("domain", 1, 8, "evil.com", NoHost)>>
    @@ <<"evil.com", "Evil.com">> :> <<Match("domain", 1, 16, "evil.comEvil.com", NoHost)>>
    @@ <<"x(at)evil.com">> :> <<Match("email", 1, 10, "x@evil.com", Evil), Match("domain", 3, 10, "evil.com", NoHost)>>
    @@ <<"x@e.exe">> :> <<Match("email", 1, 7, "x@e.exe", NoHost), Invalid @@ Match("domain", 3, 7, "e.exe", NoHost)>>
    @@ <<"cve-2021-1">> :> <<Match("cve", 1, 10, "cve-2021-1", NoHost)>>
    @@ <<"exe">> :> <<Match("sha256", 1, 64, "MZ", NoHost)>>
    @@ <<"1BoatSL">> :> <<Invalid @@ Match("legacy", 1, 7, "1BoatSL", NoHost)>>
    @@ <<"::ffff:1.2.3.4">> :> <<Match("ipv6", 1, 8, "::ffff:1", NoHost), Match("ipv4", 8, 14, "1.2.3.4", NoHost)>>
    @@ <<"1.2.3.4">> :> <<Match("ipv4", 1, 7, "1.2.3.4", NoHost)>>
MCLowered == "Evil.com" :> "evil.com" @@ "evil.comEvil.com" :> "evil.comevil.com" @@ "CVE-2021-1" :> "cve-2021-1"
MailPart(ctype, data) ==
    [container |-> FALSE, named |-> FALSE, disposition |-> FALSE, path |-> <<>>, ctype |-> ctype,
     data |-> [i \in DOMAIN data |-> IF Len(data[i]) = 2 THEN [t |-> data[i][1], v |-> data[i][2]] ELSE [t |-> "word", v |-> data[i][1]]]]
Sp == <<"sp">>
Attached(path, data) == [named |-> TRUE, path |-> path] @@ MailPart("application", data)
MailParts ==
    {MailPart("text", <<Sp, <<"hxxp://evil[.]com/a@b.com.">>, Sp, <<"evil.com">>, Sp>>),
     MailPart("text", <<<<"Evil.com">>, Sp, <<"::ffff:1.2.3.4">>, Sp, <<"evil.com">>>>),
     MailPart("html", <<<<"evil.com">>, <<"tag", "td">>, <<"Evil.com">>, <<"href", "x@e.exe">>, <<"cve-2021-1">>>>),
     MailPart("html", <<<<"marked", "if">>, <<"evil.com">>, <<"tag", "td">>, <<"1BoatSL">>>>),
     MailPart("calendar", <<<<"1.2.3.4">>>>),
     [container |-> TRUE] @@ MailPart("multipart", <<>>),
     [disposition |-> TRUE] @@ MailPart("text", <<<<"MZ">>, Sp, <<"evil.com">>, Sp, <<"x">>, <<"y">>, <<"z">>>>),
     Attached(<<"..", "Evil.com">>, <<<<"MZ">>>>), Attached(<<"a.txt">>, <<>>), Attached(<<>>, <<<<"MZ">>>>)}
Headers == {<<<<"exe", "sp", "cve-2021-1">>, <<"x(at)evil.com">>>>, <<<<"1BoatSL">>, <<"re", "sp", "::ffff:1.2.3.4", "sp", "1.2.3.4">>>>}
Routes == {<<>>, <<[text |-> <<"by", "sp", "1.2.3.4">>, ips |-> <<"1.2.3.4">>], [text |-> <<"by">>, ips |-> <<"999.1.1.1">>]>>}
Origins == {[text |-> <<>>, ip |-> "none"], [text |-> <<"5.6.7.8">>, ip |-> "5.6.7.8"]}
MCMessages ==
    {[headers |-> h, received |-> r, origin |-> o, parts |-> p] :
        h \in Headers, r \in Routes, o \in Origins,
        p \in {<<>>} \cup {<<q>> : q \in MailParts} \cup {<<q, s>> : q \in MailParts, s \in MailParts}}
=============================================================================
