------------------------------- MODULE Tools -------------------------------
(* The parts of ioc_hunter that work on one input, as one system: the       *)
(* analysers analyze_file hands a capture or an event log to, the           *)
(* enrichment of a batch, the list of Tor exits and the commands            *)
(* themselves. Of each run one part is chosen; it reads the input, keeps    *)
(* its local variables in work and leaves a report. Suite adds the readers  *)
(* of other files and of mails.                                             *)
EXTENDS Integers, Sequences, SequencesExt, FiniteSets, Functions

CONSTANTS
    Captures, MaxFrames, MaxTags, MaxExts,                             \* PcapFrames
    Traffic, MaxFaults, MaxFlows, MaxTimes, StitchCap, MaxNames, MaxRecords, MaxKept, \* PcapCapture
    BeaconPackets, ScanPorts, SweepHosts, ExfilBytes, TunnelBytes, TunnelQueries, TunnelRate,
    DgaNames, IcmpBytes, IcmpPackets, NxResponses, KnownBad, Shown,    \* PcapDetect
    Logs, HeaderSize, ChunkSize, MaxEvents, MaxChunks, MaxFields, MaxValues, \* EvtxLog
    SprayUsers, BruteFails, RarePorts, Lockouts, NtlmLogons,           \* EvtxDetect
    Batches,                                                           \* Enrichment
    Askers, Refresh, MaxFlight, MaxTime,                               \* TorExitList
    Calls,                                                             \* Commands
    Configurable, EnvFiles, Entries                                    \* Configure

\* A list of Tor exits is kept for a while (_REFRESH_SECONDS), and a fetch
\* has a timeout.
ASSUME TorAssumption == Refresh \in Nat \ {0} /\ MaxFlight \in Nat

\* The commands that look IOCs up; check and report have --push-misp.
ASSUME CallsAssumption ==
    \A c \in Calls :
        /\ c.command \in {"check", "scan", "parse-eml", "analyze", "watch", "report", "correlate"}
        /\ c.push => c.command \in {"check", "report"}

\* A file is a list of lines; what is asked for is a key.
ASSUME EnvAssumption ==
    /\ \A file \in EnvFiles : file \in Seq([key : STRING, value : STRING])
    /\ Configurable \in Seq(STRING \ {"#"})

VARIABLES
    kind,    \* the part the input was handed to
    input,   \* what it reads
    work,    \* its local variables
    report   \* what it has reported
vars == <<kind, input, work, report>>

----------------------------------------------------------------------------
PcapRules == INSTANCE PcapDetect
Emit(w, duration) ==
    PcapRules!Emitted(w.packets, w.flows, w.dns.names, w.dns.text, duration)
    \cup PcapRules!EmittedL7(w.requests, w.agents, w.hellos, w.answers, w.creds, w.tickets, w.shares, w.smb1)
    \cup IF PcapRules!HighNxRatio(w.dns.responses, w.dns.missing) THEN {<<"high_nxdomain_ratio", {}>>} ELSE {}
EvtxRules == INSTANCE EvtxDetect

Frames == INSTANCE PcapFrames
Capture == INSTANCE PcapCapture
Log == INSTANCE EvtxLog WITH MaxRecords <- MaxEvents, Detect <- EvtxRules!Findings
Intel == INSTANCE Enrichment
Tor == INSTANCE TorExitList
Cli == INSTANCE Commands
Setup == INSTANCE Configure

\* A capture is a list of blocks.
ASSUME CapturesAssumption ==
    MaxFrames \in Nat /\ \A capture \in Captures : capture.blocks \in Seq(ToSet(capture.blocks))

\* So many failed logons make a rule fire (_detect of analyze/evtx.py).
ASSUME EvtxAssumption == SprayUsers \in Nat /\ BruteFails \in Nat

\* A log is a list of chunks; a header stands at a byte of its chunk and
\* states a size. A record is a list of tokens, an instance of a template
\* one of values.
ASSUME LogsAssumption ==
    /\ HeaderSize \in Nat \ {0} /\ ChunkSize \in Nat /\ MaxEvents \in Nat /\ MaxChunks \in Nat
    /\ \A log \in Logs : log.chunks \in Seq(ToSet(log.chunks)) /\ \A c \in DOMAIN log.chunks :
          LET headers == log.chunks[c].headers
          IN  \A w \in DOMAIN headers : LET tokens == headers[w].tokens IN
                  /\ w \in Nat /\ headers[w].size \in Int /\ tokens \in Seq(ToSet(tokens))
                  /\ \A tok \in ToSet(tokens) : tok.t = "template" => tok.values \in Seq(ToSet(tok.values))

\* A batch is a list of IOCs. What the sources answer about one: counts, and
\* confidences in percent.
ASSUME BatchesAssumption ==
    \A batch \in Batches : batch \in Seq(ToSet(batch)) /\ \A i \in DOMAIN batch : LET a == batch[i].answers IN
        /\ {"value", "type", "host", "net"} \subseteq DOMAIN batch[i]
        /\ DOMAIN a \subseteq Intel!Sources
        /\ "abuseipdb" \in DOMAIN a => a["abuseipdb"].confidence \in 0..100
        /\ "otx" \in DOMAIN a => a["otx"].pulses \in Nat /\ a["otx"].reputation \in Int
        /\ "threatfox" \in DOMAIN a =>
              a["threatfox"].data \in Seq([confidence : 0..100, malware : STRING, tags : SUBSET STRING])
        /\ "virustotal" \in DOMAIN a =>
              /\ a["virustotal"].malicious \in Nat /\ a["virustotal"].suspicious \in Nat
              /\ a["virustotal"].harmless \in Nat  /\ a["virustotal"].undetected \in Nat
        /\ "misp" \in DOMAIN a => IsFiniteSet(DOMAIN a["misp"].attributes)

Init ==
    \/ kind = "pcap_file" /\ Frames!Init
    \/ kind = "pcap" /\ Capture!Init
    \/ kind = "evtx" /\ Log!Init
    \/ kind = "enrichment" /\ Intel!Init
    \/ kind = "tor" /\ Tor!Init
    \/ kind = "command" /\ Cli!Init
    \/ kind = "configure" /\ Setup!Init
Next ==
    /\ UNCHANGED kind
    /\ \/ kind = "pcap_file" /\ Frames!Next
       \/ kind = "pcap" /\ Capture!Next
       \/ kind = "evtx" /\ Log!Next
       \/ kind = "enrichment" /\ Intel!Next
       \/ kind = "tor" /\ Tor!Next
       \/ kind = "command" /\ Cli!Next
       \/ kind = "configure" /\ Setup!Next
Spec == Init /\ [][Next]_vars

Ended(k) == kind = k /\ work.done

----------------------------------------------------------------------------
(* Every packet yielded belongs to the frame of its number, is read with    *)
(* the link type and the clock of the interface its own section declared,   *)
(* and its payload is what follows the transport header it names:           *)
(* iter_pcapng starts a new list of interfaces at each section header. No   *)
(* frame is passed over, and packets come in the order of the capture.      *)
Readable(i) ==
    \A j \in 1..i : /\ input.blocks[j].sound /\ input.blocks[j].order = input.blocks[1].order
                    /\ input.format = "pcap" => ~input.blocks[j].short
HoldsFrame(i) ==
    \/ input.format = "pcap"
    \/ input.format = "pcapng" /\ input.blocks[i].kind \in {"enhanced", "simple"} /\ ~input.blocks[i].short
FrameBlocks == {i \in DOMAIN input.blocks : Readable(i) /\ HoldsFrame(i)}
Number(i) == Cardinality({j \in FrameBlocks : j <= i})
Declared(i) ==
    {j \in 1..i - 1 : input.blocks[j].kind = "interface" /\ \A k \in j..i - 1 : input.blocks[k].kind # "section"}
Nth(i, n) == {j \in Declared(i) : Cardinality({k \in Declared(i) : k <= j}) = n}
Described(block) == IF block.short THEN Frames!NoInterface ELSE [link |-> block.link, tick |-> block.tick]
InterfaceOf(i) ==
    LET named == Nth(i, IF input.blocks[i].kind = "simple" THEN 1 ELSE input.blocks[i].interface)
    IN  IF input.format = "pcap" THEN [link |-> input.link, tick |-> input.tick]
        ELSE IF named = {} THEN Frames!NoInterface ELSE Described(input.blocks[CHOOSE j \in named : TRUE])
Dissected(i) ==
    Frames!Dissect([link |-> InterfaceOf(i).link, headers |-> input.blocks[i].headers,
                    lengths |-> input.blocks[i].lengths])
TimeOf(i) ==
    IF input.format = "pcapng" /\ input.blocks[i].kind = "simple" THEN 0
    ELSE input.blocks[i].ticks * InterfaceOf(i).tick
PacketOf(i) == [data |-> Dissected(i), frame_no |-> Number(i), ts |-> TimeOf(i)]
FramesOfSections ==
    Ended("pcap_file") =>
        /\ ToSet(report) = {PacketOf(i) : i \in {j \in FrameBlocks : Number(j) <= MaxFrames /\ Dissected(j) # Frames!None}}
        /\ \A m, n \in DOMAIN report : m < n => report[m].frame_no < report[n].frame_no

----------------------------------------------------------------------------
(* What a direction of a connection carries, whatever its segments: after   *)
(* so many of the packets, and after all of them.                           *)
Directions(packets) == {<<p.src, p.dst>> : p \in {q \in ToSet(packets) : q.proto = "tcp"}}
Carries(p, dir) == IF p.proto = "tcp" /\ <<p.src, p.dst>> = dir THEN p.payload ELSE <<>>
StreamAfter(packets, dir) ==
    LET after[n \in 0..Len(packets)] == IF n = 0 THEN <<>> ELSE after[n - 1] \o Carries(packets[n], dir)
    IN  after
Stream(packets, dir) == StreamAfter(packets, dir)[Len(packets)]

\* A connection is a list of packets, a payload one of parts. A direction
\* belongs to one connection. What follows a TLS hello is no HTTP request:
\* it is encrypted.
ASSUME TrafficAssumption ==
    /\ StitchCap \in Nat /\ MaxKept \in Nat
    /\ \A traffic \in Traffic : \A c \in DOMAIN traffic :
          /\ traffic[c] \in Seq(ToSet(traffic[c]))
          /\ \A p \in ToSet(traffic[c]) : p.payload \in Seq(ToSet(p.payload))
          /\ \A b \in DOMAIN traffic \ {c} : Directions(traffic[b]) \cap Directions(traffic[c]) = {}
          /\ \A dir \in Directions(traffic[c]) : LET s == Stream(traffic[c], dir) IN
                s # <<>> /\ s[1].t = "hello" => \A i \in DOMAIN s : s[i].t # "request"

(* When the sniffer saw every packet once, the first HTTP request of each   *)
(* direction is reported exactly once, with its own target and Host header, *)
(* however it was cut into segments and whatever ran in between: if its     *)
(* head ends within _STITCH_CAP, and as long as there is room in the list   *)
(* of requests. Of what does not begin with a request none is reported.     *)
Asked(s) == s # <<>> /\ s[1].t = "request" /\ \E i \in DOMAIN s : i <= StitchCap /\ s[i].t = "end"
AsSent(r, s) ==
    LET hosts == {i \in DOMAIN s : s[i].t = "host" /\ \A j \in 1..i : s[j].t # "end"}
    IN  /\ r.uri = s[1].v
        /\ \/ hosts = {} /\ r.host = "none"
           \/ \E i \in hosts : (\A j \in hosts : j <= i) /\ r.host = s[i].v
RequestsOf(dir) == {i \in DOMAIN work.requests : work.requests[i].dir = dir}
Answered(dir, s) ==
    IF Asked(s)
    THEN \/ \E i \in DOMAIN work.requests : RequestsOf(dir) = {i} /\ AsSent(work.requests[i], s)
         \/ RequestsOf(dir) = {} /\ Len(work.requests) >= MaxKept
    ELSE RequestsOf(dir) = {}
HeadsWhole ==
    Ended("pcap") /\ work.faults = 0 =>
        \A c \in DOMAIN input : \A dir \in Directions(input[c]) : Answered(dir, Stream(input[c], dir))

(* The findings of a capture do not depend on how its connections were      *)
(* interleaved: they are those of the connections taken one after another,  *)
(* but for the query rate, which measures time. An authentication is paired *)
(* with the challenge of its own connection.                                *)
OneByOne ==
    LET packets == FlattenSeq([i \in 1..Cardinality(DOMAIN input) |-> input[SetToSeq(DOMAIN input)[i]]])
    IN  FoldLeft(Capture!Processed, Capture!Start(input), packets)
Timeless(findings) == {f \in findings : f[1] # "dns_tunneling_query_rate"}
InterleavingIrrelevant ==
    Ended("pcap") /\ work.faults = 0 => Timeless(report) = Timeless(Emit(OneByOne, 0))

----------------------------------------------------------------------------
(* The records of an event log: a sound header is read, or lies inside a    *)
(* record that is, or stands out of step with the four bytes the walk takes *)
(* at a time from the end of the record read last before it; so a log whose *)
(* records are whole words long loses none to garbage. No two records read  *)
(* overlap, and what is read from one is what it says in its chunk,         *)
(* whatever templates other records left behind.                            *)
Sound(c, w) ==
    /\ w \in DOMAIN input.chunks[c].headers
    /\ LET size == input.chunks[c].headers[w].size IN size >= HeaderSize /\ w + size <= ChunkSize
EndOf(place) == place[2] + input.chunks[place[1]].headers[place[2]].size
Covers(place, w) == place[2] <= w /\ w < EndOf(place)
Read(c) == {p \in ToSet(work.places) : p[1] = c}
OutOfStep(c, w) ==
    \E start \in {0} \cup {EndOf(p) : p \in Read(c)} :
        start <= w /\ (w - start) % 4 # 0 /\ \A p \in Read(c) : p[2] < start \/ w < p[2]
RecordsFound ==
    Ended("evtx") =>
        /\ \A i \in DOMAIN work.places :
              LET chunk == input.chunks[work.places[i][1]]
              IN  work.events[i] = Log!DecodeRecord(chunk, <<>>, chunk.headers[work.places[i][2]]).event
        /\ input.magic /\ input.header /\ Len(work.events) < MaxEvents =>
              \A c \in DOMAIN input.chunks :
                  /\ input.chunks[c].magic /\ c <= MaxChunks =>
                         \A w \in DOMAIN input.chunks[c].headers :
                             Sound(c, w) => (\E p \in Read(c) : Covers(p, w)) \/ OutOfStep(c, w)
                  /\ \A p, q \in Read(c) : p # q => ~Covers(p, q[2])

(* A record says the same whether its fields are written in place, by a     *)
(* template of its chunk or by a template inside a template; a template     *)
(* never names the values of another chunk's records. A record that has end *)
(* tags of its own is read up to the first of them: what is read of it is   *)
(* true, but most of it is lost (_parse_event_binxml of analyze/evtx.py).   *)
Tagged(record) == \E tok \in ToSet(record.tokens) : tok.t = "end"
EncodingIrrelevant ==
    Ended("evtx") =>
        \A i \in DOMAIN work.places :
            LET record == input.chunks[work.places[i][1]].headers[work.places[i][2]]
                fields == work.events[i].fields
            IN  \A f \in DOMAIN record.says :
                    /\ f \in DOMAIN fields => fields[f] = record.says[f]
                    /\ ~Tagged(record) => f \in DOMAIN fields

(* Reading on never clears a log: the verdict on the events read so far     *)
(* (AnalyzerReport.verdict) does not fall when one more is read.            *)
Verdict(findings) ==
    IF \E f \in findings : f.severity >= 70 THEN 2
    ELSE IF \E f \in findings : f.severity = 50 THEN 1 ELSE 0
EvidenceAccumulates ==
    [][kind = "evtx" => Verdict(EvtxRules!Findings(work.events)) <= Verdict(EvtxRules!Findings(work'.events))]_vars

----------------------------------------------------------------------------
(* Bad news counts (scorer.py:60): whatever else was answered, an answer    *)
(* that calls the IOC malicious keeps it from passing as clean; without it  *)
(* the verdict would not be worse; and answers that say nothing bad only    *)
(* soften a verdict.                                                        *)
Rank(results) ==
    CASE Intel!Scored(results) = "malicious"  -> 3
      [] Intel!Scored(results) = "suspicious" -> 2
      [] OTHER -> 1
Without(results, s) == [x \in DOMAIN results \ {s} |-> results[x]]
BadNewsCounts ==
    kind = "enrichment" =>
        \A i \in DOMAIN input : LET results == work.results[i] IN
            \A s \in Intel!Valid(results) :
                IF results[s].verdict = "malicious"
                THEN Rank(results) >= 2 /\ Rank(Without(results, s)) <= Rank(results)
                ELSE results[s].verdict # "suspicious" => Rank(Without(results, s)) >= Rank(results)

(* The relations found do not depend on the order in which the IOCs were    *)
(* given (correlator.py:44), and sources that fail hide relations but make  *)
(* up none.                                                                 *)
Undirected(edges) == {[kind |-> e.kind, ends |-> {e.from, e.to}, by |-> e.by] : e \in edges}
AllAnswered ==
    [i \in DOMAIN input |->
        [s \in Intel!Asked(i) |->
            LET result == Intel!Interpret(s, input[i].answers[s])
            IN  IF s = "misp" /\ result.verdict \in Intel!Bad /\ input[i].answers[s].warned
                THEN [result EXCEPT !.tags = @ \cup {"warninglist"}] ELSE result]]
RelationsHold ==
    Ended("enrichment") =>
        /\ Undirected(report) = Undirected(Intel!Edges(Reverse(Intel!Tagged(input, work.results))))
        /\ Undirected(report) \subseteq Undirected(Intel!Edges(Intel!Tagged(input, AllAnswered)))

----------------------------------------------------------------------------
(* No address is judged by a list of Tor exits older than the refresh       *)
(* interval and the time a fetch takes (tor_exit.py:38), whichever of the   *)
(* fetches under way answers last.                                          *)
TorListRecent ==
    kind = "tor" /\ report # Tor!Nothing => report.at - report.taken < Refresh + MaxFlight

----------------------------------------------------------------------------
(* The exit code tells what happened (cli.py:244): 0 only when everything   *)
(* the call asked for was shown, written and pushed as far as there was     *)
(* anything; a push that failed has left the verdicts. Whatever the way     *)
(* out, the clients are closed, and so is the cache, unless the command     *)
(* raised while the cache was being set up or, in watch, before the try     *)
(* that closes it (cli.py:1285).                                            *)
Due ==
    LET looked == input.iocs /\ ~Cli!Offline
    IN  Cli!Whole
        \cup IF ~looked \/ input.command = "watch" THEN {}
             ELSE (IF input.command = "report" /\ input.out THEN {"file"} ELSE {"verdicts"})
                  \cup IF input.push /\ (input.command = "report" \/ input.bad) THEN {"event"} ELSE {}
ExitCodeHonest ==
    Ended("command") =>
        /\ \/ work.held = <<>>
           \/ work.held = <<"cache">> /\ work.exit = Cli!Raised /\ work.pc \in {"start", "banner"}
        /\ work.exit = 0 => input.usable /\ Due \subseteq report
        /\ work.exit = 2 => ~input.usable \/ (input.push /\ ~input.misp)
        /\ work.exit = 3 => Due \ report = {"event"}

(* configure keeps what it was not asked to change (cli.py:1640): unless    *)
(* the process dies while it writes, every key of the file has the value    *)
(* the user entered, or else the one it had.                                *)
KeysKept ==
    kind = "configure" /\ ~report.cut =>
        LET before == Setup!Values(input)
            after == Setup!Values(report.file)
            entered == IF work.pc \in {"ping", "finished"} THEN work.typed ELSE <<>>
        IN  /\ DOMAIN after = DOMAIN before \cup DOMAIN entered
            /\ \A k \in DOMAIN after : after[k] = IF k \in DOMAIN entered THEN entered[k] ELSE before[k]
=============================================================================
