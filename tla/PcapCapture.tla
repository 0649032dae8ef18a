---------------------------- MODULE PcapCapture ----------------------------
(* The loop of analyze_pcap (analyze/pcap.py) over the packets of a capture *)
(* and the dissectors it calls (pcap_proto.py, pcap_auth.py, FlowTable of   *)
(* pcap_parse.py). The input is what the hosts sent: a sequence of packets  *)
(* per connection. The sniffer sees the connections in any interleaving,    *)
(* and may miss a packet or see its retransmission.                         *)
(* A payload is a sequence of parts, records with a type t.                 *)
EXTENDS Integers, Sequences, SequencesExt

CONSTANTS
    Traffic,       \* the sets of connections that may be captured
    MaxFaults,     \* bound on packets missed or seen twice
    MaxFlows,      \* MAX_FLOWS
    MaxTimes,      \* send times kept per flow (4096)
    StitchCap,     \* _STITCH_CAP, in parts
    MaxNames,      \* MAX_DNS_NAMES
    MaxRecords,    \* SMB and Kerberos records kept (20000)
    MaxKept        \* requests, answers, hellos and credentials kept (5000)

CONSTANT Emit(_, _)  \* the findings of a finished loop (PcapDetect)

VARIABLES
    input,   \* the connections: a function to the packets sent on each, in order
    work,    \* the variables of the loop, what is still unsent and the faults so far
    report   \* the findings, once the loop has ended
vars == <<input, work, report>>

Start(traffic) ==
    [unsent |-> traffic, faults |-> 0, done |-> FALSE, packets |-> <<>>, flows |-> <<>>,
     buffers |-> <<>>, http_dirs |-> {}, tls_dirs |-> {}, requests |-> <<>>, responses |-> <<>>,
     agents |-> <<>>, hellos |-> <<>>, answers |-> <<>>,
     dns |-> [names |-> <<>>, queries |-> 0, responses |-> 0, missing |-> 0, text |-> 0],
     smb |-> <<>>, shares |-> <<>>, smb1 |-> {}, challenges |-> <<>>, creds |-> <<>>, tickets |-> <<>>]
Init ==
    /\ input \in Traffic
    /\ work = Start(input)
    /\ report = {}

Parts(p, type) == SelectSeq(p.payload, LAMBDA x : x.t = type)
Kept(seq, x) == IF Len(seq) < MaxKept THEN Append(seq, x) ELSE seq
Put(f, k, v) == [x \in DOMAIN f \cup {k} |-> IF x = k THEN v ELSE f[x]]
Without(f, k) == [x \in DOMAIN f \ {k} |-> f[x]]

(* FlowTable.update: the source of the first packet is the flow's a side,   *)
(* and a full table takes no new flow.                                      *)
Between(flow, p) == {flow.a, flow.b} = {p.src, p.dst} /\ flow.proto = p.proto
Opened(flows, p) ==
    IF (\E i \in DOMAIN flows : Between(flows[i], p)) \/ Len(flows) >= MaxFlows THEN flows
    ELSE Append(flows, [a |-> p.src, b |-> p.dst, proto |-> p.proto, first |-> p.time, last |-> p.time,
                        sent |-> 0, received |-> 0, out |-> 0, back |-> 0, times |-> <<>>])
Counted(flow, p) ==
    LET seen == [flow EXCEPT !.last = IF p.time > @ THEN p.time ELSE @]
    IN  IF p.src = flow.a
        THEN [seen EXCEPT !.out = @ + 1, !.sent = @ + p.size,
                          !.times = IF Len(@) < MaxTimes THEN Append(@, p.time) ELSE @]
        ELSE [seen EXCEPT !.back = @ + 1, !.received = @ + p.size]
FlowUpdate(w, p) ==
    [w EXCEPT !.packets = Append(@, p),
              !.flows = [i \in DOMAIN Opened(w.flows, p) |->
                            LET flow == Opened(w.flows, p)[i]
                            IN  IF Between(flow, p) THEN Counted(flow, p) ELSE flow]]

(* dissect_dns: a full table of names is not updated any more, not even for *)
(* the names it holds.                                                      *)
Name(names, m) ==
    LET slot == IF m.name \in DOMAIN names THEN names[m.name]
                ELSE [queries |-> 0, missing |-> 0, text |-> 0, label |-> m.label, random |-> m.random]
    IN  [slot EXCEPT !.queries = @ + IF m.response THEN 0 ELSE 1,
                     !.missing = @ + IF m.response /\ m.missing THEN 1 ELSE 0,
                     !.text = @ + m.text]
DissectDns(w, p) ==
    IF 53 \notin {p.src[2], p.dst[2]} \/ Parts(p, "dns") = <<>> THEN w
    ELSE LET m == Parts(p, "dns")[1]
             reply(x) == IF m.response THEN x ELSE 0
             d == w.dns
         IN  [w EXCEPT !.dns =
                [queries |-> d.queries + 1 - reply(1), responses |-> d.responses + reply(1),
                 missing |-> d.missing + IF m.response /\ m.missing THEN 1 ELSE 0,
                 text |-> d.text + reply(m.text),
                 names |-> IF Cardinality(DOMAIN d.names) >= MaxNames THEN d.names
                           ELSE Put(d.names, m.name, Name(d.names, m))]]

(* _Stitcher.feed: payloads of a direction are concatenated in the order    *)
(* they are seen, up to the cap.                                            *)
Direction(p) == <<p.src, p.dst>>
Stitched(w, p) ==
    LET held == IF Direction(p) \in DOMAIN w.buffers THEN w.buffers[Direction(p)] ELSE <<>>
        room == StitchCap - Len(held)
    IN  held \o SubSeq(p.payload, 1, IF room < Len(p.payload) THEN room ELSE Len(p.payload))

(* dissect_http_request, dissect_http_response: a head begins the buffer    *)
(* and ends at the first blank line; of a repeated header the last counts.  *)
HasHeadEarly(buf, start) == buf # <<>> /\ buf[1].t = start   \* mutant: the blank line is not awaited
HasHead(buf, start) == buf # <<>> /\ buf[1].t = start /\ \E i \in DOMAIN buf : buf[i].t = "end"
HeadOf(buf) == SubSeq(buf, 1, SelectInSeq(buf, LAMBDA x : x.t = "end"))
(* A response whose status is not a number is not taken for one.            *)
HasStatus(buf) == HasHead(buf, "status") /\ buf[1].v # "odd"
LastOf(head, type, default) ==
    LET i == SelectLastInSeq(head, LAMBDA x : x.t = type) IN IF i = 0 THEN default ELSE head[i].v
Request(buf, p) ==
    LET head == HeadOf(buf)
    IN  [dir |-> Direction(p), uri |-> buf[1].v, host |-> LastOf(head, "host", "none"),
         agent |-> LastOf(head, "agent", "none"), basic |-> \E i \in DOMAIN head : head[i].t = "basic"]
Forget(w, p) == Without(w.buffers, Direction(p))
DissectHttp(w, p) ==
    LET buf == w.buffers[Direction(p)]
        parsed == [w EXCEPT !.http_dirs = @ \cup {Direction(p)}, !.buffers = Forget(w, p)]
    IN  IF Direction(p) \in w.http_dirs THEN w ELSE
        CASE HasHead(buf, "request") ->
                [parsed EXCEPT !.requests = Kept(@, Request(buf, p)),
                               !.agents = IF Request(buf, p).agent = "bad" THEN Append(@, Request(buf, p)) ELSE @]
          [] HasStatus(buf) -> [parsed EXCEPT !.responses = Kept(@, Direction(p))]
          [] OTHER -> w

(* dissect_tls_clienthello, dissect_tls_serverhello: a hello needs all that *)
(* precedes its extensions; of those it takes what has been seen so far.    *)
HasHello(buf, side) == Len(buf) >= 2 /\ buf[1].t = "hello" /\ buf[1].side = side /\ buf[2].t = "ciphers"
Extensions(buf) ==
    LET last == 2 + buf[1].exts IN SubSeq(buf, 3, IF last < Len(buf) THEN last ELSE Len(buf))
Hello(buf, p) ==
    LET exts == Extensions(buf)
        clean == SelectSeq(exts, LAMBDA x : x.v # "grease")
    IN  [dir |-> Direction(p), port |-> p.dst[2], print |-> <<buf[2].v, [i \in DOMAIN clean |-> clean[i].v]>>,
         sni |-> \E i \in DOMAIN exts : exts[i].v = "sni"]
DissectTls(w, p, buf) ==
    LET parsed == [w EXCEPT !.tls_dirs = @ \cup {Direction(p)}, !.buffers = Forget(w, p)]
    IN  IF Direction(p) \in w.tls_dirs \cup w.http_dirs THEN w ELSE
        CASE HasHello(buf, "client") -> [parsed EXCEPT !.hellos = Kept(@, Hello(buf, p))]
          [] HasHello(buf, "server") -> [parsed EXCEPT !.answers = Kept(@, Hello(buf, p))]
          [] OTHER -> w

(* dissect_smb looks at one segment only.                                   *)
SmbPorts == {445, 139}
DissectSmb(w, p) ==
    LET smb == Parts(p, "smb")
        admin == smb # <<>> /\ smb[1].dialect = "SMB2" /\ ~smb[1].response /\ smb[1].share = "admin"
        where == <<p.src[1], p.dst[1]>>
    IN  IF smb = <<>> THEN w
        ELSE [w EXCEPT !.smb = Append(@, smb[1].dialect),
                       !.smb1 = IF smb[1].dialect = "SMB1" THEN @ \cup {where} ELSE @,
                       !.shares = IF admin /\ ~Contains(@, where) THEN Append(@, where) ELSE @]

(* _harvest_ntlm: a challenge is kept for the two endpoints, whichever way  *)
(* it went; an authentication is paired with the one kept last.             *)
FlowKeyOfHosts(p) == {p.src[1], p.dst[1]}   \* mutant: ports left out
FlowKey(p) == {p.src, p.dst}
HarvestOne(held, p, m) ==
    LET known == FlowKey(p) \in DOMAIN held.challenges
    IN  CASE m.type = 2 -> [held EXCEPT !.challenges = Put(@, FlowKey(p), m.v)]
          [] m.type = 3 /\ known /\ m.long /\ m.user # "" ->
                [held EXCEPT !.creds = Kept(@, [user |-> m.user, challenge |-> held.challenges[FlowKey(p)],
                                                response |-> m.v, dir |-> Direction(p)])]
          [] OTHER -> held
HarvestNtlm(w, p) ==
    LET held == FoldLeft(LAMBDA acc, m : HarvestOne(acc, p, m),
                         [challenges |-> w.challenges, creds |-> w.creds], Parts(p, "ntlm"))
    IN  [w EXCEPT !.challenges = held.challenges, !.creds = held.creds]

(* The part of the loop's body for TCP segments that carry data.            *)
DissectStream(w, p) ==
    IF p.proto # "tcp" \/ p.payload = <<>> THEN w
    ELSE LET buf == Stitched(w, p)
             fed == [w EXCEPT !.buffers = Put(@, Direction(p), buf)]
             web == DissectTls(DissectHttp(fed, p), p, buf)
             smb == {p.src[2], p.dst[2]} \cap SmbPorts # {} /\ Len(w.smb) < MaxRecords
         IN  IF smb THEN HarvestNtlm(DissectSmb(web, p), p) ELSE web

DissectKerberos(w, p) ==
    IF /\ p.proto \in {"tcp", "udp"} /\ 88 \in {p.src[2], p.dst[2]}
       /\ Parts(p, "krb") # <<>> /\ Len(w.tickets) < MaxRecords
    THEN [w EXCEPT !.tickets = Append(@, Parts(p, "krb")[1])] ELSE w

Processed(w, p) == DissectKerberos(DissectStream(DissectDns(FlowUpdate(w, p), p), p), p)

----------------------------------------------------------------------------
Sending(c) == ~work.done /\ work.unsent[c] # <<>>
Sent(w, c) == [w EXCEPT !.unsent[c] = Tail(@)]

(* One round of the loop, for a packet the sniffer saw.                     *)
SeePacket(c) ==
    /\ Sending(c)
    /\ work' = Sent(Processed(work, Head(work.unsent[c])), c)
    /\ UNCHANGED <<input, report>>

(* The sniffer misses a packet, or sees it and later its retransmission.    *)
MissPacket(c) ==
    /\ Sending(c) /\ work.faults < MaxFaults
    /\ work' = [Sent(work, c) EXCEPT !.faults = @ + 1]
    /\ UNCHANGED <<input, report>>
SeePacketAgain(c) ==
    /\ Sending(c) /\ work.faults < MaxFaults
    /\ work' = [Processed(work, Head(work.unsent[c])) EXCEPT !.faults = @ + 1]
    /\ UNCHANGED <<input, report>>

Duration(packets) ==
    IF packets = <<>> \/ Last(packets).time < packets[1].time THEN 0 ELSE Last(packets).time - packets[1].time
EndOfCapture ==
    /\ ~work.done /\ \A c \in DOMAIN input : work.unsent[c] = <<>>
    /\ work' = [work EXCEPT !.done = TRUE]
    /\ report' = Emit(work, Duration(work.packets))
    /\ UNCHANGED input

Next ==
    \/ \E c \in DOMAIN input : SeePacket(c) \/ MissPacket(c) \/ SeePacketAgain(c)
    \/ EndOfCapture
Spec == Init /\ [][Next]_vars
=============================================================================
