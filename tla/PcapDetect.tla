----------------------------- MODULE PcapDetect -----------------------------
(* The detectors over a finished capture (analyze/pcap_heur.py, and the     *)
(* predicates of pcap_auth.py): functions of the packets, the flows and the *)
(* names looked up. Ratios are compared by cross-multiplication.            *)
EXTENDS Integers, Sequences, SequencesExt, FiniteSets

CONSTANTS
    BeaconPackets,   \* BEACON_MIN_PACKETS
    ScanPorts,       \* PORT_SCAN_DISTINCT_PORTS
    SweepHosts,      \* SWEEP_DISTINCT_HOSTS
    ExfilBytes,      \* EXFIL_MIN_A2B_BYTES
    TunnelBytes,     \* DNS_TUNNEL_TXT_BYTES
    TunnelQueries,   \* queries of a 2LD before its rate counts (50)
    TunnelRate,      \* DNS_TUNNEL_QPS
    DgaNames,        \* DGA_MIN_NAMES
    IcmpBytes,       \* ICMP_TUNNEL_MIN_PAYLOAD
    IcmpPackets,     \* ICMP_TUNNEL_MIN_PACKETS
    NxResponses,     \* responses before the NXDOMAIN ratio counts (50)
    KnownBad,        \* KNOWN_BAD_JA3 and KNOWN_BAD_JA3S
    Shown            \* findings shown of each list (6, 10 or 20)

Total(s) == FoldLeft(+, 0, s)
First(s, n) == SubSeq(s, 1, IF Len(s) < n THEN Len(s) ELSE n)
Intervals(ts) ==
    SelectSeq([i \in 1..Len(ts) - 1 |-> ts[i + 1] - ts[i]], LAMBDA d : d > 0)

(* Mean between 1 and 600 seconds, deviation at most 0.3 of the mean, and   *)
(* unless the mean reaches 5 seconds at least three different intervals.    *)
IsBeacon(flow) ==
    LET d == Intervals(flow.times)
        n == Len(d)
        sum == Total(d)
        squares == Total([i \in 1..n |-> d[i] * d[i]])
    IN  /\ Len(flow.times) >= BeaconPackets /\ n >= BeaconPackets - 1
        /\ n <= sum /\ sum <= 600 * n
        /\ 100 * (n * squares - sum * sum) <= 9 * sum * sum
        /\ Cardinality(ToSet(d)) >= 3 \/ sum >= 5 * n

IsExfil(flow) == flow.sent >= ExfilBytes /\ 20 * flow.received <= flow.sent

(* A packet that may probe a port: a SYN without ACK, or any datagram.      *)
IsProbe(p) ==
    /\ p.proto = "tcp" => p.syn /\ ~p.ack
    /\ p.proto \in {"tcp", "udp"} /\ p.dst[2] # 0
Probes(packets) == ToSet(SelectSeq(packets, IsProbe))
PortScans(packets) ==
    {<<p.src[1], p.dst[1]>> : p \in {q \in Probes(packets) :
        Cardinality({r.dst[2] : r \in {s \in Probes(packets) :
            s.src[1] = q.src[1] /\ s.dst[1] = q.dst[1] /\ s.proto = q.proto}}) >= ScanPorts}}
HostSweeps(packets) ==
    {<<p.src[1], p.dst[2]>> : p \in {q \in Probes(packets) :
        Cardinality({r.dst[1] : r \in {s \in Probes(packets) :
            s.src[1] = q.src[1] /\ s.dst[2] = q.dst[2] /\ s.proto = q.proto}}) >= SweepHosts}}

(* Names is a function from the names seen to [queries, missing, text,      *)
(* label, random]: label stands for the second-level label, random for what *)
(* looks_dga says of its letters.                                           *)
DgaSuspects(names) == {n \in DOMAIN names : names[n].random}
QueriesOf(names, label) ==
    FoldFunctionOnSet(LAMBDA slot, acc : slot.queries + acc, 0, names,
                      {n \in DOMAIN names : names[n].label = label})
TunnelLabels(names, duration) ==
    {l \in {names[n].label : n \in DOMAIN names} :
        /\ duration > 0 /\ QueriesOf(names, l) >= TunnelQueries
        /\ QueriesOf(names, l) >= TunnelRate * duration}

(* The first command of each verb between two hosts on FTP's port.          *)
FtpCommands(packets) ==
    LET OnPort21(p) == p.proto = "tcp" /\ 21 \in {p.src[2], p.dst[2]}
        Told(p) == [i \in DOMAIN p.payload |->
                       IF p.payload[i].t = "ftp"
                       THEN <<p.src[1], p.dst[1], p.payload[i].verb, p.payload[i].value>> ELSE <<>>]
        all == SelectSeq(FlattenSeq([i \in DOMAIN packets |->
                             IF OnPort21(packets[i]) THEN Told(packets[i]) ELSE <<>>]),
                         LAMBDA c : c # <<>>)
        Same(a, b) == SubSeq(a, 1, 3) = SubSeq(b, 1, 3)
    IN  {all[i] : i \in {k \in DOMAIN all : \A j \in 1..k - 1 : ~Same(all[j], all[k])}}

IcmpTunnels(packets) ==
    LET Large(p) == p.proto = "icmp" /\ p.size - 8 >= IcmpBytes
        large == SelectSeq(packets, Large)
    IN  {c \in {<<p.src[1], p.dst[1]>> : p \in ToSet(large)} :
            Len(SelectSeq(large, LAMBDA p : <<p.src[1], p.dst[1]>> = c)) >= IcmpPackets}

StandardTlsPorts == {443, 465, 563, 636, 853, 989, 990, 992, 993, 994, 995, 5061, 8443}
TlsAnomaly(hello) ==
    CASE hello.port \notin StandardTlsPorts -> "tls_non_standard_port"
      [] hello.port = 443 /\ ~hello.sni     -> "tls_no_sni"
      [] OTHER                              -> "none"

Kerberoastable(k) == k.type = "TGS-REP" /\ k.ticket = "rc4" /\ k.service # "krbtgt"
AsrepRoastable(k) == k.type = "AS-REQ" /\ ~k.preauth
Rc4Downgrade(k) == k.type \in {"AS-REQ", "TGS-REQ"} /\ "rc4" \in k.etypes /\ "aes" \notin k.etypes

(* Findings, as <<rule, what it is about>>: the first Shown of each list;   *)
(* the order of the tables the detectors fill is left open.                 *)
Tagged(rule, s) == {<<rule, x>> : x \in ToSet(First(s, Shown))}
Some(rule, S) == Tagged(rule, SetToSeq(S))
Emitted(packets, flows, names, text, duration) ==
    LET Where(f) == <<f.a[1], f.b[1], f.b[2]>>
        Flagged(Test(_)) == LET s == SelectSeq(flows, Test) IN [i \in DOMAIN s |-> Where(s[i])]
        dga == DgaSuspects(names)
    IN  UNION {
          Tagged("beaconing", Flagged(IsBeacon)),
          Tagged("unidirectional_exfil", Flagged(IsExfil)),
          ToSet(First(SetToSeq({"port_scan"} \X PortScans(packets))
                      \o SetToSeq({"host_sweep"} \X HostSweeps(packets)), Shown)),
          IF Cardinality(dga) >= DgaNames THEN {<<"dga_dns", dga>>}
          ELSE IF dga # {} THEN {<<"dga_dns_outlier", dga>>} ELSE {},
          IF text >= TunnelBytes THEN {<<"dns_tunneling_txt_volume", {}>>} ELSE {},
          Some("dns_tunneling_query_rate", TunnelLabels(names, duration)),
          Some("plaintext_ftp_creds", FtpCommands(packets)),
          Some("icmp_tunnel", IcmpTunnels(packets))}
EmittedL7(requests, agents, hellos, answers, creds, tickets, shares, smb1) ==
    LET Of(seq, Test(_)) == SelectSeq(seq, Test)
    IN  UNION {
          Tagged("plaintext_http_basic", Of(requests, LAMBDA r : r.basic)),
          Tagged("suspicious_user_agent", agents),
          Tagged("ja3_known_bad", Of(hellos, LAMBDA h : h.print \in KnownBad)),
          Tagged("ja3s_known_bad", Of(answers, LAMBDA h : h.print \in KnownBad)),
          {<<TlsAnomaly(h), h>> : h \in ToSet(First(Of(hellos, LAMBDA h : TlsAnomaly(h) # "none"), Shown))},
          Tagged("smb_admin_share", shares), Some("smb1_in_use", smb1),
          Tagged("netntlmv2_capture", creds),
          Tagged("kerberoasting", Of(tickets, Kerberoastable)),
          Tagged("asrep_roasting", Of(tickets, AsrepRoastable)),
          Tagged("kerberos_rc4_downgrade", Of(tickets, Rc4Downgrade))}
HighNxRatio(responses, missing) == responses >= NxResponses /\ 2 * missing >= responses
=============================================================================
