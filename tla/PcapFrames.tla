----------------------------- MODULE PcapFrames -----------------------------
(* Reading a capture file (analyze/pcap_parse.py): the walk over the        *)
(* records of a libpcap file or the blocks of a pcapng file, and the        *)
(* dissection of each captured frame down to its transport payload.         *)
(* A frame is the sequence of headers the sniffer kept, outermost first; a  *)
(* snapped frame is a prefix of what was on the wire.                       *)
EXTENDS Integers, Sequences

CONSTANTS
    Captures,   \* the capture files that may be analysed
    MaxFrames,  \* MAX_FRAMES
    MaxTags,    \* VLAN tags _strip_ethernet looks through
    MaxExts     \* IPv6 extension headers _dissect_ipv6 looks through

VARIABLES
    input,   \* the capture file: [format, blocks]
    work,    \* the walk: [at, order, interfaces, frames, done, truncated]
    report   \* the packets yielded, in capture order
vars == <<input, work, report>>

None == [proto |-> "none"]
Rest(s, n) == SubSeq(s, n + 1, Len(s))
At(s, i) == IF i \in DOMAIN s THEN s[i] ELSE "nothing"

(* How many of the first limit headers of s belong to kinds.                *)
Run(s, kinds, limit) ==
    CHOOSE n \in 0..limit :
        /\ n <= Len(s) /\ \A i \in 1..n : s[i] \in kinds
        /\ n = limit \/ At(s, n + 1) \notin kinds

(* The headers from IP on and whether they are read as IPv6; <<>> when the  *)
(* link layer is not understood.                                            *)
Ip == {"ip4", "ip6"}
AfterLink(headers) == IF At(headers, 1) \in Ip THEN headers ELSE <<>>
StripEthernet(headers) ==
    LET tags == Run(Tail(headers), {"vlan"}, MaxTags)
    IN  AfterLink(Rest(headers, 1 + tags))
StripLink(link, headers) ==
    IF headers = <<>> THEN <<>> ELSE
    CASE link \in {"raw", "ipv4", "ipv6"} -> headers
      [] link = "ethernet" /\ headers[1] = "eth" -> StripEthernet(headers)
      [] link \in {"sll", "sll2"} /\ headers[1] = link -> AfterLink(Tail(headers))
      [] link = "null" /\ headers[1] = "af_little" -> AfterLink(Tail(headers))
      [] link = "loop" /\ headers[1] = "af_big" -> AfterLink(Tail(headers))
      [] OTHER -> <<>>
ReadAsIpv6(link, ip) == link = "ipv6" \/ ip[1] # "ip4"

(* The transport header and what the lengths of IP and UDP leave of the     *)
(* rest: a length of zero lets the padding of the link layer through.       *)
Payload(rest, lengths) == IF lengths = "zero" THEN rest ELSE SelectSeq(rest, LAMBDA x : x # "pad")
DissectL4(rest, lengths) ==
    LET body == Payload(rest, lengths)
    IN  CASE At(body, 1) \in {"tcp", "udp"}   -> [proto |-> body[1], payload |-> Tail(body)]
          [] At(body, 1) \in {"icmp", "icmp6"} -> [proto |-> body[1], payload |-> body]
          [] OTHER -> None

DissectIpv4(ip, lengths) == DissectL4(Tail(ip), lengths)
Extensions == {"hop", "route", "dest", "ah", "frag"}
DissectIpv6(ip, lengths) ==
    IF ip[1] # "ip6" THEN None
    ELSE LET exts == Run(Tail(ip), Extensions, MaxExts)
         IN  DissectL4(Rest(ip, 1 + exts), lengths)

Dissect(frame) ==
    LET ip == StripLink(frame.link, frame.headers)
    IN  IF frame.headers = <<>> \/ ip = <<>> THEN None
        ELSE IF ReadAsIpv6(frame.link, ip) THEN DissectIpv6(ip, frame.lengths)
        ELSE DissectIpv4(ip, frame.lengths)

----------------------------------------------------------------------------
(* A block: its kind, the byte order it is written in, whether its length   *)
(* is sound, whether its body is too short or its capture length beyond the *)
(* cap, the interface it names and what it carries.                         *)
Block == input.blocks[work.at]
NoInterface == [link |-> "null", tick |-> 1]   \* of 1e-6 s

Init ==
    /\ input \in Captures
    /\ work = [at |-> 1, order |-> IF input.blocks = <<>> THEN "none" ELSE input.blocks[1].order,
               interfaces |-> <<>>, frames |-> 0, done |-> FALSE, truncated |-> FALSE]
    /\ report = <<>>

(* The walk goes on while a block is left whose length can be read in the   *)
(* current byte order and lies inside the file; the first bad record of a   *)
(* classic capture ends it too.                                             *)
Reading ==
    /\ input.format \in {"pcap", "pcapng"}
    /\ work.at <= Len(input.blocks) /\ work.frames < MaxFrames
    /\ Block.sound /\ Block.order = work.order
    /\ input.format = "pcap" => ~Block.short

Yield(block, interface, ts) ==
    LET number == work.frames + 1
        packet == Dissect([link |-> interface.link, headers |-> block.headers, lengths |-> block.lengths])
    IN  /\ work' = [work EXCEPT !.at = @ + 1, !.frames = number]
        /\ report' = IF packet = None THEN report
                     ELSE Append(report, [data |-> packet, frame_no |-> number, ts |-> ts])
Skip == work' = [work EXCEPT !.at = @ + 1] /\ UNCHANGED report

ReadRecord ==
    /\ Reading /\ input.format = "pcap"
    /\ Yield(Block, [link |-> input.link, tick |-> input.tick], Block.ticks * input.tick)
    /\ UNCHANGED input

(* Mutant: the interfaces of the section before stay.                       *)
ReadSectionKeeping ==
    /\ Reading /\ input.format = "pcapng" /\ Block.kind = "section"
    /\ work' = [work EXCEPT !.at = @ + 1]
    /\ UNCHANGED <<input, report>>
ReadSection ==
    /\ Reading /\ input.format = "pcapng" /\ Block.kind = "section"
    /\ work' = [work EXCEPT !.at = @ + 1, !.interfaces = <<>>]
    /\ UNCHANGED <<input, report>>

ReadInterface ==
    /\ Reading /\ input.format = "pcapng" /\ Block.kind = "interface"
    /\ work' = [work EXCEPT !.at = @ + 1, !.interfaces =
                    Append(@, IF Block.short THEN NoInterface
                              ELSE [link |-> Block.link, tick |-> Block.tick])]
    /\ UNCHANGED <<input, report>>

ReadEnhanced ==
    /\ Reading /\ input.format = "pcapng" /\ Block.kind = "enhanced"
    /\ LET known == Block.interface \in DOMAIN work.interfaces
           interface == IF known THEN work.interfaces[Block.interface] ELSE NoInterface
       IN  IF Block.short THEN Skip ELSE Yield(Block, interface, Block.ticks * interface.tick)
    /\ UNCHANGED input

ReadSimple ==
    /\ Reading /\ input.format = "pcapng" /\ Block.kind = "simple"
    /\ LET interface == IF work.interfaces = <<>> THEN NoInterface ELSE work.interfaces[1]
       IN  IF Block.short THEN Skip ELSE Yield(Block, interface, 0)
    /\ UNCHANGED input

SkipBlock ==
    /\ Reading /\ input.format = "pcapng" /\ Block.kind = "other"
    /\ Skip /\ UNCHANGED input

(* analyze_pcap reports a cut capture when as many packets were dissected   *)
(* as frames may be read.                                                   *)
Finish ==
    /\ ~work.done /\ ~Reading
    /\ work' = [work EXCEPT !.done = TRUE, !.truncated = Len(report) >= MaxFrames]
    /\ UNCHANGED <<input, report>>

Next ==
    \/ ReadRecord \/ ReadSection \/ ReadInterface \/ ReadEnhanced \/ ReadSimple \/ SkipBlock
    \/ Finish
Spec == Init /\ [][Next]_vars
=============================================================================
