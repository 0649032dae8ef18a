--------------------------- MODULE SourceAnswers ---------------------------
(* What each threat-intel source makes of the answer it gets (the           *)
(* _interpret methods under sources/). A result is [verdict, score, tags],  *)
(* with the score in hundredths; an answer is a record of the few numbers   *)
(* and flags the source looks at.                                           *)
EXTENDS Integers, Sequences, FiniteSetsExt

Lesser(a, b) == IF a < b THEN a ELSE b
Greater(a, b) == IF a > b THEN a ELSE b
Result(verdict, score, tags) == [verdict |-> verdict, score |-> score, tags |-> tags, error |-> FALSE]
Unknown == Result("unknown", 0, {})
Failed == [Unknown EXCEPT !.error = TRUE]

Sources == {"abuseipdb", "otx", "threatfox", "urlhaus", "netmeta", "tor_exit", "virustotal", "misp"}

(* Class attributes: weights in hundredths, and the types a source takes.   *)
Weight(source) ==
    CASE source = "abuseipdb" -> 80  [] source = "otx"     -> 75 [] source = "threatfox" -> 85
      [] source = "urlhaus"   -> 85  [] source = "netmeta" -> 20 [] source = "tor_exit"  -> 40
      [] source = "virustotal" -> 90 [] source = "misp"    -> 100
Addresses == {"ipv4", "ipv6"}
Hashes == {"md5", "sha1", "sha256"}
Supports(source) ==
    CASE source \in {"abuseipdb", "netmeta", "tor_exit"} -> Addresses
      [] source = "otx"        -> Addresses \cup Hashes \cup {"domain", "url", "cve"}
      [] source = "urlhaus"    -> {"ipv4", "domain", "url", "md5", "sha256"}
      [] source = "virustotal" -> Addresses \cup Hashes \cup {"domain", "url"}
      [] source \in {"threatfox", "misp"} -> Addresses \cup Hashes \cup {"domain", "url", "email"}

AbuseIPDB(a) ==
    CASE a.whitelisted      -> Result("benign", 0, a.tags)
      [] ~a.whitelisted /\ a.confidence >= 75 -> Result("malicious", a.confidence, a.tags)
      [] ~a.whitelisted /\ a.confidence \in 1..74 -> Result("suspicious", a.confidence, a.tags)
      [] OTHER              -> Result("unknown", 0, a.tags)

OTX(a) ==
    LET bad == Lesser(100, 10 * a.pulses + Greater(0, -10 * a.reputation))
    IN  CASE a.pulses >= 5 \/ a.reputation < -2 -> Result("malicious", bad, a.tags)
          [] a.pulses \in 1..4 /\ a.reputation >= -2 -> Result("suspicious", Lesser(60, 10 * a.pulses), a.tags)
          [] OTHER -> Result("unknown", 0, a.tags)

(* Answers about hosts and payloads carry no url_status.                    *)
URLhaus(a) ==
    CASE a.query_status # "ok" -> Unknown
      [] a.query_status = "ok" /\ a.url_status = "online"  -> Result("malicious", 95, a.tags)
      [] a.query_status = "ok" /\ a.url_status = "offline" -> Result("suspicious", 70, a.tags)
      [] OTHER -> Result("malicious", 85, a.tags)

(* The surest of the entries decides, and all of them give tags.            *)
ThreatFox(a) ==
    LET best == Max({e.confidence : e \in Range(a.data)})
    IN  IF a.query_status # "ok" \/ a.data = <<>> THEN Unknown
        ELSE Result(IF best >= 50 THEN "malicious" ELSE "suspicious", best,
                    UNION {e.tags \cup {e.malware} : e \in Range(a.data)} \ {""})

VirusTotal(a) ==
    LET total == a.malicious + a.suspicious + a.harmless + a.undetected
    IN  CASE ~a.found -> Unknown
          [] a.found /\ total = 0 -> Result("unknown", 0, a.tags)
          [] a.found /\ a.malicious >= 5 -> Result("malicious", (100 * a.malicious) \div total, a.tags)
          [] a.found /\ a.malicious < 5 /\ a.malicious + a.suspicious > 0 ->
                Result("suspicious", (100 * (a.malicious + a.suspicious)) \div total, a.tags)
          [] OTHER -> Result("benign", 0, a.tags)

(* NetMeta sees the class of an address and asks nobody. The unspecified    *)
(* address is of "this-network" in IPv4 and counts as private in IPv6.      *)
Bogons == {"this-network", "ietf-protocol", "test-net-1", "test-net-2", "test-net-3", "benchmarking",
           "reserved-future", "broadcast"}
Inner ==
    [cgnat |-> {"cgnat", "rfc6598"}, loopback |-> {"loopback"}, linklocal |-> {"link-local"},
     rfc1918 |-> {"private", "rfc1918"}, ula |-> {"private", "ula"}, multicast |-> {"multicast"},
     sitelocal |-> {"site-local"}]
NetMeta(a) ==
    CASE a.class \in Bogons       -> Result("suspicious", 80, {"bogon", a.class, "non-routable"})
      [] a.class = "reserved"     -> Result("suspicious", 80, {"reserved"})
      [] a.class \in DOMAIN Inner -> Result("benign", 30, Inner[a.class])
      [] OTHER                    -> Result("unknown", 0, {"public"})

TorExit(a) == IF a.listed THEN Result("suspicious", 50, {"tor", "anonymizer"}) ELSE Unknown

(* MISP's search; its warninglist is asked afterwards.                      *)
MISP(a) ==
    LET marked == Cardinality({i \in DOMAIN a.attributes : a.attributes[i].to_ids})
        tags == UNION {x.tags : x \in Range(a.attributes)}
    IN  CASE a.attributes = <<>> -> Unknown
          [] marked > 0          -> Result("malicious", Lesser(100, 20 * marked), tags)
          [] OTHER               -> Result("suspicious", 30, tags)

Interpret(source, answer) ==
    CASE source = "abuseipdb"  -> AbuseIPDB(answer)
      [] source = "otx"        -> OTX(answer)
      [] source = "urlhaus"    -> URLhaus(answer)
      [] source = "threatfox"  -> ThreatFox(answer)
      [] source = "virustotal" -> VirusTotal(answer)
      [] source = "netmeta"    -> NetMeta(answer)
      [] source = "tor_exit"   -> TorExit(answer)
      [] source = "misp"       -> MISP(answer)
=============================================================================
