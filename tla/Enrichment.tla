----------------------------- MODULE Enrichment -----------------------------
(* A batch of IOCs from the sources' answers to the correlations: every     *)
(* source that takes an IOC is asked, any of them may fail, the scorer      *)
(* weighs what came back (scorer.py) and the correlator relates the IOCs of *)
(* the batch (correlator.py). In what order and on how many slots the       *)
(* sources are asked is Engine's subject.                                   *)
EXTENDS SourceAnswers

CONSTANT Batches   \* the batches that may be enriched

VARIABLES
    input,   \* a sequence of IOCs: [value, type, host, net, answers]
    work,    \* the results so far, by IOC and source, and the verdicts
    report   \* the correlations
vars == <<input, work, report>>

Put(f, k, v) == [x \in DOMAIN f \cup {k} |-> IF x = k THEN v ELSE f[x]]

(* score_results. Shares of the total weight of the sources that answered:  *)
(* a share of t hundredths is reached when Weighted >= t * TotalWeight.     *)
Valid(results) == {s \in DOMAIN results : ~results[s].error}
TotalWeight(results) ==
    FoldFunctionOnSet(+, 0, [s \in DOMAIN results |-> Weight(s)], Valid(results))
Bad == {"malicious", "suspicious"}
PresenceAsScored(r) == IF r.verdict \in Bad THEN r.score ELSE 100   \* mutant: no least score
Presence(r) == IF r.verdict \in Bad THEN Greater(r.score, 50) ELSE 100
Weighted(results, verdict) ==
    FoldFunctionOnSet(+, 0, [s \in DOMAIN results |-> Weight(s) * Presence(results[s])],
                      {s \in Valid(results) : results[s].verdict = verdict})
Reaches(results, verdict, share) == Weighted(results, verdict) >= share * TotalWeight(results)
Scored(results) ==
    IF Valid(results) = {} THEN "unknown"
    ELSE IF Reaches(results, "malicious", 25) THEN "malicious"
    ELSE IF Reaches(results, "suspicious", 25) \/ Weighted(results, "malicious") > 0 THEN "suspicious"
    ELSE IF Reaches(results, "benign", 30) THEN "benign" ELSE "unknown"
Tags(results) == UNION {results[s].tags : s \in Valid(results)}

(* correlate: edges of a batch, each IOC with the tags of its verdict. A    *)
(* pair of the same network or tag is an edge from the earlier one. What an *)
(* edge is found by is its evidence.                                        *)
Noise == {"country:XX", "usage:XX", "isp:XX"}   \* tags of these prefixes
Edge(kind, from, to, by) == [kind |-> kind, from |-> from, to |-> to, by |-> by]
KnownBefore(batch, i) == {batch[j].value : j \in 1..i - 1}   \* mutant: the table is filled on the way
Known(batch, i) == {batch[j].value : j \in DOMAIN batch}
Pairs(batch) == {p \in (DOMAIN batch) \X (DOMAIN batch) : p[1] < p[2]}
Edges(batch) ==
    LET Hosted(type) == {i \in DOMAIN batch : batch[i].type = type /\ batch[i].host \in Known(batch, i)}
        Common(p) == (batch[p[1]].tags \cap batch[p[2]].tags) \ Noise
        SameNet(p) == /\ \A i \in {p[1], p[2]} : batch[i].type = "ipv4"
                      /\ batch[p[1]].net = batch[p[2]].net
    IN  {Edge("url_to_host", batch[i].value, batch[i].host, batch[i].host) : i \in Hosted("url")}
        \cup {Edge("email_to_domain", batch[i].value, batch[i].host, batch[i].host) : i \in Hosted("email")}
        \cup {Edge("shared_subnet", batch[p[1]].value, batch[p[2]].value, batch[p[1]].net) :
                p \in {q \in Pairs(batch) : SameNet(q)}}
        \cup UNION {{Edge("shared_tag", batch[p[1]].value, batch[p[2]].value, t) : t \in Common(p)} :
                p \in {q \in Pairs(batch) : batch[q[1]].value # batch[q[2]].value}}
Tagged(batch, results) == [i \in DOMAIN batch |-> Put(batch[i], "tags", Tags(results[i]))]

----------------------------------------------------------------------------
Init ==
    /\ input \in Batches
    /\ work = [results |-> [i \in DOMAIN input |-> <<>>], checking |-> {}, verdicts |-> <<>>, done |-> FALSE]
    /\ report = {}

Asked(i) == {s \in DOMAIN input[i].answers : input[i].type \in Supports(s)}
Open(i, s) == s \in Asked(i) /\ s \notin DOMAIN work.results[i]
Store(i, s, result) == [work EXCEPT !.results[i] = Put(@, s, result)]

(* An answer that speaks against the IOC sends MISP to its warninglists.    *)
Answers(i, s) ==
    /\ Open(i, s) /\ <<i, s>> \notin work.checking
    /\ LET result == Interpret(s, input[i].answers[s])
       IN  work' = IF s = "misp" /\ result.verdict \in Bad
                   THEN [work EXCEPT !.checking = @ \cup {<<i, s>>}] ELSE Store(i, s, result)
    /\ UNCHANGED <<input, report>>

(* An HTTP error or an answer that is no JSON. NetMeta asks nobody.         *)
Fails(i, s) ==
    /\ Open(i, s) /\ <<i, s>> \notin work.checking /\ s # "netmeta"
    /\ work' = Store(i, s, Failed)
    /\ UNCHANGED <<input, report>>

(* _check_warninglist: a hit withdraws the verdict; a miss and any failure  *)
(* let it stand.                                                            *)
Checked(i, result) ==
    /\ work' = [Store(i, "misp", result) EXCEPT !.checking = @ \ {<<i, "misp">>}]
    /\ UNCHANGED <<input, report>>
OnWarningList(i) ==
    /\ <<i, "misp">> \in work.checking /\ input[i].answers["misp"].warned
    /\ Checked(i, Result("unknown", 0, MISP(input[i].answers["misp"]).tags \cup {"warninglist"}))
NotOnWarningList(i) ==
    /\ <<i, "misp">> \in work.checking
    /\ Checked(i, MISP(input[i].answers["misp"]))

ScoreAndCorrelate ==
    /\ ~work.done /\ \A i \in DOMAIN input : Asked(i) \subseteq DOMAIN work.results[i]
    /\ work' = [work EXCEPT !.done = TRUE, !.verdicts = [i \in DOMAIN input |-> Scored(work.results[i])]]
    /\ report' = Edges(Tagged(input, work.results))
    /\ UNCHANGED input

Next ==
    \/ \E i \in DOMAIN input :
          \/ \E s \in Asked(i) : Answers(i, s) \/ Fails(i, s)
          \/ OnWarningList(i) \/ NotOnWarningList(i)
    \/ ScoreAndCorrelate
Spec == Init /\ [][Next]_vars
=============================================================================
