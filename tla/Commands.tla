------------------------------ MODULE Commands ------------------------------
(* The commands that look IOCs up (cli.py): what each opens, does and       *)
(* closes on its way to an exit code. Any step may raise, and Ctrl-C may    *)
(* end any wait; the `with` blocks and the `finally` unwind what was opened *)
(* inside them.                                                             *)
EXTENDS Integers, Sequences, FiniteSets

CONSTANT Calls   \* the calls a user may make

VARIABLES
    input,   \* a call: the command, its flags, and what it will find
    work,    \* [pc, held, exit, done]: held lists what is open, innermost last
    report   \* what the user has by now: "analysis", "verdicts", "file", "event"
vars == <<input, work, report>>

Init ==
    /\ input \in Calls
    /\ work = [pc |-> "start", held |-> <<>>, exit |-> 0, done |-> FALSE]
    /\ report = {}

Command(c) == input.command \in c
Ends(code) == work' = [work EXCEPT !.exit = code, !.done = TRUE]
Goes(pc) == work' = [work EXCEPT !.pc = pc]
Leaves(code) == work' = [work EXCEPT !.pc = "leaving", !.exit = code]
Raised == 1   \* the exit code of a traceback, and of Ctrl-C
Gains(things) == report' = report \cup things
Nothing == UNCHANGED report

(* _parse_ioc, resolve_threshold and the format table refuse the call       *)
(* before anything is opened; analyze may find the file unreadable.         *)
Refuse ==
    /\ work.pc = "start" /\ ~input.usable
    /\ \E code \in {2} \cup (IF Command({"check"}) THEN {1} ELSE {}) : Ends(code)
    /\ Nothing
(* The other readers let an unreadable file raise.                          *)
ReadRaises ==
    /\ work.pc = "start" /\ input.usable /\ Command({"scan", "parse-eml", "report", "correlate"})
    /\ Ends(Raised)
    /\ Nothing

(* parse-eml and analyze show what they found in the file by itself; that   *)
(* is all when it holds no IOC, or no sources were asked for. As markdown   *)
(* analyze never asks them.                                                 *)
Offline == ~input.enrich \/ (Command({"analyze"}) /\ input.form = "md")
Whole == IF Command({"parse-eml", "analyze"}) THEN {"analysis"} ELSE {}
Analysis == IF input.form = "json" THEN {} ELSE Whole
EndWithoutLookup ==
    /\ work.pc = "start" /\ input.usable /\ ~(input.iocs /\ ~Offline)
    /\ Ends(0)
    /\ Gains(Whole)
OpenCache ==
    /\ work.pc = "start" /\ input.usable /\ input.iocs /\ ~Offline
    /\ work' = [work EXCEPT !.pc = IF Command({"watch"}) THEN "banner" ELSE "clients",
                            !.held = IF input.cached THEN <<"cache">> ELSE <<>>]
    /\ Gains(Analysis)
(* TICache cannot open its file, or has connected to it and cannot set it   *)
(* up: then nobody closes the connection.                                   *)
OpenCacheRaises ==
    /\ work.pc = "start" /\ input.usable /\ input.iocs /\ ~Offline /\ input.cached
    /\ \E open \in {<<>>, <<"cache">>} : work' = [work EXCEPT !.held = open, !.exit = Raised, !.done = TRUE]
    /\ Gains(Analysis)
(* watch prints what it watches before its try.                             *)
Banner ==
    /\ work.pc = "banner"
    /\ Goes("clients")
    /\ Nothing
BannerRaises ==
    /\ work.pc = "banner"
    /\ Ends(Raised)
    /\ Nothing

(* _misp_client opens a client of its own when MISP is configured; its CA   *)
(* bundle may not load. Two sources need no key, so some are always active. *)
OpenClients ==
    /\ work.pc = "clients"
    /\ work' = [work EXCEPT !.pc = "lookup",
                            !.held = @ \o IF input.misp THEN <<"client", "misp">> ELSE <<"client">>]
    /\ Nothing
MispClientRaises ==
    /\ work.pc = "clients" /\ input.misp
    /\ work' = [work EXCEPT !.pc = "leaving", !.exit = Raised, !.held = Append(@, "client")]
    /\ Nothing

(* check and report use the verdicts with the clients open, the others      *)
(* after they are closed. watch shows alerts until its tail ends or its     *)
(* user stops it.                                                           *)
LookUp ==
    /\ work.pc = "lookup"
    /\ IF Command({"check", "report"}) THEN Goes("output") ELSE Leaves(0)
    /\ Nothing
Alert ==
    /\ work.pc = "lookup" /\ Command({"watch"})
    /\ Gains({"verdicts"})
    /\ UNCHANGED work
(* A source, the cache or a wait raises; Ctrl-C cancels the main task.      *)
LookUpRaises ==
    /\ work.pc \in {"lookup", "push"}
    /\ Leaves(Raised)
    /\ Nothing

Output ==
    /\ work.pc = "output"
    /\ Gains(IF Command({"report"}) /\ input.out THEN {"file"} ELSE {"verdicts"})
    /\ IF ~input.push THEN Leaves(0) ELSE Goes("push")
OutputRaises ==
    /\ work.pc = "output" /\ Command({"report"})
    /\ Leaves(Raised)
    /\ Nothing

(* --push-misp. check pushes what is bad, report everything.                *)
CannotPush ==
    /\ work.pc = "push" /\ ~input.misp
    /\ Leaves(2)
    /\ Nothing
NeedNotPush ==
    /\ work.pc = "push" /\ input.misp /\ Command({"check"}) /\ ~input.bad
    /\ Leaves(0)
    /\ Nothing
PushIsDue == work.pc = "push" /\ input.misp /\ (Command({"report"}) \/ input.bad)
Push ==
    /\ PushIsDue
    /\ Leaves(0)
    /\ Gains({"event"})
PushFailsUnnoticed ==   \* mutant: the error is printed and not returned
    /\ PushIsDue
    /\ Leaves(0)
    /\ Nothing
PushFails ==
    /\ PushIsDue
    /\ Leaves(3)
    /\ Nothing

(* Each block that is left closes what it opened.                           *)
Close ==
    /\ work.pc = "leaving" /\ work.held # <<>>
    /\ work' = [work EXCEPT !.held = SubSeq(@, 1, Len(@) - 1)]
    /\ Nothing
Exit ==
    /\ work.pc = "leaving" /\ work.held = <<>> /\ ~work.done
    /\ Ends(work.exit)
    /\ Gains(IF work.exit = 0 /\ Command({"scan", "parse-eml", "analyze", "correlate"})
             THEN {"verdicts"} \cup Whole ELSE {})

Next ==
    /\ ~work.done /\ UNCHANGED input
    /\ \/ Refuse \/ ReadRaises \/ EndWithoutLookup
       \/ OpenCache \/ OpenCacheRaises \/ Banner \/ BannerRaises \/ OpenClients \/ MispClientRaises
       \/ LookUp \/ Alert \/ LookUpRaises \/ Output \/ OutputRaises
       \/ CannotPush \/ NeedNotPush \/ Push \/ PushFails \/ Close \/ Exit
Spec == Init /\ [][Next]_vars
=============================================================================
