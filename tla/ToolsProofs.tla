---------------------------- MODULE ToolsProofs ----------------------------
(* Proofs about the parts that work on one input: the list of Tor exits,    *)
(* for any number of lookups, any refresh interval and any timeout of a     *)
(* fetch; the exit codes of the commands, for any calls; the interactive    *)
(* setup, for any files, keys and entries; the scorer and the correlator,   *)
(* for any batch and any answers; the records of an event log and the       *)
(* rules over them, for any chunks, events and thresholds; the frames of a  *)
(* capture, for any blocks; the HTTP heads of its connections, for any      *)
(* packets, interleaving and limits.                                        *)
EXTENDS Tools, SetLemmas, FiniteSetTheorems, TLAPS

Idle == Tor!Idle

(* A fetch under way is no older than its timeout, a list was taken no      *)
(* longer than that before it was loaded, and so what was answered from it  *)
(* is recent. The list is judged by when it was loaded, which says nothing  *)
(* about its age without the second conjunct.                               *)
TorTypes ==
    /\ DOMAIN work = {"now", "taken", "empty", "loaded", "since", "done"}
    /\ work.now \in Nat /\ work.taken \in Int /\ work.empty \in BOOLEAN /\ work.loaded \in Nat
    /\ work.since \in [Askers -> Int]
FetchesYoung ==
    \A a \in Askers : work.since[a] # Idle =>
        work.since[a] \in Nat /\ work.since[a] <= work.now /\ work.now - work.since[a] <= MaxFlight
ListYoung == ~work.empty => work.loaded - work.taken <= MaxFlight /\ work.loaded <= work.now
AnswerRecent == report # Tor!Nothing => report.at - report.taken < Refresh + MaxFlight
TorInv == kind = "tor" => TorTypes /\ FetchesYoung /\ ListYoung /\ AnswerRecent

LEMMA TorInitInv == Init => TorInv
<1> SUFFICES ASSUME Init, kind = "tor" PROVE TorTypes /\ FetchesYoung /\ ListYoung /\ AnswerRecent
    BY DEF TorInv
<1>1. Tor!Init
    BY DEF Init
<1> QED
    BY <1>1, TorAssumption, SMT
    DEF Tor!Init, Tor!Idle, Tor!Nothing, Idle, TorTypes, FetchesYoung, ListYoung, AnswerRecent

(* One step of one lookup, or of the clock.                                 *)
LEMMA TorStepInv ==
    ASSUME TorTypes, FetchesYoung, ListYoung, AnswerRecent, Tor!Next
    PROVE  TorTypes' /\ FetchesYoung' /\ ListYoung' /\ AnswerRecent'
<1> USE TorAssumption DEF Tor!Idle, Tor!Nothing, Idle
<1>1. CASE Tor!Tick
  <2>1. work' = [work EXCEPT !.now = @ + 1] /\ report' = report
      BY <1>1 DEF Tor!Tick
  <2>2. work'.now = work.now + 1 /\ work'.since = work.since /\ work'.loaded = work.loaded
        /\ work'.taken = work.taken /\ work'.empty = work.empty
      BY <2>1 DEF TorTypes
  <2>3. TorTypes'
      BY <2>1, <2>2 DEF TorTypes
  <2>4. FetchesYoung'
    <3> SUFFICES ASSUME NEW a \in Askers, work.since[a] # -1
                 PROVE  /\ work.since[a] \in Nat /\ work.since[a] <= work.now + 1
                        /\ work.now + 1 - work.since[a] <= MaxFlight
        BY <2>2 DEF FetchesYoung, TorTypes
    <3>1. work.since[a] \in Nat /\ work.since[a] <= work.now
        BY DEF FetchesYoung, TorTypes
    <3>2. work.now - work.since[a] < MaxFlight
        BY <1>1 DEF Tor!Tick
    <3> QED
        BY <3>1, <3>2 DEF TorTypes
  <2>5. ListYoung' /\ AnswerRecent'
      BY <2>1, <2>2 DEF ListYoung, AnswerRecent, TorTypes
  <2> QED
      BY <2>3, <2>4, <2>5
<1>2. ASSUME NEW a \in Askers, Tor!AnswerFromList(a)
      PROVE  TorTypes' /\ FetchesYoung' /\ ListYoung' /\ AnswerRecent'
  <2>1. work' = work /\ report' = [at |-> work.now, taken |-> work.taken]
      BY <1>2 DEF Tor!AnswerFromList
  <2>2. ~work.empty /\ work.now - work.loaded < Refresh
      BY <1>2 DEF Tor!AnswerFromList, Tor!Fresh
  <2>3. work.loaded - work.taken <= MaxFlight
      BY <2>2 DEF ListYoung
  <2>4. work.now - work.taken < Refresh + MaxFlight
      BY <2>2, <2>3 DEF TorTypes
  <2> QED
      BY <2>1, <2>4 DEF TorTypes, FetchesYoung, ListYoung, AnswerRecent
<1>3. ASSUME NEW a \in Askers, Tor!StartFetch(a)
      PROVE  TorTypes' /\ FetchesYoung' /\ ListYoung' /\ AnswerRecent'
  <2>1. work' = [work EXCEPT !.since[a] = work.now] /\ report' = report
      BY <1>3 DEF Tor!StartFetch
  <2>2. work'.now = work.now /\ work'.loaded = work.loaded /\ work'.taken = work.taken
        /\ work'.empty = work.empty /\ work'.since = [work.since EXCEPT ![a] = work.now]
      BY <2>1 DEF TorTypes
  <2>3. TorTypes'
      BY <2>1, <2>2 DEF TorTypes
  <2>4. FetchesYoung'
      BY <2>2 DEF FetchesYoung, TorTypes
  <2>5. ListYoung' /\ AnswerRecent'
      BY <2>1, <2>2 DEF ListYoung, AnswerRecent, TorTypes
  <2> QED
      BY <2>3, <2>4, <2>5
<1>4. ASSUME NEW a \in Askers, Tor!FetchArrives(a)
      PROVE  TorTypes' /\ FetchesYoung' /\ ListYoung' /\ AnswerRecent'
  <2>1. PICK t \in work.since[a]..work.now :
            /\ work' = [work EXCEPT !.taken = t, !.empty = t \in input, !.loaded = work.now, !.since[a] = -1]
            /\ report' = [at |-> work.now, taken |-> t]
      BY <1>4, Zenon DEF Tor!FetchArrives
  <2>2. work.since[a] \in Nat /\ work.now - work.since[a] <= MaxFlight
      BY <1>4 DEF Tor!FetchArrives, FetchesYoung
  <2>3. t \in Nat /\ work.now - t <= MaxFlight
      BY <2>1, <2>2 DEF TorTypes
  <2>4. work'.now = work.now /\ work'.loaded = work.now /\ work'.taken = t
        /\ work'.empty = (t \in input) /\ work'.since = [work.since EXCEPT ![a] = -1]
      BY <2>1 DEF TorTypes
  <2>5. TorTypes'
      BY <2>1, <2>3, <2>4 DEF TorTypes
  <2>6. FetchesYoung'
      BY <2>4 DEF FetchesYoung, TorTypes
  <2>7. ListYoung' /\ AnswerRecent'
      BY <2>1, <2>3, <2>4 DEF ListYoung, AnswerRecent, TorTypes
  <2> QED
      BY <2>5, <2>6, <2>7
<1>5. ASSUME NEW a \in Askers, Tor!FetchFails(a)
      PROVE  TorTypes' /\ FetchesYoung' /\ ListYoung' /\ AnswerRecent'
  <2>1. work' = [work EXCEPT !.since[a] = -1] /\ report' = report
      BY <1>5 DEF Tor!FetchFails
  <2>2. work'.now = work.now /\ work'.loaded = work.loaded /\ work'.taken = work.taken
        /\ work'.empty = work.empty /\ work'.since = [work.since EXCEPT ![a] = -1]
      BY <2>1 DEF TorTypes
  <2>3. TorTypes'
      BY <2>1, <2>2 DEF TorTypes
  <2>4. FetchesYoung'
      BY <2>2 DEF FetchesYoung, TorTypes
  <2>5. ListYoung' /\ AnswerRecent'
      BY <2>1, <2>2 DEF ListYoung, AnswerRecent, TorTypes
  <2> QED
      BY <2>3, <2>4, <2>5
<1> QED
    BY <1>1, <1>2, <1>3, <1>4, <1>5 DEF Tor!Next

(* In every behaviour no address is judged by a list older than the refresh *)
(* interval and the time a fetch takes, whatever answers last               *)
(* (sources/tor_exit.py:38).                                                *)
THEOREM TorRecent == Spec => []TorListRecent
<1>1. Init => TorInv
    BY TorInitInv
<1>2. TorInv /\ [Next]_vars => TorInv'
  <2> SUFFICES ASSUME TorInv, [Next]_vars, kind' = "tor"
               PROVE  TorTypes' /\ FetchesYoung' /\ ListYoung' /\ AnswerRecent'
      BY DEF TorInv
  <2>1. CASE UNCHANGED vars
      BY <2>1 DEF vars, TorInv, TorTypes, FetchesYoung, ListYoung, AnswerRecent
  <2>2. CASE Next
    <3>1. kind = "tor" /\ Tor!Next
        BY <2>2 DEF Next
    <3> QED
        BY <3>1, TorStepInv DEF TorInv
  <2> QED
      BY <2>1, <2>2
<1>3. TorInv => TorListRecent
    BY DEF TorInv, TorListRecent, AnswerRecent
<1> QED
    BY <1>1, <1>2, <1>3, PTL DEF Spec

-----------------------------------------------------------------------------
(* The commands. What a call has done by the place it is at: nothing is     *)
(* open before the cache, what is to be shown is there before the push, and *)
(* the way out is entered with the code that what was done deserves.        *)
AtTheEnd == {"scan", "parse-eml", "analyze", "correlate"}
Looks == input.iocs /\ ~Cli!Offline
Show == IF input.command = "report" /\ input.out THEN {"file"} ELSE {"verdicts"}
CommandShape ==
    /\ input \in Calls
    /\ DOMAIN work = {"pc", "held", "exit", "done"}
    /\ work.pc \in {"start", "banner", "clients", "lookup", "output", "push", "leaving"}
    /\ work.done \in BOOLEAN
Progress ==
    /\ work.pc = "start" => report = {} /\ work.held = <<>>
    /\ work.pc = "banner" => work.held \in {<<>>, <<"cache">>}
    /\ work.pc # "start" => input.usable /\ Looks
    /\ work.pc \in {"output", "push"} => input.command \in {"check", "report"}
    /\ work.pc \in {"banner", "clients", "lookup", "output", "push"} => "event" \notin report
    /\ work.pc = "push" => input.push /\ Show \subseteq report
    /\ work.pc = "leaving" =>
          /\ work.exit = 0 => Due \subseteq report \/ input.command \in AtTheEnd
          /\ work.exit = 2 => input.push /\ ~input.misp
          /\ work.exit = 3 => Due \ report = {"event"}
Ending ==
    /\ \/ work.held = <<>>
       \/ work.held = <<"cache">> /\ work.exit = Cli!Raised /\ work.pc \in {"start", "banner"}
    /\ work.exit = 0 => input.usable /\ Due \subseteq report
    /\ work.exit = 2 => ~input.usable \/ (input.push /\ ~input.misp)
    /\ work.exit = 3 => Due \ report = {"event"}
CommandInv ==
    kind = "command" =>
        /\ CommandShape
        /\ ~work.done => Progress
        /\ work.done => Ending

LEMMA DueOf ==
    ASSUME input \in Calls
    PROVE  /\ ~Looks => Due = Cli!Whole
           /\ input.command \in AtTheEnd => Due \subseteq {"verdicts"} \cup Cli!Whole
           /\ input.command = "watch" => Due = {}
           /\ Looks /\ input.command \in {"check", "report"} /\ ~input.push => Due = Show
           /\ Looks /\ input.command = "check" /\ ~input.bad => Due = Show
           /\ Looks /\ input.command \in {"check", "report"} /\ input.push /\ (input.command = "report" \/ input.bad) =>
                 Due = Show \cup {"event"}
           /\ input.command \in AtTheEnd \cup {"check", "report", "watch"}
  <1>1. /\ input.command \in AtTheEnd \cup {"check", "report", "watch"}
        /\ input.push => input.command \in {"check", "report"}
    BY CallsAssumption DEF AtTheEnd
  <1>2. ~Looks => Due = Cli!Whole
    BY DEF Due, Looks
  <1>3. input.command \in {"check", "report", "watch"} => Cli!Whole = {}
    BY DEF Cli!Whole, Cli!Command
  <1>4. input.command \in AtTheEnd => Due \subseteq {"verdicts"} \cup Cli!Whole
    BY <1>1 DEF Due, AtTheEnd
  <1>5. input.command = "watch" => Due = {}
    BY <1>1, <1>3 DEF Due
  <1>6. Looks /\ input.command \in {"check", "report"} =>
           Due = Show \cup IF input.push /\ (input.command = "report" \/ input.bad) THEN {"event"} ELSE {}
    BY <1>3 DEF Due, Looks, Show
  <1> QED
    BY <1>1, <1>2, <1>4, <1>5, <1>6

LEMMA CommandInitInv == Init => CommandInv
  <1> SUFFICES ASSUME Init, kind = "command" PROVE CommandInv
    BY DEF CommandInv
  <1>1. Cli!Init
    BY DEF Init
  <1> QED
    BY <1>1 DEF Cli!Init, CommandInv, CommandShape, Progress

LEMMA CommandStepInv ==
    ASSUME CommandShape, ~work.done, Progress, Cli!Next
    PROVE  CommandShape' /\ (~work'.done => Progress') /\ (work'.done => Ending')
  <1> DEFINE Kept == CommandShape' /\ (~work'.done => Progress') /\ (work'.done => Ending')
  <1>1. input' = input /\ Due' = Due /\ Show' = Show /\ Looks' = Looks /\ Cli!Whole' = Cli!Whole
    BY DEF Cli!Next, Due, Show, Looks, Cli!Whole, Cli!Offline, Cli!Command
  <1>2. input \in Calls
    BY DEF CommandShape
  <1>3. CASE Cli!Refuse
    <2>1. PICK code \in {1, 2} : work' = [work EXCEPT !.exit = code, !.done = TRUE]
      BY <1>3, Zenon DEF Cli!Refuse, Cli!Ends
    <2>2. ~input.usable /\ work.held = <<>> /\ report' = report
      BY <1>3 DEF Cli!Refuse, Cli!Nothing, Progress
    <2> QED
      BY <1>1, <2>1, <2>2 DEF CommandShape, Ending
  <1>4. CASE Cli!ReadRaises \/ Cli!OpenCacheRaises \/ Cli!BannerRaises
    <2>1. PICK open \in {<<>>, <<"cache">>} : work' = [work EXCEPT !.held = open, !.exit = 1, !.done = TRUE]
      <3>1. CASE Cli!ReadRaises \/ Cli!BannerRaises
        <4>1. work' = [work EXCEPT !.exit = 1, !.done = TRUE] /\ work.held \in {<<>>, <<"cache">>}
          BY <3>1 DEF Cli!ReadRaises, Cli!BannerRaises, Cli!Ends, Cli!Raised, Progress
        <4>2. work' = [work EXCEPT !.held = work.held, !.exit = 1, !.done = TRUE]
          BY <4>1 DEF CommandShape
        <4> QED
          BY <4>1, <4>2
      <3>2. CASE Cli!OpenCacheRaises
        BY <3>2 DEF Cli!OpenCacheRaises, Cli!Raised
      <3> QED
        BY <1>4, <3>1, <3>2
    <2>2. work.pc \in {"start", "banner"}
      BY <1>4 DEF Cli!ReadRaises, Cli!OpenCacheRaises, Cli!BannerRaises
    <2> QED
      BY <1>1, <2>1, <2>2 DEF CommandShape, Ending, Cli!Raised
  <1>5. CASE Cli!EndWithoutLookup
    <2>1. /\ work' = [work EXCEPT !.exit = 0, !.done = TRUE] /\ work.held = <<>>
          /\ input.usable /\ ~Looks /\ Cli!Whole \subseteq report'
      BY <1>5 DEF Cli!EndWithoutLookup, Cli!Ends, Cli!Gains, Progress, Looks
    <2>2. Due \subseteq report'
      BY <1>2, <2>1, DueOf
    <2> QED
      BY <1>1, <2>1, <2>2 DEF CommandShape, Ending
  <1>6. CASE Cli!OpenCache
    <2>1. work' = [work EXCEPT !.pc = IF input.command = "watch" THEN "banner" ELSE "clients",
                               !.held = IF input.cached THEN <<"cache">> ELSE <<>>]
      BY <1>6 DEF Cli!OpenCache, Cli!Command
    <2>2. input.usable /\ Looks /\ "event" \notin report'
      BY <1>6 DEF Cli!OpenCache, Cli!Gains, Cli!Analysis, Cli!Whole, Progress, Looks
    <2> QED
      BY <1>1, <2>1, <2>2 DEF CommandShape, Progress
  <1>7. CASE Cli!OpenClients
    <2>1. /\ work' = [work EXCEPT !.pc = "lookup",
                                  !.held = work.held \o IF input.misp THEN <<"client", "misp">> ELSE <<"client">>]
          /\ work.pc = "clients" /\ report' = report
      BY <1>7 DEF Cli!OpenClients, Cli!Nothing
    <2> QED
      BY <1>1, <2>1 DEF CommandShape, Progress
  <1>8. CASE Cli!MispClientRaises \/ Cli!LookUpRaises \/ Cli!OutputRaises
    <2>1. /\ DOMAIN work' = DOMAIN work /\ work'.pc = "leaving" /\ work'.exit = 1 /\ work'.done = work.done
          /\ work.pc # "start"
      BY <1>8, Zenon DEF CommandShape, Cli!MispClientRaises, Cli!LookUpRaises, Cli!OutputRaises, Cli!Leaves, Cli!Raised
    <2> QED
      BY <1>1, <2>1 DEF CommandShape, Progress
  <1>9. CASE Cli!LookUp
    <2>1. CASE input.command \in {"check", "report"}
      <3>1. work' = [work EXCEPT !.pc = "output"] /\ work.pc = "lookup" /\ report' = report
        BY <1>9, <2>1 DEF Cli!LookUp, Cli!Command, Cli!Goes, Cli!Nothing
      <3> QED
        BY <1>1, <2>1, <3>1 DEF CommandShape, Progress
    <2>2. CASE input.command \notin {"check", "report"}
      <3>1. work' = [work EXCEPT !.pc = "leaving", !.exit = 0] /\ work.pc = "lookup" /\ report' = report
        BY <1>9, <2>2 DEF Cli!LookUp, Cli!Command, Cli!Leaves, Cli!Nothing
      <3>2. Due \subseteq report \/ input.command \in AtTheEnd
        BY <1>2, <2>2, DueOf
      <3> QED
        BY <1>1, <3>1, <3>2 DEF CommandShape, Progress
    <2> QED
      BY <2>1, <2>2
  <1>10. CASE Cli!Alert
    <2>1. work' = work /\ work.pc = "lookup" /\ report' = report \cup {"verdicts"}
      BY <1>10 DEF Cli!Alert, Cli!Gains
    <2> QED
      BY <1>1, <2>1 DEF CommandShape, Progress
  <1>11. CASE Cli!Output
    <2>1. work.pc = "output" /\ report' = report \cup Show
      BY <1>11 DEF Cli!Output, Cli!Gains, Cli!Command, Show
    <2>2. "event" \notin report'
      BY <2>1 DEF Progress, Show
    <2>3. CASE ~input.push
      <3>1. work' = [work EXCEPT !.pc = "leaving", !.exit = 0]
        BY <1>11, <2>3 DEF Cli!Output, Cli!Leaves
      <3>2. Due = Show
        BY <1>2, <2>1, <2>3, DueOf DEF Progress
      <3> QED
        BY <1>1, <2>1, <3>1, <3>2 DEF CommandShape, Progress
    <2>4. CASE input.push
      <3>1. work' = [work EXCEPT !.pc = "push"]
        BY <1>11, <2>4 DEF Cli!Output, Cli!Goes
      <3> QED
        BY <1>1, <2>1, <2>2, <2>4, <3>1 DEF CommandShape, Progress
    <2> QED
      BY <2>3, <2>4
  <1>12. CASE Cli!CannotPush
    <2>1. /\ work' = [work EXCEPT !.pc = "leaving", !.exit = 2] /\ work.pc = "push"
          /\ ~input.misp /\ report' = report
      BY <1>12 DEF Cli!CannotPush, Cli!Leaves, Cli!Nothing
    <2> QED
      BY <1>1, <2>1 DEF CommandShape, Progress
  <1>13. CASE Cli!NeedNotPush
    <2>1. /\ work' = [work EXCEPT !.pc = "leaving", !.exit = 0] /\ work.pc = "push"
          /\ input.command = "check" /\ ~input.bad /\ report' = report
      BY <1>13 DEF Cli!NeedNotPush, Cli!Leaves, Cli!Nothing, Cli!Command
    <2>2. Due \subseteq report
      BY <1>2, <2>1, DueOf DEF Progress
    <2> QED
      BY <1>1, <2>1, <2>2 DEF CommandShape, Progress
  <1>14. CASE Cli!Push
    <2>1. /\ work' = [work EXCEPT !.pc = "leaving", !.exit = 0] /\ work.pc = "push"
          /\ report' = report \cup {"event"} /\ (input.command = "report" \/ input.bad)
      BY <1>14 DEF Cli!Push, Cli!PushIsDue, Cli!Leaves, Cli!Gains, Cli!Command
    <2>2. Due \subseteq report'
      BY <1>2, <2>1, DueOf DEF Progress
    <2> QED
      BY <1>1, <2>1, <2>2 DEF CommandShape, Progress
  <1>15. CASE Cli!PushFails
    <2>1. /\ work' = [work EXCEPT !.pc = "leaving", !.exit = 3] /\ work.pc = "push"
          /\ report' = report /\ (input.command = "report" \/ input.bad)
      BY <1>15 DEF Cli!PushFails, Cli!PushIsDue, Cli!Leaves, Cli!Nothing, Cli!Command
    <2>2. Due \ report = {"event"}
      BY <1>2, <2>1, DueOf DEF Progress
    <2> QED
      BY <1>1, <2>1, <2>2 DEF CommandShape, Progress
  <1>16. CASE Cli!Close
    <2>1. work' = [work EXCEPT !.held = SubSeq(work.held, 1, Len(work.held) - 1)] /\ work.pc = "leaving" /\ report' = report
      BY <1>16 DEF Cli!Close, Cli!Nothing
    <2> QED
      BY <1>1, <2>1 DEF CommandShape, Progress
  <1>17. CASE Cli!Exit
    <2>1. /\ work' = [work EXCEPT !.exit = work.exit, !.done = TRUE] /\ work.pc = "leaving" /\ work.held = <<>>
          /\ report' = report \cup IF work.exit = 0 /\ input.command \in AtTheEnd
                                   THEN {"verdicts"} \cup Cli!Whole ELSE {}
      BY <1>17 DEF Cli!Exit, Cli!Ends, Cli!Gains, Cli!Command, AtTheEnd
    <2>2. work.exit = 0 => Due \subseteq report'
      BY <1>2, <2>1, DueOf DEF Progress
    <2>3. work.exit = 3 => Due \ report' = {"event"}
      BY <2>1 DEF Progress
    <2> QED
      BY <1>1, <2>1, <2>2, <2>3 DEF CommandShape, Progress, Ending
  <1>18. CASE Cli!Banner
    <2>1. work' = [work EXCEPT !.pc = "clients"] /\ work.pc = "banner" /\ report' = report
      BY <1>18 DEF Cli!Banner, Cli!Goes, Cli!Nothing
    <2> QED
      BY <1>1, <2>1 DEF CommandShape, Progress
  <1> QED
    BY <1>3, <1>4, <1>5, <1>6, <1>7, <1>8, <1>9, <1>10, <1>11, <1>12, <1>13, <1>14, <1>15, <1>16, <1>17, <1>18 DEF Cli!Next

(* The exit code tells what happened (cli.py:244): 0 only when all the call *)
(* was due was shown, written and pushed, 3 when all but the push was, 2    *)
(* for a call that could not be done. The clients are closed however the    *)
(* command ended; only what raised while the cache was being set up, or     *)
(* before the try of watch, leaves the cache open (cli.py:1285).            *)
THEOREM ExitCodesHonest == Spec => []ExitCodeHonest
  <1>1. CommandInv /\ [Next]_vars => CommandInv'
    <2> SUFFICES ASSUME CommandInv, [Next]_vars, kind' = "command"
                 PROVE  CommandShape' /\ (~work'.done => Progress') /\ (work'.done => Ending')
      BY DEF CommandInv
    <2>1. CASE UNCHANGED vars
      <3>1. UNCHANGED <<input, work, report, Due, Show, Looks>>
        BY <2>1 DEF vars, Due, Show, Looks, Cli!Whole, Cli!Offline, Cli!Command
      <3> QED
        BY <2>1, <3>1 DEF vars, CommandInv, CommandShape, Progress, Ending
    <2>2. CASE Next
      <3>1. kind = "command" /\ Cli!Next
        BY <2>2 DEF Next
      <3>2. ~work.done
        BY <3>1 DEF Cli!Next
      <3> QED
        BY <3>1, <3>2, CommandStepInv DEF CommandInv
    <2> QED
      BY <2>1, <2>2
  <1>2. CommandInv => ExitCodeHonest
    BY DEF CommandInv, Ending, ExitCodeHonest, Ended
  <1> QED
    BY <1>1, <1>2, CommandInitInv, PTL DEF Spec

-----------------------------------------------------------------------------
(* The interactive setup. A key has the value of its last line; what is     *)
(* written as lines has, when it is read again, the same keys and values.   *)

LEMMA GreatestChosen ==
    ASSUME NEW T, NEW n \in Nat, T \subseteq 1..n, T # {}
    PROVE  Setup!Max(T) \in T
  <1>1. T \subseteq Nat /\ \A y \in T : y <= n
    OBVIOUS
  <1>2. PICK x \in T : \A y \in T : y <= x
    BY <1>1, GreatestBounded, Zenon
  <1>3. \A y \in T : x >= y
    BY <1>1, <1>2
  <1> QED
    BY <1>3, Zenon DEF Setup!Max

LEMMA LastLine ==
    ASSUME NEW lines, NEW n \in Nat, DOMAIN lines = 1..n, Len(lines) = n, NEW k \in Setup!Keys(lines)
    PROVE  \E m \in 1..n : lines[m].key = k /\ Setup!Values(lines)[k] = lines[m].value
  <1> DEFINE I == {i \in 1..Len(lines) : lines[i].key = k}
  <1>1. I \subseteq 1..n /\ I # {}
    BY DEF Setup!Keys, Setup!ToSet
  <1>2. Setup!Max(I) \in I
    BY <1>1, GreatestChosen
  <1>3. Setup!SelectLastInSeq(lines, LAMBDA l : l.key = k) = Setup!Max(I)
    BY <1>1 DEF Setup!SelectLastInSeq
  <1>4. Setup!Values(lines)[k] = lines[Setup!Max(I)].value
    BY <1>3 DEF Setup!Values
  <1> QED
    BY <1>1, <1>2, <1>4, Zenon

(* SetToSeq lists every member of a finite set.                             *)
LEMMA Listed ==
    ASSUME NEW S, IsFiniteSet(S)
    PROVE  \E n \in Nat : /\ Setup!SetToSeq(S) \in [1..n -> S]
                          /\ \A x \in S : \E i \in 1..n : Setup!SetToSeq(S)[i] = x
  <1> DEFINE n == Cardinality(S)
             q == Setup!SetToSeq(S)
  <1>1. n \in Nat /\ ExistsBijection(1..n, S)
    BY FS_CardinalityType
  <1>2. PICK f : f \in [1..n -> S] /\ \A a, b \in 1..n : f[a] = f[b] => a = b
    BY <1>1 DEF ExistsBijection, Bijection, Injection, IsInjective
  <1>3. Setup!IsInjective(f)
    BY <1>2 DEF Setup!IsInjective
  <1>4. q \in [1..n -> S] /\ Setup!IsInjective(q)
    BY <1>2, <1>3, Zenon DEF Setup!SetToSeq, Setup!Cardinality, Cardinality
  <1>5. q \in Injection(1..n, S)
    BY <1>4 DEF Injection, IsInjective, Setup!IsInjective
  <1>6. Cardinality(1..n) = n
    BY <1>1, FS_Interval
  <1>7. q \in Surjection(1..n, S)
    BY <1>5, <1>6, FS_Injection
  <1> QED
    BY <1>1, <1>4, <1>7 DEF Surjection

LEMMA OneBefore ==
    ASSUME NEW T, NEW n \in Nat, NEW w \in [1..n -> T], NEW head
    PROVE  /\ DOMAIN (<<head>> \o w) = 1..(n + 1) /\ Len(<<head>> \o w) = n + 1
           /\ (<<head>> \o w)[1] = head /\ \A i \in 1..n : (<<head>> \o w)[i + 1] = w[i]
  <1> DEFINE U == T \cup {head}
  <1>1. w \in Seq(U) /\ <<head>> \in Seq(U)
    <2>1. w \in [1..n -> U]
      OBVIOUS
    <2> QED
      BY <2>1
  <1>2. Len(w) = n /\ Len(<<head>>) = 1
    OBVIOUS
  <1> HIDE DEF U
  <1> QED
    BY <1>1, <1>2

LEMMA ReadBack ==
    ASSUME NEW f, IsFiniteSet(DOMAIN f), "#" \notin DOMAIN f
    PROVE  /\ DOMAIN Setup!Values(Setup!Lines(f)) = DOMAIN f
           /\ \A k \in DOMAIN f : Setup!Values(Setup!Lines(f))[k] = f[k]
  <1> DEFINE line == [k \in DOMAIN f |-> [key |-> k, value |-> f[k]]]
             S == {[key |-> k, value |-> f[k]] : k \in DOMAIN f}
             q == Setup!SetToSeq(S)
             lines == Setup!Lines(f)
  <1>1. IsFiniteSet(S)
    <2>1. line \in Surjection(DOMAIN f, S)
      BY DEF Surjection
    <2> QED
      BY <2>1, FS_Surjection
  <1>2. PICK n \in Nat : q \in [1..n -> S] /\ \A x \in S : \E i \in 1..n : q[i] = x
    BY <1>1, Listed, Zenon
  <1>3. /\ DOMAIN lines = 1..(n + 1) /\ Len(lines) = n + 1
        /\ lines[1].key = "#" /\ \A i \in 1..n : lines[i + 1] = q[i]
    <2> DEFINE head == [key |-> "#", value |-> "Generated"]
    <2>1. lines = <<head>> \o q
      BY DEF Setup!Lines
    <2>2. head.key = "#"
      OBVIOUS
    <2> HIDE DEF head, lines, q, S
    <2> QED
      BY <1>2, <2>1, <2>2, OneBefore
  <1>4. \A i \in 1..(n + 1) : i = 1 \/ (i - 1 \in 1..n /\ lines[i] = q[i - 1])
    BY <1>3
  <1>5. Setup!Keys(lines) = DOMAIN f
    <2>1. ASSUME NEW k \in DOMAIN f PROVE k \in Setup!Keys(lines)
      <3>1. PICK i \in 1..n : q[i] = [key |-> k, value |-> f[k]]
        BY <1>2
      <3>2. i + 1 \in DOMAIN lines /\ lines[i + 1].key = k
        BY <1>3, <3>1
      <3> QED
        BY <3>2 DEF Setup!Keys, Setup!ToSet
    <2>2. ASSUME NEW k \in Setup!Keys(lines) PROVE k \in DOMAIN f
      <3>1. PICK i \in 1..(n + 1) : lines[i].key = k /\ k # "#"
        BY <1>3 DEF Setup!Keys, Setup!ToSet
      <3> HIDE DEF lines, q
      <3>2. i # 1
        BY <1>3, <3>1
      <3>3. i - 1 \in 1..n /\ lines[i] = q[i - 1]
        BY <1>4, <3>2
      <3>4. lines[i] \in S
        BY <1>2, <3>3
      <3> QED
        BY <3>1, <3>4
    <2> QED
      BY <2>1, <2>2
  <1>6. ASSUME NEW k \in DOMAIN f PROVE Setup!Values(lines)[k] = f[k]
    <2>1. n + 1 \in Nat
      OBVIOUS
    <2>2. PICK m \in 1..(n + 1) : lines[m].key = k /\ Setup!Values(lines)[k] = lines[m].value
      BY <1>3, <1>5, <2>1, LastLine
    <2>3. lines[m] \in S
      <3>1. m # 1
        BY <1>3, <2>2
      <3>2. m - 1 \in 1..n /\ lines[m] = q[m - 1]
        BY <1>4, <3>1
      <3> HIDE DEF lines, q, S
      <3> QED
        BY <1>2, <3>2
    <2> QED
      BY <2>2, <2>3
  <1>7. DOMAIN Setup!Values(lines) = DOMAIN f
    BY <1>5 DEF Setup!Values
  <1> QED
    BY <1>6, <1>7

(* What is known of a setup: its keys are those of the file and those that  *)
(* were entered, and the values of the latter are the entered ones.         *)
Early == {"read", "ask", "interrupted"}
Written == {"ping", "finished"}
SetupShape ==
    /\ input \in EnvFiles
    /\ DOMAIN work = {"pc", "asked", "updated", "typed", "done"} /\ DOMAIN report = {"file", "misp", "cut"}
    /\ work.pc \in Early \cup Written \cup {"write", "dead"}
    /\ work.asked \in 0..Len(Configurable)
KeysFinite == IsFiniteSet(DOMAIN work.updated) /\ "#" \notin DOMAIN work.updated
Merged ==
    /\ work.pc = "read" => work.typed = <<>>
    /\ work.pc # "read" =>
          /\ KeysFinite
          /\ DOMAIN work.updated = DOMAIN Setup!Values(input) \cup DOMAIN work.typed
          /\ \A k \in DOMAIN work.updated :
                work.updated[k] = IF k \in DOMAIN work.typed THEN work.typed[k] ELSE Setup!Values(input)[k]
FileStands ==
    /\ work.pc \in Early => report.file = input
    /\ work.pc \in {"write", "dead"} => report.cut
    /\ work.pc \in Written => report.file = Setup!Lines(work.updated)
SetupInv == kind = "configure" => SetupShape /\ Merged /\ FileStands

LEMMA FileKeys ==
    ASSUME NEW file \in EnvFiles
    PROVE  IsFiniteSet(DOMAIN Setup!Values(file)) /\ "#" \notin DOMAIN Setup!Values(file)
  <1>1. file \in Seq([key : STRING, value : STRING]) /\ Len(file) \in Nat /\ DOMAIN file = 1..Len(file)
    BY EnvAssumption
  <1> DEFINE all == {file[i].key : i \in 1..Len(file)}
             key == [i \in 1..Len(file) |-> file[i].key]
  <1>2. IsFiniteSet(1..Len(file))
    BY <1>1, FS_Interval
  <1>3. key \in Surjection(1..Len(file), all)
    BY DEF Surjection
  <1>4. IsFiniteSet(all)
    BY <1>2, <1>3, FS_Surjection
  <1>5. Setup!Keys(file) \subseteq all /\ "#" \notin Setup!Keys(file)
    BY <1>1 DEF Setup!Keys, Setup!ToSet
  <1>6. IsFiniteSet(Setup!Keys(file))
    BY <1>4, <1>5, FS_Subset
  <1> QED
    BY <1>5, <1>6 DEF Setup!Values

LEMMA SetupInitInv == Init => SetupInv
  <1> SUFFICES ASSUME Init, kind = "configure" PROVE SetupShape /\ Merged /\ FileStands
    BY DEF SetupInv
  <1>1. Setup!Init
    BY DEF Init
  <1>2. Len(Configurable) \in Nat
    BY EnvAssumption
  <1>3. /\ work = [pc |-> "read", asked |-> 0, updated |-> <<>>, typed |-> <<>>, done |-> FALSE]
        /\ report = [file |-> input, misp |-> "not asked", cut |-> FALSE] /\ input \in EnvFiles
    BY <1>1, Zenon DEF Setup!Init
  <1>4. SetupShape
    <2>1. work.pc = "read" /\ work.asked = 0
      BY <1>3, Zenon
    <2>2. DOMAIN work = {"pc", "asked", "updated", "typed", "done"}
      BY <1>3, Zenon
    <2>3. DOMAIN report = {"file", "misp", "cut"}
      BY <1>3, Zenon
    <2>4. work.asked \in 0..Len(Configurable)
      BY <1>2, <2>1
    <2>5. work.pc \in Early
      BY <2>1 DEF Early
    <2> QED
      BY <1>3, <2>2, <2>3, <2>4, <2>5, Zenon DEF SetupShape
  <1>5. Merged /\ FileStands
    BY <1>3, Zenon DEF Merged, FileStands, Early, Written
  <1> QED
    BY <1>4, <1>5

LEMMA SetupStepInv ==
    ASSUME SetupShape, Merged, FileStands, Setup!Next
    PROVE  SetupShape' /\ Merged' /\ FileStands'
  <1>1. CASE Setup!Read
    <2>1. /\ work' = [work EXCEPT !.pc = "ask", !.updated = Setup!Values(input)]
          /\ input' = input /\ report' = report /\ work.pc = "read"
      BY <1>1 DEF Setup!Read
    <2>2. work'.pc = "ask" /\ work'.typed = <<>> /\ work'.updated = Setup!Values(input)
      BY <2>1 DEF SetupShape, Merged
    <2>3. DOMAIN work'.typed = {}
      BY <2>2
    <2>4. Merged'
      BY <2>1, <2>2, <2>3, FileKeys, Zenon DEF SetupShape, Merged, KeysFinite
    <2> QED
      BY <2>1, <2>4 DEF SetupShape, FileStands, Early, Written
  <1>2. CASE Setup!Ask
    <2> DEFINE k == Configurable[work.asked + 1]
    <2>1. PICK v \in Entries :
              work' = IF v \in Setup!Blank THEN [work EXCEPT !.asked = @ + 1]
                      ELSE [work EXCEPT !.asked = @ + 1,
                               !.updated = [x \in DOMAIN @ \cup {k} |-> IF x = k THEN v ELSE @[x]],
                               !.typed = [x \in DOMAIN @ \cup {k} |-> IF x = k THEN v ELSE @[x]]]
      BY <1>2, Zenon DEF Setup!Ask
    <2>2. work.pc = "ask" /\ work.asked < Len(Configurable) /\ input' = input /\ report' = report
      BY <1>2 DEF Setup!Ask
    <2>3. k # "#" /\ work.asked + 1 \in 0..Len(Configurable)
      BY <2>2, EnvAssumption DEF SetupShape
    <2> HIDE DEF k
    <2>4. SetupShape' /\ FileStands' /\ work'.pc = "ask"
      BY <2>1, <2>2, <2>3 DEF SetupShape, FileStands, Early, Written
    <2>5. CASE v \in Setup!Blank
      <3>1. work'.updated = work.updated /\ work'.typed = work.typed
        BY <2>1, <2>5 DEF SetupShape
      <3> QED
        BY <2>2, <2>4, <3>1 DEF Merged, KeysFinite
    <2>6. CASE v \notin Setup!Blank
      <3>1. /\ work'.updated = [x \in DOMAIN work.updated \cup {k} |-> IF x = k THEN v ELSE work.updated[x]]
            /\ work'.typed = [x \in DOMAIN work.typed \cup {k} |-> IF x = k THEN v ELSE work.typed[x]]
        BY <2>1, <2>6 DEF SetupShape
      <3>2. KeysFinite'
        BY <2>2, <2>3, <3>1, FS_AddElement, Zenon DEF Merged, KeysFinite
      <3>3. DOMAIN work'.updated = DOMAIN Setup!Values(input) \cup DOMAIN work'.typed
        BY <2>2, <3>1 DEF Merged
      <3>4. ASSUME NEW x \in DOMAIN work'.updated
            PROVE  work'.updated[x] = IF x \in DOMAIN work'.typed THEN work'.typed[x] ELSE Setup!Values(input)[x]
        BY <2>2, <3>1, <3>4 DEF Merged
      <3> QED
        BY <2>2, <2>4, <3>2, <3>3, <3>4 DEF Merged
    <2> QED
      BY <2>4, <2>5, <2>6
  <1>3. CASE Setup!Interrupt \/ Setup!DieWriting
    <2>1. /\ DOMAIN work' = DOMAIN work /\ work'.updated = work.updated /\ work'.typed = work.typed
          /\ work'.asked = work.asked /\ input' = input /\ report' = report
      BY <1>3, Zenon DEF Setup!Interrupt, Setup!DieWriting, SetupShape
    <2>2. (work.pc = "ask" /\ work'.pc = "interrupted") \/ (work.pc = "write" /\ work'.pc = "dead")
      BY <1>3, Zenon DEF Setup!Interrupt, Setup!DieWriting, SetupShape
    <2> QED
      BY <2>1, <2>2 DEF SetupShape, Merged, KeysFinite, FileStands, Early, Written
  <1>4. CASE Setup!Truncate
    <2>1. /\ work' = [work EXCEPT !.pc = "write"] /\ report' = [report EXCEPT !.file = <<>>, !.cut = TRUE]
          /\ input' = input /\ work.pc = "ask"
      BY <1>4 DEF Setup!Truncate
    <2> QED
      BY <2>1 DEF SetupShape, Merged, KeysFinite, FileStands, Early, Written
  <1>5. CASE Setup!Write
    <2>1. /\ work' = [work EXCEPT !.pc = "ping"]
          /\ report' = [report EXCEPT !.file = Setup!Lines(work.updated), !.cut = FALSE]
          /\ input' = input /\ work.pc = "write"
      BY <1>5 DEF Setup!Write
    <2>2. work'.pc = "ping" /\ work'.updated = work.updated /\ work'.typed = work.typed
          /\ work'.asked = work.asked /\ report'.file = Setup!Lines(work.updated)
          /\ DOMAIN work' = DOMAIN work /\ DOMAIN report' = DOMAIN report
      BY <2>1 DEF SetupShape
    <2> QED
      BY <2>1, <2>2 DEF SetupShape, Merged, KeysFinite, FileStands, Early, Written
  <1>6. CASE Setup!Ping
    <2>1. PICK health : report' = [report EXCEPT !.misp = health]
      BY <1>6, Zenon DEF Setup!Ping
    <2>2. work' = [work EXCEPT !.pc = "finished", !.done = TRUE] /\ input' = input /\ work.pc = "ping"
      BY <1>6, Zenon DEF Setup!Ping
    <2> QED
      BY <2>1, <2>2 DEF SetupShape, Merged, KeysFinite, FileStands, Early, Written
  <1> QED
    BY <1>1, <1>2, <1>3, <1>4, <1>5, <1>6 DEF Setup!Next

(* configure keeps what it was not asked to change (cli.py:1640): unless    *)
(* the process dies while it writes, every key of the file has the value    *)
(* the user entered, or else the one it had.                                *)
THEOREM SetupKeeps == Spec => []KeysKept
  <1>1. SetupInv /\ [Next]_vars => SetupInv'
    <2> SUFFICES ASSUME SetupInv, [Next]_vars, kind' = "configure"
                 PROVE  SetupShape' /\ Merged' /\ FileStands'
      BY DEF SetupInv
    <2>1. CASE UNCHANGED vars
      BY <2>1 DEF vars, SetupInv, SetupShape, Merged, KeysFinite, FileStands
    <2>2. CASE Next
      <3>1. kind = "configure" /\ Setup!Next
        BY <2>2 DEF Next
      <3> QED
        BY <3>1, SetupStepInv DEF SetupInv
    <2> QED
      BY <2>1, <2>2
  <1>2. SetupInv => KeysKept
    <2> SUFFICES ASSUME SetupShape, Merged, FileStands, ~report.cut, kind = "configure"
                 PROVE  KeysKept
      BY DEF SetupInv, KeysKept
    <2>1. CASE work.pc \in Early
      <3>1. work.pc \notin Written /\ report.file = input /\ DOMAIN <<>> = {}
        BY <2>1 DEF Early, Written, FileStands
      <3> QED
        BY <3>1 DEF KeysKept, Written
    <2>2. CASE work.pc \in Written
      <3>1. report.file = Setup!Lines(work.updated) /\ work.pc # "read"
        BY <2>2 DEF FileStands, Written
      <3>2. /\ DOMAIN Setup!Values(report.file) = DOMAIN work.updated
            /\ \A k \in DOMAIN work.updated : Setup!Values(report.file)[k] = work.updated[k]
        BY <3>1, ReadBack DEF Merged, KeysFinite
      <3> QED
        BY <2>2, <3>1, <3>2 DEF KeysKept, Merged, Written
    <2> QED
      BY <2>1, <2>2 DEF SetupShape, FileStands
  <1> QED
    BY <1>1, <1>2, SetupInitInv, PTL DEF Spec

-----------------------------------------------------------------------------
(* The scorer. Whatever the sources answer, a result carries a number; what *)
(* the scorer sums are weights, and weights times that number or one half.  *)
Scorable(results) ==
    /\ DOMAIN results \subseteq Intel!Sources
    /\ \A s \in DOMAIN results : results[s].score \in Int
ScoreInv ==
    kind = "enrichment" =>
        /\ input \in Batches /\ DOMAIN work = {"results", "checking", "verdicts", "done"}
        /\ DOMAIN work.results = DOMAIN input
        /\ \A i \in DOMAIN input : Scorable(work.results[i])
        /\ \A i \in DOMAIN input : <<i, "misp">> \in work.checking => "misp" \in DOMAIN input[i].answers

LEMMA SourcesFinite == IsFiniteSet(Intel!Sources)
  <1>1. \A a, b, c, d : IsFiniteSet({a, b, c, d})
    <2> SUFFICES ASSUME NEW a, NEW b, NEW c, NEW d PROVE IsFiniteSet({a, b, c, d})
      OBVIOUS
    <2>1. IsFiniteSet({a} \cup {b}) /\ IsFiniteSet({c} \cup {d})
      BY FS_Singleton, FS_Union, Zenon
    <2>2. IsFiniteSet(({a} \cup {b}) \cup ({c} \cup {d}))
      BY <2>1, FS_Union, Zenon
    <2>3. {a, b, c, d} = ({a} \cup {b}) \cup ({c} \cup {d})
      OBVIOUS
    <2> QED
      BY <2>2, <2>3
  <1>2. IsFiniteSet({"abuseipdb", "otx", "threatfox", "urlhaus"} \cup {"netmeta", "tor_exit", "virustotal", "misp"})
    BY <1>1, FS_Union, Zenon
  <1>3. Intel!Sources = {"abuseipdb", "otx", "threatfox", "urlhaus"} \cup {"netmeta", "tor_exit", "virustotal", "misp"}
    BY DEF Intel!Sources
  <1> QED
    BY <1>2, <1>3

LEMMA WeightIs == \A s \in Intel!Sources : Intel!Weight(s) \in 20..100
  <1> SUFFICES ASSUME NEW s \in Intel!Sources PROVE Intel!Weight(s) \in 20..100
    OBVIOUS
  <1> QED
    BY SMTT(30) DEF Intel!Sources, Intel!Weight

LEMMA PresenceIs ==
    ASSUME NEW results, Scorable(results), NEW s \in DOMAIN results
    PROVE  Intel!Presence(results[s]) \in Nat /\ Intel!Presence(results[s]) >= 50
  BY DEF Scorable, Intel!Presence, Intel!Greater

(* What the scorer sums, over the sources that answered.                    *)
Weights(results) == [s \in DOMAIN results |-> Intel!Weight(s)]
Shares(results) == [s \in DOMAIN results |-> Intel!Weight(s) * Intel!Presence(results[s])]
Saying(results, verdict) == {s \in Intel!Valid(results) : results[s].verdict = verdict}

LEMMA SumsOf ==
    ASSUME NEW results, Scorable(results)
    PROVE  /\ Intel!TotalWeight(results) = Sum(Weights(results), Intel!Valid(results))
           /\ \A v : Intel!Weighted(results, v) = Sum(Shares(results), Saying(results, v))
           /\ IsFiniteSet(Intel!Valid(results)) /\ \A v : IsFiniteSet(Saying(results, v))
           /\ \A s \in DOMAIN results :
                 /\ Weights(results)[s] \in Nat /\ Weights(results)[s] >= 20
                 /\ Shares(results)[s] \in Nat /\ Shares(results)[s] >= 50 * Weights(results)[s]
  <1>1. /\ Intel!TotalWeight(results) = Sum(Weights(results), Intel!Valid(results))
        /\ \A v : Intel!Weighted(results, v) = Sum(Shares(results), Saying(results, v))
    BY DEF Intel!TotalWeight, Intel!Weighted, Sum, Weights, Shares, Saying,
           Intel!FoldFunctionOnSet, Intel!MapThenFoldSet, FoldFunctionOnSet, MapThenFoldSet
  <1>2. Intel!Valid(results) \subseteq Intel!Sources /\ \A v : Saying(results, v) \subseteq Intel!Sources
    BY DEF Scorable, Intel!Valid, Saying
  <1>3. IsFiniteSet(Intel!Valid(results)) /\ \A v : IsFiniteSet(Saying(results, v))
    BY <1>2, SourcesFinite, FS_Subset
  <1>4. ASSUME NEW s \in DOMAIN results
        PROVE  /\ Weights(results)[s] \in Nat /\ Weights(results)[s] >= 20
               /\ Shares(results)[s] \in Nat /\ Shares(results)[s] >= 50 * Weights(results)[s]
    <2> DEFINE w == Intel!Weight(s)
               p == Intel!Presence(results[s])
    <2>1. Weights(results)[s] = w /\ Shares(results)[s] = w * p
      BY DEF Weights, Shares
    <2>2. w \in Nat /\ w >= 20
      BY <1>4, WeightIs DEF Scorable
    <2>3. p \in Nat /\ p >= 50
      BY PresenceIs
    <2> HIDE DEF w, p
    <2>4. w * p \in Nat /\ w * p >= 50 * w
      BY <2>2, <2>3
    <2> QED
      BY <2>1, <2>2, <2>4
  <1> QED
    BY <1>1, <1>3, <1>4

(* Without a source: what it said is taken off its sum, its weight off the  *)
(* total, and the other sum stays.                                          *)
LEMMA WithoutOne ==
    ASSUME NEW results, Scorable(results), NEW s \in Intel!Valid(results)
    PROVE  /\ Scorable(Without(results, s))
           /\ Intel!Valid(Without(results, s)) = Intel!Valid(results) \ {s}
           /\ \A v : Saying(Without(results, s), v) = Saying(results, v) \ {s}
           /\ \A x \in DOMAIN results \ {s} :
                 /\ Weights(Without(results, s))[x] = Weights(results)[x]
                 /\ Shares(Without(results, s))[x] = Shares(results)[x]
  BY DEF Scorable, Without, Intel!Valid, Saying, Weights, Shares

LEMMA TotalWithout ==
    ASSUME NEW results, Scorable(results), NEW s \in Intel!Valid(results)
    PROVE  /\ Intel!TotalWeight(results) = Weights(results)[s] + Intel!TotalWeight(Without(results, s))
           /\ Intel!TotalWeight(results) \in Nat /\ Intel!TotalWeight(Without(results, s)) \in Nat
           /\ Weights(results)[s] \in Nat /\ Weights(results)[s] >= 20
  <1> DEFINE S == Intel!Valid(results)
             R == Without(results, s)
  <1>1. S \subseteq DOMAIN results
    BY DEF Intel!Valid
  <1>2. /\ Intel!TotalWeight(results) = Sum(Weights(results), S)
        /\ Intel!TotalWeight(R) = Sum(Weights(R), S \ {s})
    <2>1. Scorable(R) /\ Intel!Valid(R) = S \ {s}
      BY WithoutOne
    <2> QED
      BY <2>1, SumsOf
  <1>3. IsFiniteSet(S) /\ \A x \in S : Weights(results)[x] \in Nat
    BY <1>1, SumsOf
  <1>4. \A x \in S \ {s} : Weights(R)[x] = Weights(results)[x]
    BY <1>1, WithoutOne
  <1>5. Weights(results)[s] \in Nat /\ Weights(results)[s] >= 20
    BY <1>1, SumsOf
  <1> HIDE DEF S, R
  <1>6. s \in S
    BY DEF S
  <1>7. /\ Sum(Weights(results), S) = Weights(results)[s] + Sum(Weights(R), S \ {s})
        /\ Sum(Weights(results), S) \in Nat /\ Sum(Weights(R), S \ {s}) \in Nat
    BY <1>3, <1>4, <1>6, SumWithout
  <1> QED
    BY <1>2, <1>5, <1>7 DEF R

LEMMA WeightedWithout ==
    ASSUME NEW results, Scorable(results), NEW s \in Intel!Valid(results), NEW v
    PROVE  /\ results[s].verdict = v =>
                 Intel!Weighted(results, v) = Shares(results)[s] + Intel!Weighted(Without(results, s), v)
           /\ results[s].verdict # v => Intel!Weighted(results, v) = Intel!Weighted(Without(results, s), v)
           /\ Intel!Weighted(results, v) \in Nat /\ Intel!Weighted(Without(results, s), v) \in Nat
           /\ Shares(results)[s] \in Nat /\ Shares(results)[s] >= 50 * Weights(results)[s]
  <1> DEFINE S == Saying(results, v)
             R == Without(results, s)
  <1>1. S \subseteq DOMAIN results /\ s \in DOMAIN results
    BY DEF Saying, Intel!Valid
  <1>2. /\ Intel!Weighted(results, v) = Sum(Shares(results), S)
        /\ Intel!Weighted(R, v) = Sum(Shares(R), S \ {s})
    <2>1. Scorable(R) /\ Saying(R, v) = S \ {s}
      BY WithoutOne
    <2> QED
      BY <2>1, SumsOf, Zenon
  <1>3. IsFiniteSet(S) /\ \A x \in S : Shares(results)[x] \in Nat
    BY <1>1, SumsOf
  <1>4. \A x \in S \ {s} : Shares(R)[x] = Shares(results)[x]
    BY <1>1, WithoutOne
  <1>5. Shares(results)[s] \in Nat /\ Shares(results)[s] >= 50 * Weights(results)[s]
    BY <1>1, SumsOf
  <1>6. s \in S <=> results[s].verdict = v
    BY DEF Saying
  <1> HIDE DEF S, R
  <1>7. CASE s \in S
    <2>1. /\ Sum(Shares(results), S) = Shares(results)[s] + Sum(Shares(R), S \ {s})
          /\ Sum(Shares(results), S) \in Nat /\ Sum(Shares(R), S \ {s}) \in Nat
      BY <1>3, <1>4, <1>7, SumWithout
    <2> QED
      BY <1>2, <1>5, <1>6, <1>7, <2>1 DEF R
  <1>8. CASE s \notin S
    <2>1. S \ {s} = S
      BY <1>8
    <2>2. \A x \in S : Shares(R)[x] = Shares(results)[x]
      BY <1>4, <1>8
    <2>3. Sum(Shares(results), S) = Sum(Shares(R), S) /\ Sum(Shares(results), S) \in Nat
      BY <1>3, <2>2, SumSame
    <2> QED
      BY <1>2, <1>5, <1>6, <1>8, <2>1, <2>3, Zenon DEF R
  <1> QED
    BY <1>7, <1>8

LEMMA NobodyLeft ==
    ASSUME NEW results, Intel!Valid(results) = {}
    PROVE  \A v : Intel!Weighted(results, v) = 0
  <1> SUFFICES ASSUME NEW v PROVE Intel!Weighted(results, v) = 0
    OBVIOUS
  <1>1. Intel!Weighted(results, v) = Sum(Shares(results), Saying(results, v))
    BY DEF Intel!Weighted, Sum, Shares, Saying,
           Intel!FoldFunctionOnSet, Intel!MapThenFoldSet, FoldFunctionOnSet, MapThenFoldSet
  <1>2. Saying(results, v) = {}
    BY DEF Saying
  <1> QED
    BY <1>1, <1>2, SumEmpty

(* The verdict by its rank.                                                 *)
LEMMA RankIs ==
    ASSUME NEW results
    PROVE  /\ Rank(results) \in 1..3
           /\ Intel!Valid(results) = {} => Rank(results) = 1
           /\ Intel!Valid(results) # {} =>
                 /\ Intel!Reaches(results, "malicious", 25) <=> Rank(results) = 3
                 /\ (Intel!Reaches(results, "malicious", 25) \/ Intel!Reaches(results, "suspicious", 25)
                     \/ Intel!Weighted(results, "malicious") > 0) <=> Rank(results) >= 2
  <1>1. Intel!Scored(results) \in {"unknown", "malicious", "suspicious", "benign"}
    BY DEF Intel!Scored
  <1>2. /\ Rank(results) \in 1..3
        /\ Rank(results) = 3 <=> Intel!Scored(results) = "malicious"
        /\ Rank(results) >= 2 <=> Intel!Scored(results) \in {"malicious", "suspicious"}
    BY <1>1 DEF Rank
  <1>3. Intel!Valid(results) = {} => Intel!Scored(results) = "unknown"
    BY DEF Intel!Scored
  <1>4. Intel!Valid(results) # {} =>
           (Intel!Reaches(results, "malicious", 25) <=> Intel!Scored(results) = "malicious")
    BY DEF Intel!Scored
  <1>5. Intel!Valid(results) # {} =>
           ((Intel!Reaches(results, "malicious", 25) \/ Intel!Reaches(results, "suspicious", 25)
             \/ Intel!Weighted(results, "malicious") > 0)
            <=> Intel!Scored(results) \in {"malicious", "suspicious"})
    BY DEF Intel!Scored
  <1>6. Intel!Valid(results) = {} => Rank(results) = 1
    BY <1>2, <1>3
  <1> QED
    BY <1>2, <1>4, <1>5, <1>6

(* What one source changes. An answer that says malicious takes at least    *)
(* half its weight along, so that without it the share cannot be reached    *)
(* unless it was; one that says nothing bad leaves both sums and takes      *)
(* weight off the total.                                                    *)
LEMMA OneSource ==
    ASSUME NEW results, Scorable(results), NEW s \in Intel!Valid(results)
    PROVE  /\ results[s].verdict = "malicious" =>
                 Rank(results) >= 2 /\ Rank(Without(results, s)) <= Rank(results)
           /\ results[s].verdict \notin Intel!Bad => Rank(Without(results, s)) >= Rank(results)
  <1> DEFINE R == Without(results, s)
             T == Intel!TotalWeight(results)
             Tr == Intel!TotalWeight(R)
             M == Intel!Weighted(results, "malicious")
             Mr == Intel!Weighted(R, "malicious")
             S == Intel!Weighted(results, "suspicious")
             Sr == Intel!Weighted(R, "suspicious")
             w == Weights(results)[s]
             p == Shares(results)[s]
  <1>1. T = w + Tr /\ T \in Nat /\ Tr \in Nat /\ w \in Nat /\ w >= 20
    BY TotalWithout
  <1>2. p \in Nat /\ p >= 50 * w /\ M \in Nat /\ Mr \in Nat /\ S \in Nat /\ Sr \in Nat
    BY WeightedWithout
  <1>3. /\ results[s].verdict = "malicious" => M = p + Mr
        /\ results[s].verdict # "malicious" => M = Mr
        /\ results[s].verdict # "suspicious" => S = Sr
    BY WeightedWithout
  <1>4. Intel!Valid(results) # {}
    OBVIOUS
  <1>5. Intel!Valid(R) = {} => Mr = 0 /\ Sr = 0
    BY NobodyLeft
  <1>6. /\ Rank(results) \in 1..3
        /\ (M >= 25 * T) <=> Rank(results) = 3
        /\ (M >= 25 * T \/ S >= 25 * T \/ M > 0) <=> Rank(results) >= 2
    BY <1>4, RankIs DEF Intel!Reaches
  <1>7. /\ Rank(R) \in 1..3
        /\ Intel!Valid(R) = {} => Rank(R) = 1
        /\ Intel!Valid(R) # {} =>
              /\ (Mr >= 25 * Tr) <=> Rank(R) = 3
              /\ (Mr >= 25 * Tr \/ Sr >= 25 * Tr \/ Mr > 0) <=> Rank(R) >= 2
    BY RankIs DEF Intel!Reaches
  <1> DEFINE rank == Rank(results)
             rest == Rank(R)
             nobody == Intel!Valid(R) = {}
  <1>8. rank \in 1..3 /\ rest \in 1..3
    BY <1>6, <1>7
  <1>9. /\ (M >= 25 * T) <=> rank = 3
        /\ (M >= 25 * T \/ S >= 25 * T \/ M > 0) <=> rank >= 2
    BY <1>6
  <1>10. /\ nobody => rest = 1 /\ Mr = 0 /\ Sr = 0
         /\ ~nobody => /\ (Mr >= 25 * Tr) <=> rest = 3
                       /\ (Mr >= 25 * Tr \/ Sr >= 25 * Tr \/ Mr > 0) <=> rest >= 2
    BY <1>5, <1>7
  <1> HIDE DEF T, Tr, M, Mr, S, Sr, w, p, rank, rest, nobody
  <1>11. ASSUME results[s].verdict = "malicious" PROVE rank >= 2 /\ rest <= rank
    <2>1. M = p + Mr /\ M > 0
      BY <1>1, <1>2, <1>3, <1>11
    <2>2. rank >= 2
      BY <1>9, <2>1
    <2>3. rest = 3 => rank = 3
      <3> SUFFICES ASSUME rest = 3 PROVE M >= 25 * T
        BY <1>9
      <3>1. Mr >= 25 * Tr
        BY <1>10
      <3> QED
        BY <1>1, <1>2, <2>1, <3>1
    <2> QED
      BY <1>8, <2>2, <2>3
  <1>12. ASSUME results[s].verdict \notin Intel!Bad PROVE rest >= rank
    <2>1. M = Mr /\ S = Sr
      BY <1>3, <1>12 DEF Intel!Bad
    <2>2. T > 0 /\ Tr <= T
      BY <1>1
    <2>3. rank >= 2 => rest >= 2
      <3> SUFFICES ASSUME rank >= 2 PROVE rest >= 2
        OBVIOUS
      <3>1. M > 0 \/ S >= 25 * T
        BY <1>1, <1>2, <1>9, <2>2
      <3>2. ~nobody
        BY <1>1, <1>2, <1>10, <2>1, <2>2, <3>1
      <3>3. Sr >= 25 * Tr \/ Mr > 0
        BY <1>1, <1>2, <2>1, <2>2, <3>1
      <3> QED
        BY <1>10, <3>2, <3>3
    <2>4. rank = 3 => rest = 3
      <3> SUFFICES ASSUME rank = 3 PROVE rest = 3
        OBVIOUS
      <3>1. M >= 25 * T
        BY <1>9
      <3>2. ~nobody /\ Mr >= 25 * Tr
        BY <1>1, <1>2, <1>10, <2>1, <2>2, <3>1
      <3> QED
        BY <1>10, <3>2
    <2> QED
      BY <1>8, <2>3, <2>4
  <1> QED
    BY <1>11, <1>12 DEF rank, rest

(* What a source makes of an answer carries a number.                       *)
LEMMA AbuseScore == \A a : a.confidence \in 0..100 => Intel!AbuseIPDB(a).score \in Int
  BY DEF Intel!AbuseIPDB, Intel!Result
LEMMA OtxScore == \A a : a.pulses \in Nat /\ a.reputation \in Int => Intel!OTX(a).score \in Int
  BY DEF Intel!OTX, Intel!Result, Intel!Lesser, Intel!Greater
LEMMA HausScore == \A a : Intel!URLhaus(a).score \in Int
  BY DEF Intel!URLhaus, Intel!Result, Intel!Unknown
LEMMA MetaScore == \A a : Intel!NetMeta(a).score \in Int
  BY DEF Intel!NetMeta, Intel!Result
LEMMA TorScore == \A a : Intel!TorExit(a).score \in Int
  BY DEF Intel!TorExit, Intel!Result, Intel!Unknown
LEMMA TotalScore ==
    ASSUME NEW a, a.malicious \in Nat, a.suspicious \in Nat, a.harmless \in Nat, a.undetected \in Nat
    PROVE  Intel!VirusTotal(a).score \in Int
  <1> DEFINE m == a.malicious
             b == a.suspicious
             total == a.malicious + a.suspicious + a.harmless + a.undetected
  <1>1. total \in Nat /\ m \in Nat /\ b \in Nat
    OBVIOUS
  <1>2. m + b > 0 => total > 0
    OBVIOUS
  <1> HIDE DEF m, b, total
  <1>3. total > 0 => (100 * m) \div total \in Int /\ (100 * (m + b)) \div total \in Int
    BY <1>1
  <1>4. total # 0 => total > 0
    BY <1>1
  <1>5. Intel!VirusTotal(a).score \in
           {0} \cup IF total # 0 THEN {(100 * m) \div total, (100 * (m + b)) \div total} ELSE {}
    BY <1>2, <1>4 DEF Intel!VirusTotal, Intel!Result, Intel!Unknown, m, b, total
  <1> QED
    BY <1>3, <1>4, <1>5
LEMMA FoxScore ==
    ASSUME NEW C, NEW a, a.data \in Seq([confidence : 0..100, malware : C, tags : SUBSET C])
    PROVE  Intel!ThreatFox(a).score \in Int
  <1> DEFINE data == a.data
             given == {data[k].confidence : k \in DOMAIN data}
             best == CHOOSE x \in given : \A y \in given : x >= y
  <1>1. given \subseteq 0..100
    <2> SUFFICES ASSUME NEW k \in DOMAIN data PROVE data[k].confidence \in 0..100
      OBVIOUS
    <2> DEFINE Entry == [confidence : 0..100, malware : C, tags : SUBSET C]
    <2>1. data \in Seq(Entry) /\ k \in DOMAIN data
      OBVIOUS
    <2> HIDE DEF data, Entry
    <2>2. data[k] \in Entry
      BY <2>1
    <2> QED
      BY <2>2 DEF Entry
  <1>2. ASSUME data # <<>> PROVE best \in Int
    <2>1. 1 \in DOMAIN data
      BY <1>2
    <2>2. given # {}
      BY <2>1, Zenon
    <2> HIDE DEF given
    <2>3. given \subseteq Nat /\ \A x \in given : x <= 100
      BY <1>1
    <2>4. \E x \in given : \A y \in given : y <= x
      BY <2>2, <2>3, GreatestBounded, Zenon
    <2>5. \E x \in given : \A y \in given : x >= y
      BY <2>3, <2>4
    <2>6. best \in given
      BY <2>5
    <2> HIDE DEF best
    <2> QED
      BY <2>3, <2>6
  <1>3. {e.confidence : e \in Intel!Range(a.data)} = given
    BY DEF Intel!Range
  <1>4. Intel!Max(given) = best
    BY DEF Intel!Max
  <1> HIDE DEF best, given
  <1>5. Intel!ThreatFox(a).score = IF a.query_status # "ok" \/ data = <<>> THEN 0 ELSE best
    BY <1>3, <1>4, Zenon DEF Intel!ThreatFox, Intel!Result, Intel!Unknown
  <1> QED
    BY <1>2, <1>5
LEMMA MispScore ==
    ASSUME NEW a, IsFiniteSet(DOMAIN a.attributes)
    PROVE  Intel!MISP(a).score \in Int
  <1> DEFINE marked == {i \in DOMAIN a.attributes : a.attributes[i].to_ids}
  <1>1. Cardinality(marked) \in Nat
    BY FS_Subset, FS_CardinalityType
  <1> HIDE DEF marked
  <1>2. Intel!Cardinality(marked) = Cardinality(marked)
    BY DEF Cardinality, Intel!Cardinality
  <1>3. Intel!Lesser(100, 20 * Cardinality(marked)) \in Int
    BY <1>1 DEF Intel!Lesser
  <1> QED
    BY <1>2, <1>3 DEF Intel!MISP, Intel!Result, Intel!Unknown, marked

LEMMA InterpretScore ==
    ASSUME NEW batch \in Batches, NEW i \in DOMAIN batch, NEW s \in DOMAIN batch[i].answers
    PROVE  Intel!Interpret(s, batch[i].answers[s]).score \in Int
  <1> DEFINE answers == batch[i].answers
             a == answers[s]
  <1>1. s \in Intel!Sources
    BY BatchesAssumption
  <1>2. CASE s \in {"urlhaus", "netmeta", "tor_exit"}
    BY <1>2, HausScore, MetaScore, TorScore DEF Intel!Interpret
  <1>3. CASE s = "abuseipdb"
    <2>1. answers["abuseipdb"].confidence \in 0..100
      BY <1>3, BatchesAssumption
    <2>2. Intel!AbuseIPDB(answers["abuseipdb"]).score \in Int
      BY <2>1, AbuseScore
    <2> QED
      BY <1>3, <2>2 DEF Intel!Interpret
  <1>4. CASE s = "otx"
    <2>1. answers["otx"].pulses \in Nat /\ answers["otx"].reputation \in Int
      BY <1>4, BatchesAssumption
    <2>2. Intel!OTX(answers["otx"]).score \in Int
      BY <2>1, OtxScore
    <2> QED
      BY <1>4, <2>2 DEF Intel!Interpret
  <1>5. CASE s = "threatfox"
    <2>1. answers["threatfox"].data \in Seq([confidence : 0..100, malware : STRING, tags : SUBSET STRING])
      BY <1>5, BatchesAssumption
    <2>2. Intel!ThreatFox(answers["threatfox"]).score \in Int
      BY <2>1, FoxScore
    <2> QED
      BY <1>5, <2>2 DEF Intel!Interpret
  <1>6. CASE s = "virustotal"
    <2>1. LET v == answers["virustotal"]
          IN  v.malicious \in Nat /\ v.suspicious \in Nat /\ v.harmless \in Nat /\ v.undetected \in Nat
      BY <1>6, BatchesAssumption
    <2>2. Intel!VirusTotal(answers["virustotal"]).score \in Int
      BY <2>1, TotalScore
    <2> QED
      BY <1>6, <2>2 DEF Intel!Interpret
  <1>7. CASE s = "misp"
    <2>1. IsFiniteSet(DOMAIN answers["misp"].attributes)
      BY <1>7, BatchesAssumption
    <2>2. Intel!MISP(answers["misp"]).score \in Int
      BY <2>1, MispScore
    <2> QED
      BY <1>7, <2>2 DEF Intel!Interpret
  <1> QED
    BY <1>1, <1>2, <1>3, <1>4, <1>5, <1>6, <1>7 DEF Intel!Sources

LEMMA ScoreInit == Init => ScoreInv
  <1> SUFFICES ASSUME Init, kind = "enrichment" PROVE ScoreInv
    BY DEF ScoreInv
  <1>1. Intel!Init
    BY DEF Init
  <1>2. /\ input \in Batches
        /\ work = [results |-> [i \in DOMAIN input |-> <<>>], checking |-> {}, verdicts |-> <<>>, done |-> FALSE]
    BY <1>1 DEF Intel!Init
  <1>3. Scorable(<<>>)
    BY DEF Scorable
  <1> QED
    BY <1>2, <1>3 DEF ScoreInv

(* A result put into the table.                                             *)
LEMMA StoredSound ==
    ASSUME kind = "enrichment", ScoreInv, NEW i \in DOMAIN input, NEW s \in DOMAIN input[i].answers,
           NEW result, result.score \in Int
    PROVE  LET results == [work.results EXCEPT ![i] = Intel!Put(@, s, result)]
           IN  DOMAIN results = DOMAIN input /\ \A j \in DOMAIN input : Scorable(results[j])
  <1>1. s \in Intel!Sources
    BY BatchesAssumption DEF ScoreInv
  <1>2. Scorable(work.results[i])
    BY DEF ScoreInv
  <1>3. Scorable(Intel!Put(work.results[i], s, result))
    BY <1>1, <1>2 DEF Scorable, Intel!Put
  <1> QED
    BY <1>3 DEF ScoreInv

LEMMA ScoreStep ==
    ASSUME kind = "enrichment", kind' = kind, ScoreInv, Intel!Next
    PROVE  ScoreInv'
  <1>1. ASSUME NEW i \in DOMAIN input, NEW s \in Intel!Asked(i), Intel!Answers(i, s)
        PROVE  ScoreInv'
    <2> DEFINE result == Intel!Interpret(s, input[i].answers[s])
    <2>1. s \in DOMAIN input[i].answers
      BY DEF Intel!Asked
    <2>2. result.score \in Int
      BY <2>1, InterpretScore DEF ScoreInv
    <2> HIDE DEF result
    <2>3. CASE s = "misp" /\ result.verdict \in Intel!Bad
      <3>1. work' = [work EXCEPT !.checking = @ \cup {<<i, s>>}] /\ input' = input
        BY <1>1, <2>3 DEF Intel!Answers, result
      <3> QED
        BY <2>1, <2>3, <3>1 DEF ScoreInv
    <2>4. CASE ~(s = "misp" /\ result.verdict \in Intel!Bad)
      <3>1. work' = [work EXCEPT !.results[i] = Intel!Put(@, s, result)] /\ input' = input
        BY <1>1, <2>4 DEF Intel!Answers, Intel!Store, result
      <3> QED
        BY <2>1, <2>2, <3>1, StoredSound DEF ScoreInv
    <2> QED
      BY <2>3, <2>4
  <1>2. ASSUME NEW i \in DOMAIN input, NEW s \in Intel!Asked(i), Intel!Fails(i, s)
        PROVE  ScoreInv'
    <2>1. work' = [work EXCEPT !.results[i] = Intel!Put(@, s, Intel!Failed)] /\ input' = input
      BY <1>2 DEF Intel!Fails, Intel!Store
    <2>2. s \in DOMAIN input[i].answers /\ Intel!Failed.score \in Int
      BY DEF Intel!Asked, Intel!Failed, Intel!Unknown, Intel!Result
    <2> QED
      BY <2>1, <2>2, StoredSound DEF ScoreInv
  <1>3. ASSUME NEW i \in DOMAIN input, <<i, "misp">> \in work.checking,
               NEW result, result.score \in Int, Intel!Checked(i, result)
        PROVE  ScoreInv'
    <2>1. "misp" \in DOMAIN input[i].answers
      BY <1>3 DEF ScoreInv
    <2> DEFINE results == [work.results EXCEPT ![i] = Intel!Put(@, "misp", result)]
    <2>2. DOMAIN results = DOMAIN input /\ \A j \in DOMAIN input : Scorable(results[j])
      BY <1>3, <2>1, StoredSound
    <2>3. work' = [work EXCEPT !.results = results, !.checking = @ \ {<<i, "misp">>}] /\ input' = input
      BY <1>3 DEF Intel!Checked, Intel!Store, ScoreInv
    <2> HIDE DEF results
    <2> QED
      BY <2>2, <2>3 DEF ScoreInv
  <1>4. ASSUME NEW i \in DOMAIN input, Intel!OnWarningList(i) PROVE ScoreInv'
    <2> DEFINE result == Intel!Result("unknown", 0, Intel!MISP(input[i].answers["misp"]).tags \cup {"warninglist"})
    <2>1. <<i, "misp">> \in work.checking /\ Intel!Checked(i, result)
      BY <1>4 DEF Intel!OnWarningList
    <2>2. result.score \in Int
      BY DEF Intel!Result
    <2> HIDE DEF result
    <2> QED
      BY <1>3, <2>1, <2>2
  <1>5. ASSUME NEW i \in DOMAIN input, Intel!NotOnWarningList(i) PROVE ScoreInv'
    <2> DEFINE result == Intel!MISP(input[i].answers["misp"])
    <2>1. <<i, "misp">> \in work.checking /\ Intel!Checked(i, result)
      BY <1>5 DEF Intel!NotOnWarningList
    <2>2. "misp" \in DOMAIN input[i].answers
      BY <2>1 DEF ScoreInv
    <2>3. result.score \in Int
      BY <2>2, BatchesAssumption, MispScore DEF ScoreInv
    <2> HIDE DEF result
    <2> QED
      BY <1>3, <2>1, <2>3
  <1>6. ASSUME Intel!ScoreAndCorrelate PROVE ScoreInv'
    <2>1. /\ work' = [work EXCEPT !.done = TRUE,
                                  !.verdicts = [i \in DOMAIN input |-> Intel!Scored(work.results[i])]]
          /\ input' = input
      BY <1>6 DEF Intel!ScoreAndCorrelate
    <2> QED
      BY <2>1 DEF ScoreInv
  <1> QED
    BY <1>1, <1>2, <1>4, <1>5, <1>6 DEF Intel!Next

(* In every behaviour, at every moment and for every list of answers: an    *)
(* answer that calls an IOC malicious keeps it from passing as clean and    *)
(* does not soften its verdict, and one that says nothing bad does not make *)
(* it worse (scorer.py:60).                                                 *)
THEOREM BadNewsTheorem == Spec => []BadNewsCounts
  <1>1. Init => ScoreInv
    BY ScoreInit
  <1>2. ScoreInv /\ [Next]_vars => ScoreInv'
    <2> SUFFICES ASSUME ScoreInv, [Next]_vars, kind' = "enrichment" PROVE ScoreInv'
      BY DEF ScoreInv
    <2>1. CASE UNCHANGED vars
      BY <2>1 DEF vars, ScoreInv
    <2>2. CASE Next
      <3>1. kind = "enrichment" /\ Intel!Next
        BY <2>2 DEF Next
      <3> QED
        BY <3>1, ScoreStep
    <2> QED
      BY <2>1, <2>2
  <1>3. ScoreInv => BadNewsCounts
    <2> SUFFICES ASSUME ScoreInv, kind = "enrichment", NEW i \in DOMAIN input,
                        NEW s \in Intel!Valid(work.results[i])
                 PROVE  IF work.results[i][s].verdict = "malicious"
                        THEN /\ Rank(work.results[i]) >= 2
                             /\ Rank(Without(work.results[i], s)) <= Rank(work.results[i])
                        ELSE work.results[i][s].verdict # "suspicious" =>
                                Rank(Without(work.results[i], s)) >= Rank(work.results[i])
      BY DEF BadNewsCounts
    <2>1. Scorable(work.results[i])
      BY DEF ScoreInv
    <2> QED
      BY <2>1, OneSource DEF Intel!Bad
  <1> QED
    BY <1>1, <1>2, <1>3, PTL DEF Spec

-----------------------------------------------------------------------------
(* The rules over an event log. When events are added, the findings that    *)
(* weigh are kept, or others that weigh as much take their place.           *)
Extends(events, more) ==
    /\ DOMAIN events \subseteq DOMAIN more /\ IsFiniteSet(DOMAIN more)
    /\ \A i \in DOMAIN events : more[i] = events[i]
Dire(findings) == \E f \in findings : f.severity >= 70
Odd(findings) == \E f \in findings : f.severity >= 70 \/ f.severity = 50
Keeps(before, after) == (Dire(before) => Dire(after)) /\ (Odd(before) => Odd(after))
Kept(before, after) == \A f \in before : f.severity >= 70 \/ f.severity = 50 => f \in after

LEMMA KeptKeeps == \A before, after : Kept(before, after) => Keeps(before, after)
  BY DEF Kept, Keeps, Dire, Odd

LEMMA ClearedKept == \A events, more : Extends(events, more) => Kept(EvtxRules!Cleared(events), EvtxRules!Cleared(more))
  BY DEF Extends, Kept, EvtxRules!Cleared, EvtxRules!If, EvtxRules!Finding, EvtxRules!Seen, EvtxRules!Where, EvtxRules!Of, EvtxRules!CRITICAL

LEMMA PersistenceKept == \A events, more : Extends(events, more) => Kept(EvtxRules!Persistence(events), EvtxRules!Persistence(more))
  BY DEF Extends, Kept, EvtxRules!Persistence, EvtxRules!If, EvtxRules!Finding, EvtxRules!Of, EvtxRules!HIGH

LEMMA LogonsKept == \A events, more : Extends(events, more) => Kept(EvtxRules!Logons(events), EvtxRules!Logons(more))
  BY DEF Extends, Kept, EvtxRules!Logons, EvtxRules!If, EvtxRules!Finding, EvtxRules!Seen, EvtxRules!Where, EvtxRules!Of, EvtxRules!MEDIUM, EvtxRules!LOW

LEMMA RoastedKept == \A events, more : Extends(events, more) => Kept(EvtxRules!Roasted(events), EvtxRules!Roasted(more))
  BY DEF Extends, Kept, EvtxRules!Roasted, EvtxRules!If, EvtxRules!Finding, EvtxRules!Seen, EvtxRules!Where, EvtxRules!Of, EvtxRules!HIGH
LEMMA SharesKept == \A events, more : Extends(events, more) => Kept(EvtxRules!SharesAndPrivileges(events), EvtxRules!SharesAndPrivileges(more))
  BY DEF Extends, Kept, EvtxRules!SharesAndPrivileges, EvtxRules!If, EvtxRules!Finding, EvtxRules!Seen, EvtxRules!Where, EvtxRules!Of, EvtxRules!MEDIUM
LEMMA StoresKept == \A events, more : Extends(events, more) => Kept(EvtxRules!CredentialStores(events), EvtxRules!CredentialStores(more))
  BY DEF Extends, Kept, EvtxRules!CredentialStores, EvtxRules!If, EvtxRules!Finding, EvtxRules!Seen, EvtxRules!Where, EvtxRules!Of, EvtxRules!HIGH, EvtxRules!CRITICAL
LEMMA WmiKept == \A events, more : Extends(events, more) => Kept(EvtxRules!WmiProcesses(events), EvtxRules!WmiProcesses(more))
  BY DEF Extends, Kept, EvtxRules!WmiProcesses, EvtxRules!If, EvtxRules!Finding, EvtxRules!Seen, EvtxRules!Where, EvtxRules!Of, EvtxRules!MEDIUM
LEMMA RegistryKept == \A events, more : Extends(events, more) => Kept(EvtxRules!Registry(events), EvtxRules!Registry(more))
  BY DEF Extends, Kept, EvtxRules!Registry, EvtxRules!If, EvtxRules!Finding, EvtxRules!Seen, EvtxRules!Where, EvtxRules!Of, EvtxRules!HIGH
LEMMA ThreadsKept == \A events, more : Extends(events, more) => Kept(EvtxRules!RemoteThreads(events), EvtxRules!RemoteThreads(more))
  BY DEF Extends, Kept, EvtxRules!RemoteThreads, EvtxRules!If, EvtxRules!Finding, EvtxRules!Seen, EvtxRules!Where, EvtxRules!Of, EvtxRules!CRITICAL
LEMMA GroupsKept == \A events, more : Extends(events, more) => Kept(EvtxRules!GroupChanges(events), EvtxRules!GroupChanges(more))
  BY DEF Extends, Kept, EvtxRules!GroupChanges, EvtxRules!If, EvtxRules!Finding, EvtxRules!Of, EvtxRules!LOW, EvtxRules!HIGH
LEMMA TroubleKept == \A events, more : Extends(events, more) => Kept(EvtxRules!AccountTrouble(events), EvtxRules!AccountTrouble(more))
  BY DEF Extends, Kept, EvtxRules!AccountTrouble, EvtxRules!If, EvtxRules!Finding, EvtxRules!Of, EvtxRules!LOW, EvtxRules!MEDIUM
LEMMA NetworkKept == \A events, more : Extends(events, more) => Kept(EvtxRules!NetworkAndFirewall(events), EvtxRules!NetworkAndFirewall(more))
  BY DEF Extends, Kept, EvtxRules!NetworkAndFirewall, EvtxRules!If, EvtxRules!Finding, EvtxRules!Seen, EvtxRules!Where, EvtxRules!Of, EvtxRules!LOW, EvtxRules!HIGH

(* Defender's finding changes its severity, but not below HIGH.             *)
LEMMA DefenderKeeps ==
    \A events, more : Extends(events, more) => Keeps(EvtxRules!Defender(events), EvtxRules!Defender(more))
  <1> DEFINE Some(events) == EvtxRules!Of(events, {"1116"}) # {} \/ EvtxRules!Of(events, {"1117"}) # {}
  <1>1. \A events : Some(events) => Dire(EvtxRules!Defender(events))
    <2> SUFFICES ASSUME NEW events, Some(events) PROVE Dire(EvtxRules!Defender(events))
      OBVIOUS
    <2>1. CASE EvtxRules!Of(events, {"1116"}) # {}
      <3>1. \/ [rule |-> "defender_threat_detected", severity |-> 90] \in EvtxRules!Defender(events)
            \/ [rule |-> "defender_threat_detected", severity |-> 70] \in EvtxRules!Defender(events)
        BY <2>1 DEF EvtxRules!Defender, EvtxRules!If, EvtxRules!Finding, EvtxRules!HIGH, EvtxRules!CRITICAL
      <3> QED
        BY <3>1 DEF Dire
    <2>2. CASE EvtxRules!Of(events, {"1117"}) # {}
      <3>1. [rule |-> "defender_threat_actioned", severity |-> 70] \in EvtxRules!Defender(events)
        BY <2>2 DEF EvtxRules!Defender, EvtxRules!If, EvtxRules!Finding, EvtxRules!HIGH
      <3> QED
        BY <3>1 DEF Dire
    <2> QED
      BY <2>1, <2>2
  <1>2. \A events : (\E f \in EvtxRules!Defender(events) : TRUE) => Some(events)
    BY DEF EvtxRules!Defender, EvtxRules!If
  <1>3. \A events, more : Extends(events, more) => (Some(events) => Some(more))
    BY DEF Extends, EvtxRules!Of
  <1> QED
    BY <1>1, <1>2, <1>3 DEF Keeps, Dire, Odd

(* A command line that turns out to be encoded is no longer listed as       *)
(* suspicious; the encoded one weighs more.                                 *)
LEMMA ProcessesKeep ==
    \A events, more : Extends(events, more) => Keeps(EvtxRules!Processes(events), EvtxRules!Processes(more))
  <1> SUFFICES ASSUME NEW events, NEW more, Extends(events, more)
               PROVE  Keeps(EvtxRules!Processes(events), EvtxRules!Processes(more))
    OBVIOUS
  <1> DEFINE Lines(log) == {EvtxRules!F(log[i], "CommandLine") : i \in
                              EvtxRules!Where(log, {"4688"}, LAMBDA ev : EvtxRules!F(ev, "CommandLine") \in EvtxRules!Encoded)}
  <1>1. Lines(more) = Lines(events) \/ Lines(more) # {}
    BY DEF Extends, EvtxRules!Where, EvtxRules!Of
  <1>2. Lines(events) # {} => Lines(more) # {}
    BY DEF Extends, EvtxRules!Where, EvtxRules!Of
  <1>3. Lines(more) # {} => Dire(EvtxRules!Processes(more))
    <2> SUFFICES ASSUME Lines(more) # {} PROVE Dire(EvtxRules!Processes(more))
      OBVIOUS
    <2>1. [rule |-> "encoded_powershell", severity |-> 70] \in EvtxRules!Processes(more)
      BY DEF EvtxRules!Processes, EvtxRules!If, EvtxRules!Finding, EvtxRules!HIGH
    <2> QED
      BY <2>1 DEF Dire
  <1>4. CASE Lines(more) # {}
    BY <1>3, <1>4, Zenon DEF Keeps, Dire, Odd
  <1>5. CASE Lines(more) = {}
    <2>1. Lines(events) = {}
      BY <1>2, <1>5, Zenon
    <2>2. Kept(EvtxRules!Processes(events), EvtxRules!Processes(more))
      BY <1>5, <2>1 DEF Extends, Kept, EvtxRules!Processes, EvtxRules!If, EvtxRules!Finding,
         EvtxRules!Seen, EvtxRules!Where, EvtxRules!Of, EvtxRules!HIGH, EvtxRules!MEDIUM
    <2> QED
      BY <2>2, KeptKeeps
  <1> QED
    BY <1>4, <1>5, Zenon

LEMMA GuessedKept ==
    \A events, more : Extends(events, more) => Kept(EvtxRules!Guessed(events), EvtxRules!Guessed(more))
  <1> SUFFICES ASSUME NEW events, NEW more, Extends(events, more)
               PROVE  Kept(EvtxRules!Guessed(events), EvtxRules!Guessed(more))
    OBVIOUS
  <1> DEFINE Failed(log) == EvtxRules!Of(log, {"4625"})
             Victims(log, s) == {EvtxRules!User(log[i]) : i \in {j \in Failed(log) : EvtxRules!FailSource(log[j]) = s}}
             Origins(log) == {EvtxRules!FailSource(log[i]) : i \in Failed(log)} \ {EvtxRules!Blank}
             Fails(log, u) == {i \in Failed(log) : EvtxRules!User(log[i]) = u}
             Sprayed(log) == \E s \in Origins(log) : EvtxRules!Cardinality(Victims(log, s)) >= SprayUsers
             Forced(log) == \E i \in Failed(log) : EvtxRules!Cardinality(Fails(log, EvtxRules!User(log[i]))) >= BruteFails
             Entered(log) == EvtxRules!Seen(log, {"4624"}, LAMBDA ev : Fails(log, EvtxRules!User(ev)) # {})
  <1>1. /\ Failed(events) \subseteq Failed(more) /\ IsFiniteSet(Failed(more))
        /\ \A i \in Failed(events) : more[i] = events[i]
    <2>1. Failed(events) \subseteq Failed(more) /\ \A i \in Failed(events) : more[i] = events[i]
      BY DEF Extends, EvtxRules!Of
    <2>2. Failed(more) \subseteq DOMAIN more /\ IsFiniteSet(DOMAIN more)
      BY DEF Extends, EvtxRules!Of
    <2> QED
      BY <2>1, <2>2, FS_Subset
  <1>2. \A S : EvtxRules!Cardinality(S) = Cardinality(S)
    BY DEF Cardinality, EvtxRules!Cardinality
  <1>3. Entered(events) => Entered(more)
    <2> HIDE DEF Failed
    <2> QED
      BY <1>1 DEF Extends, EvtxRules!Seen, EvtxRules!Where, EvtxRules!Of
  <1>4. Forced(events) => Forced(more)
    <2> SUFFICES ASSUME NEW i \in Failed(events), Cardinality(Fails(events, EvtxRules!User(events[i]))) >= BruteFails
                 PROVE  Cardinality(Fails(more, EvtxRules!User(more[i]))) >= BruteFails /\ i \in Failed(more)
      BY <1>2
    <2> HIDE DEF Failed
    <2> DEFINE u == EvtxRules!User(more[i])
    <2>1. i \in Failed(more) /\ EvtxRules!User(events[i]) = u
      BY <1>1
    <2> HIDE DEF u
    <2>2. Fails(events, u) \subseteq Fails(more, u) /\ Fails(more, u) \subseteq Failed(more)
      BY <1>1
    <2>3. IsFiniteSet(Fails(more, u)) /\ IsFiniteSet(Fails(events, u))
      BY <1>1, <2>2, FS_Subset
    <2> HIDE DEF Fails
    <2>4. /\ Cardinality(Fails(events, u)) <= Cardinality(Fails(more, u))
          /\ Cardinality(Fails(events, u)) \in Nat /\ Cardinality(Fails(more, u)) \in Nat
      BY <2>2, <2>3, FS_Subset, FS_CardinalityType
    <2> QED
      BY <2>1, <2>4, EvtxAssumption DEF u
  <1>5. Sprayed(events) => Sprayed(more)
    <2> SUFFICES ASSUME NEW s \in Origins(events), Cardinality(Victims(events, s)) >= SprayUsers
                 PROVE  Cardinality(Victims(more, s)) >= SprayUsers /\ s \in Origins(more)
      BY <1>2, Zenon
    <2> HIDE DEF Failed
    <2>1. s \in Origins(more) /\ Victims(events, s) \subseteq Victims(more, s)
      BY <1>1
    <2>2. IsFiniteSet(Victims(more, s))
      <3> DEFINE D == {j \in Failed(more) : EvtxRules!FailSource(more[j]) = s}
                 f == [i \in D |-> EvtxRules!User(more[i])]
      <3>1. IsFiniteSet(D)
        BY <1>1, FS_Subset
      <3>2. f \in Surjection(D, Victims(more, s))
        BY DEF Surjection
      <3> QED
        BY <3>1, <3>2, FS_Surjection
    <2> HIDE DEF Victims
    <2>3. /\ Cardinality(Victims(events, s)) <= Cardinality(Victims(more, s))
          /\ Cardinality(Victims(events, s)) \in Nat /\ Cardinality(Victims(more, s)) \in Nat
      BY <2>1, <2>2, FS_Subset, FS_CardinalityType
    <2> QED
      BY <2>1, <2>3, EvtxAssumption
  <1>6. \A log : EvtxRules!Guessed(log) =
           UNION {EvtxRules!If(Sprayed(log), "pass_spray", EvtxRules!HIGH),
                  EvtxRules!If(Forced(log), "bruteforce_logon", EvtxRules!HIGH),
                  EvtxRules!If(Entered(log), "success_after_failures", EvtxRules!HIGH)}
    BY DEF EvtxRules!Guessed
  <1> HIDE DEF Sprayed, Forced, Entered
  <1> QED
    BY <1>3, <1>4, <1>5, <1>6 DEF Kept, EvtxRules!If

LEMMA FindingsKeep ==
    ASSUME NEW events, NEW more, Extends(events, more)
    PROVE  Keeps(EvtxRules!Findings(events), EvtxRules!Findings(more))
  <1>1. /\ Keeps(EvtxRules!Cleared(events), EvtxRules!Cleared(more))
        /\ Keeps(EvtxRules!Roasted(events), EvtxRules!Roasted(more))
        /\ Keeps(EvtxRules!Guessed(events), EvtxRules!Guessed(more))
        /\ Keeps(EvtxRules!Logons(events), EvtxRules!Logons(more))
        /\ Keeps(EvtxRules!Processes(events), EvtxRules!Processes(more))
    BY ClearedKept, RoastedKept, GuessedKept, LogonsKept, ProcessesKeep, KeptKeeps
  <1>2. /\ Keeps(EvtxRules!WmiProcesses(events), EvtxRules!WmiProcesses(more))
        /\ Keeps(EvtxRules!Persistence(events), EvtxRules!Persistence(more))
        /\ Keeps(EvtxRules!GroupChanges(events), EvtxRules!GroupChanges(more))
        /\ Keeps(EvtxRules!SharesAndPrivileges(events), EvtxRules!SharesAndPrivileges(more))
        /\ Keeps(EvtxRules!CredentialStores(events), EvtxRules!CredentialStores(more))
    BY WmiKept, PersistenceKept, GroupsKept, SharesKept, StoresKept, KeptKeeps
  <1>3. /\ Keeps(EvtxRules!Defender(events), EvtxRules!Defender(more))
        /\ Keeps(EvtxRules!NetworkAndFirewall(events), EvtxRules!NetworkAndFirewall(more))
        /\ Keeps(EvtxRules!AccountTrouble(events), EvtxRules!AccountTrouble(more))
        /\ Keeps(EvtxRules!Registry(events), EvtxRules!Registry(more))
        /\ Keeps(EvtxRules!RemoteThreads(events), EvtxRules!RemoteThreads(more))
    BY DefenderKeeps, NetworkKept, TroubleKept, RegistryKept, ThreadsKept, KeptKeeps
  <1>4. \A A, B, C, D : Keeps(A, B) /\ Keeps(C, D) => Keeps(A \cup C, B \cup D)
    BY DEF Keeps, Dire, Odd
  <1> DEFINE First(log) == ((EvtxRules!Cleared(log) \cup EvtxRules!Roasted(log)) \cup (EvtxRules!Guessed(log) \cup EvtxRules!Logons(log)))
                           \cup EvtxRules!Processes(log)
             Second(log) == ((EvtxRules!WmiProcesses(log) \cup EvtxRules!Persistence(log))
                             \cup (EvtxRules!GroupChanges(log) \cup EvtxRules!SharesAndPrivileges(log)))
                            \cup EvtxRules!CredentialStores(log)
             Third(log) == ((EvtxRules!Defender(log) \cup EvtxRules!NetworkAndFirewall(log))
                            \cup (EvtxRules!AccountTrouble(log) \cup EvtxRules!Registry(log)))
                           \cup EvtxRules!RemoteThreads(log)
  <1>5. Keeps(First(events), First(more))
    BY <1>1, <1>4, Zenon
  <1>6. Keeps(Second(events), Second(more))
    BY <1>2, <1>4, Zenon
  <1>7. Keeps(Third(events), Third(more))
    BY <1>3, <1>4, Zenon
  <1>8. \A log : EvtxRules!Findings(log) = (First(log) \cup Second(log)) \cup Third(log)
    BY DEF EvtxRules!Findings
  <1> HIDE DEF First, Second, Third
  <1> QED
    BY <1>4, <1>5, <1>6, <1>7, <1>8, Zenon

LEMMA VerdictRises ==
    ASSUME NEW before, NEW after, Keeps(before, after)
    PROVE  Verdict(before) <= Verdict(after)
  BY DEF Keeps, Dire, Odd, Verdict

(* The events read are a list, which grows at its end.                      *)
EventsInv == kind = "evtx" => "events" \in DOMAIN work /\ \E S : work.events \in Seq(S)

LEMMA OneMore ==
    ASSUME NEW S, NEW events \in Seq(S), NEW e
    PROVE  Extends(events, Append(events, e)) /\ Append(events, e) \in Seq(S \cup {e})
  <1>1. events \in Seq(S \cup {e})
    OBVIOUS
  <1>2. Append(events, e) \in Seq(S \cup {e})
    BY <1>1
  <1>3. /\ DOMAIN Append(events, e) = 1..Len(events) + 1 /\ DOMAIN events = 1..Len(events)
        /\ Len(events) \in Nat
        /\ \A i \in DOMAIN events : Append(events, e)[i] = events[i]
    BY <1>1
  <1>4. IsFiniteSet(1..Len(events) + 1)
    BY <1>3, FS_Interval
  <1> QED
    BY <1>2, <1>3, <1>4 DEF Extends

LEMMA EventsStep ==
    ASSUME kind = "evtx", EventsInv, Log!Next
    PROVE  /\ "events" \in DOMAIN work' /\ \E S : work'.events \in Seq(S)
           /\ Extends(work.events, work'.events)
  <1>1. PICK S : work.events \in Seq(S) /\ "events" \in DOMAIN work
    BY DEF EventsInv
  <1>2. Extends(work.events, work.events)
    <2>1. DOMAIN work.events = 1..Len(work.events) /\ Len(work.events) \in Nat
      BY <1>1
    <2>2. IsFiniteSet(DOMAIN work.events)
      BY <2>1, FS_Interval
    <2> QED
      BY <2>2 DEF Extends
  <1>3. CASE Log!PassWord \/ Log!NextChunk \/ Log!Refuse \/ Log!Finish
    <2>1. work'.events = work.events /\ "events" \in DOMAIN work'
      BY <1>1, <1>3, Zenon DEF Log!PassWord, Log!NextChunk, Log!Refuse, Log!Finish
    <2> QED
      BY <1>1, <1>2, <2>1
  <1>4. CASE Log!ReadRecord
    <2> DEFINE e == Log!DecodeRecord(Log!Chunk, work.cache, Log!Header).event
    <2>1. work'.events = Append(work.events, e) /\ "events" \in DOMAIN work'
      BY <1>1, <1>4 DEF Log!ReadRecord
    <2> HIDE DEF e
    <2>2. Extends(work.events, work'.events) /\ work'.events \in Seq(S \cup {e})
      <3>1. Extends(work.events, Append(work.events, e)) /\ Append(work.events, e) \in Seq(S \cup {e})
        BY <1>1, OneMore, Zenon
      <3> QED
        BY <2>1, <3>1
    <2>3. \E U : work'.events \in Seq(U)
      BY <2>2
    <2> QED
      BY <2>1, <2>2, <2>3
  <1> QED
    BY <1>3, <1>4 DEF Log!Next

LEMMA EventsInit == Init => EventsInv
  <1> SUFFICES ASSUME Init, kind = "evtx" PROVE "events" \in DOMAIN work /\ \E S : work.events \in Seq(S)
    BY DEF EventsInv
  <1>1. Log!Init
    BY DEF Init
  <1>2. work.events = <<>> /\ "events" \in DOMAIN work
    BY <1>1 DEF Log!Init
  <1>3. <<>> \in Seq({})
    OBVIOUS
  <1> QED
    BY <1>2, <1>3

(* In every behaviour: reading on never clears a log. The verdict on the    *)
(* events read so far does not fall when one more is read, for any events   *)
(* (_detect of analyze/evtx.py, AnalyzerReport.verdict).                    *)
THEOREM EvidenceTheorem == Spec => EvidenceAccumulates
  <1>1. Init => EventsInv
    BY EventsInit
  <1>2. EventsInv /\ [Next]_vars => EventsInv'
    <2> SUFFICES ASSUME EventsInv, [Next]_vars, kind' = "evtx" PROVE EventsInv'
      BY DEF EventsInv
    <2>1. CASE UNCHANGED vars
      BY <2>1 DEF vars, EventsInv
    <2>2. CASE Next
      <3>1. kind = "evtx" /\ Log!Next
        BY <2>2 DEF Next
      <3> QED
        BY <3>1, EventsStep DEF EventsInv
    <2> QED
      BY <2>1, <2>2
  <1>3. EventsInv /\ [Next]_vars =>
           [kind = "evtx" => Verdict(EvtxRules!Findings(work.events)) <= Verdict(EvtxRules!Findings(work'.events))]_vars
    <2> SUFFICES ASSUME EventsInv, Next, kind = "evtx"
                 PROVE  Verdict(EvtxRules!Findings(work.events)) <= Verdict(EvtxRules!Findings(work'.events))
      OBVIOUS
    <2>1. Log!Next
      BY DEF Next
    <2>2. Extends(work.events, work'.events)
      BY <2>1, EventsStep
    <2> QED
      BY <2>2, FindingsKeep, VerdictRises
  <1> QED
    BY <1>1, <1>2, <1>3, PTL DEF Spec, EvidenceAccumulates

-----------------------------------------------------------------------------
(* The records of an event log. Of the chunks passed every sound header was *)
(* found or is out of step, of the one under way every one before the place *)
(* reached; what was read there ends before that place, which is a number   *)
(* of words behind the end of the record read last.                         *)
Found(c, w) == (\E p \in Read(c) : Covers(p, w)) \/ OutOfStep(c, w)
FoundBefore(c, end) == \A w \in DOMAIN input.chunks[c].headers : w < end /\ Sound(c, w) => Found(c, w)
Starts(c) == {0} \cup {EndOf(p) : p \in Read(c)}
InStep(s, v) == s \in Nat /\ s <= v /\ (v - s) % 4 = 0
Anchored ==
    \E s \in Starts(work.chunk) : InStep(s, work.pos) /\ \A p \in Read(work.chunk) : p[2] < s
PlacesOK ==
    /\ \E S : work.places \in Seq(S)
    /\ \A p \in ToSet(work.places) :
          /\ p[1] \in DOMAIN input.chunks /\ Sound(p[1], p[2])
          /\ p[1] <= work.chunk /\ (p[1] = work.chunk => EndOf(p) <= work.pos)
    /\ \A p, q \in ToSet(work.places) : p[1] = q[1] /\ p # q => ~Covers(p, q[2])
RecordsInv ==
    kind = "evtx" =>
        /\ input \in Logs /\ DOMAIN work = {"chunk", "pos", "cache", "events", "places", "done"}
        /\ work.chunk \in Nat \ {0} /\ work.pos \in Nat /\ PlacesOK /\ Anchored
        /\ work.chunk \in DOMAIN input.chunks => FoundBefore(work.chunk, work.pos)
        /\ Len(work.events) < MaxEvents =>
              \A c \in DOMAIN input.chunks :
                  c < work.chunk /\ input.chunks[c].magic /\ c <= MaxChunks => FoundBefore(c, ChunkSize)
        /\ work.done => ~Log!Readable \/ work.chunk > Len(input.chunks) \/ work.chunk > MaxChunks

LEMMA LogShape ==
    ASSUME kind = "evtx", RecordsInv
    PROVE  /\ Len(input.chunks) \in Nat /\ DOMAIN input.chunks = 1..Len(input.chunks)
           /\ \A c \in DOMAIN input.chunks : LET headers == input.chunks[c].headers IN
                 \A w \in DOMAIN headers : w \in Nat /\ headers[w].size \in Int
           /\ HeaderSize \in Nat \ {0} /\ ChunkSize \in Nat /\ MaxEvents \in Nat /\ MaxChunks \in Nat
  <1>1. input \in Logs
    BY DEF RecordsInv
  <1>2. input.chunks \in Seq(ToSet(input.chunks))
    BY <1>1, LogsAssumption
  <1>3. \A c \in DOMAIN input.chunks : LET headers == input.chunks[c].headers IN
           \A w \in DOMAIN headers : w \in Nat /\ headers[w].size \in Int
    BY <1>1, LogsAssumption, Zenon
  <1> QED
    BY <1>2, <1>3, LogsAssumption

(* A sound header lies whole in its chunk.                                  *)
LEMMA SoundSizes ==
    ASSUME kind = "evtx", RecordsInv, NEW c \in DOMAIN input.chunks, NEW w, Sound(c, w)
    PROVE  LET size == input.chunks[c].headers[w].size
           IN  /\ w \in DOMAIN input.chunks[c].headers /\ w \in Nat
               /\ size \in Nat \ {0} /\ size >= HeaderSize /\ w + size <= ChunkSize
  <1> DEFINE size == input.chunks[c].headers[w].size
  <1>1. w \in DOMAIN input.chunks[c].headers /\ size >= HeaderSize /\ w + size <= ChunkSize
    BY Zenon DEF Sound
  <1>2. w \in Nat /\ size \in Int /\ HeaderSize \in Nat \ {0}
    BY <1>1, LogShape
  <1> HIDE DEF size
  <1>3. size \in Nat \ {0}
    BY <1>1, <1>2
  <1> QED
    BY <1>1, <1>2, <1>3, Zenon DEF size

(* The bare numbers of the walk, and of the places read.                    *)
LEMMA WalkShape ==
    ASSUME kind = "evtx", RecordsInv
    PROVE  /\ input \in Logs /\ DOMAIN work = {"chunk", "pos", "cache", "events", "places", "done"}
           /\ work.chunk \in Nat \ {0} /\ work.pos \in Nat /\ PlacesOK /\ Anchored
           /\ Len(input.chunks) \in Nat /\ DOMAIN input.chunks = 1..Len(input.chunks)
  BY LogShape DEF RecordsInv

LEMMA PlaceSizes ==
    ASSUME kind = "evtx", RecordsInv, NEW p \in ToSet(work.places)
    PROVE  /\ p[1] \in DOMAIN input.chunks /\ p[1] \in Nat /\ p[1] <= work.chunk
           /\ p[2] \in Nat /\ EndOf(p) \in Nat /\ p[2] < EndOf(p)
           /\ p[1] = work.chunk => EndOf(p) <= work.pos
  <1>1. /\ p[1] \in DOMAIN input.chunks /\ Sound(p[1], p[2])
        /\ p[1] <= work.chunk /\ (p[1] = work.chunk => EndOf(p) <= work.pos)
    BY WalkShape, Zenon DEF PlacesOK
  <1> DEFINE size == input.chunks[p[1]].headers[p[2]].size
  <1>2. p[2] \in Nat /\ size \in Nat \ {0}
    BY <1>1, SoundSizes, Zenon
  <1>3. EndOf(p) = p[2] + size
    BY Zenon DEF EndOf
  <1>4. p[1] \in Nat
    BY <1>1, LogShape
  <1> HIDE DEF size
  <1> QED
    BY <1>1, <1>2, <1>3, <1>4

LEMMA ChunkAtHand ==
    ASSUME kind = "evtx", RecordsInv, work.chunk <= Len(input.chunks)
    PROVE  work.chunk \in DOMAIN input.chunks
  <1> DEFINE c == work.chunk
             n == Len(input.chunks)
  <1>1. c \in Nat \ {0} /\ n \in Nat /\ DOMAIN input.chunks = 1..n /\ c <= n
    BY WalkShape, Zenon
  <1> HIDE DEF c, n
  <1>2. c \in 1..n
    BY <1>1
  <1> QED
    BY <1>1, <1>2, Zenon DEF c

(* The four bytes of a word: one of them is in step, the others are not.    *)
LEMMA WordSteps ==
    ASSUME NEW a \in Nat, NEW s, InStep(s, a)
    PROVE  InStep(s, a + 4) /\ \A v \in Nat : a < v /\ v < a + 4 => s <= v /\ (v - s) % 4 # 0
  BY DEF InStep

LEMMA RecordsInit == Init => RecordsInv
  <1> SUFFICES ASSUME Init, kind = "evtx" PROVE RecordsInv
    BY DEF RecordsInv
  <1>1. /\ input \in Logs
        /\ work = [chunk |-> 1, pos |-> 0, cache |-> <<>>, events |-> <<>>, places |-> <<>>, done |-> FALSE]
    BY DEF Init, Log!Init
  <1>2. work.places \in Seq({}) /\ ToSet(work.places) = {}
    BY <1>1 DEF ToSet
  <1>3. PlacesOK
    BY <1>2 DEF PlacesOK
  <1>4. Anchored
    <2>1. 0 \in Starts(work.chunk) /\ Read(work.chunk) = {} /\ work.pos = 0
      BY <1>1, <1>2 DEF Starts, Read
    <2>2. InStep(0, 0)
      BY DEF InStep
    <2> QED
      BY <2>1, <2>2 DEF Anchored
  <1>5. input.chunks \in Seq(ToSet(input.chunks))
    BY <1>1, LogsAssumption
  <1>6. \A c \in DOMAIN input.chunks : c >= 1 /\ FoundBefore(c, 0)
    <2>1. \A c \in DOMAIN input.chunks : \A w \in DOMAIN input.chunks[c].headers : w \in Nat
      BY <1>1, LogsAssumption, Zenon
    <2>2. \A S, s : s \in Seq(S) => DOMAIN s = 1..Len(s) /\ Len(s) \in Nat
      OBVIOUS
    <2> QED
      BY <1>5, <2>1, <2>2 DEF FoundBefore
  <1>7. \A c \in DOMAIN input.chunks : ~(c < 1)
    BY <1>5, <1>6
  <1>8. /\ work.chunk = 1 /\ work.pos = 0 /\ ~work.done
        /\ DOMAIN work = {"chunk", "pos", "cache", "events", "places", "done"}
    BY <1>1
  <1> QED
    BY <1>1, <1>3, <1>4, <1>6, <1>7, <1>8 DEF RecordsInv

LEMMA PlaceAdded ==
    ASSUME NEW S, NEW s \in Seq(S), NEW x
    PROVE  Append(s, x) \in Seq(S \cup {x}) /\ ToSet(Append(s, x)) = ToSet(s) \cup {x}
  <1> DEFINE t == Append(s, x)
  <1>1. /\ DOMAIN s = 1..Len(s) /\ Len(s) \in Nat
        /\ DOMAIN t = 1..Len(s) + 1 /\ t[Len(s) + 1] = x /\ \A i \in 1..Len(s) : t[i] = s[i]
    OBVIOUS
  <1>2. t \in Seq(S \cup {x})
    OBVIOUS
  <1> HIDE DEF t
  <1>3. \A y : y \in ToSet(t) <=> y \in ToSet(s) \/ y = x
    <2>1. \A y : y \in ToSet(t) <=> \E i \in 1..Len(s) + 1 : y = t[i]
      BY <1>1 DEF ToSet
    <2>2. \A y : y \in ToSet(s) <=> \E i \in 1..Len(s) : y = s[i]
      BY <1>1 DEF ToSet
    <2>3. 1..Len(s) + 1 = 1..Len(s) \cup {Len(s) + 1}
      BY <1>1
    <2> QED
      BY <1>1, <2>1, <2>2, <2>3
  <1> QED
    BY <1>2, <1>3 DEF t

(* A record is read at the place reached.                                   *)
LEMMA RecordRead ==
    ASSUME kind = "evtx", kind' = kind, EventsInv, RecordsInv, Log!ReadRecord
    PROVE  RecordsInv'
  <1>0. PICK c, w, size : c = work.chunk /\ w = work.pos /\ size = Log!Header.size
    BY Zenon
  <1> DEFINE x == <<c, w>>
             decoded == Log!DecodeRecord(Log!Chunk, work.cache, Log!Header)
  <1>1. /\ Log!InChunk /\ Log!IsRecord /\ Len(work.events) < MaxEvents /\ input' = input
        /\ work' = [work EXCEPT !.pos = @ + size, !.cache = decoded.cache,
                                !.events = Append(@, decoded.event), !.places = Append(@, x)]
    BY <1>0 DEF Log!ReadRecord
  <1> HIDE DEF decoded
  <1>2. /\ work'.pos = w + size /\ work'.chunk = c /\ work'.places = Append(work.places, x)
        /\ work'.done = work.done /\ DOMAIN work' = DOMAIN work
        /\ work'.events = Append(work.events, decoded.event)
    BY <1>0, <1>1, WalkShape
  <1>3. /\ c \in Nat \ {0} /\ w \in Nat /\ c \in DOMAIN input.chunks /\ Sound(c, w)
        /\ size \in Nat \ {0} /\ EndOf(x) = w + size /\ x[1] = c /\ x[2] = w
    <2>1. c \in Nat \ {0} /\ w \in Nat /\ c \in DOMAIN input.chunks
      <3>1. work.chunk <= Len(input.chunks)
        BY <1>1, Zenon DEF Log!InChunk
      <3> QED
        BY <1>0, <3>1, ChunkAtHand, WalkShape, Zenon
    <2>2. Sound(c, w)
      BY <1>0, <1>1, Zenon DEF Log!IsRecord, Log!Header, Log!Chunk, Sound
    <2>3. size \in Nat \ {0}
      BY <1>0, <2>1, <2>2, SoundSizes DEF Log!Header, Log!Chunk
    <2>4. x[1] = c /\ x[2] = w
      OBVIOUS
    <2>5. EndOf(x) = w + size
      BY <1>0, <2>4, Zenon DEF EndOf, Log!Header, Log!Chunk
    <2> QED
      BY <2>1, <2>2, <2>3, <2>4, <2>5, Zenon
  <1>4. ToSet(work'.places) = ToSet(work.places) \cup {x} /\ \E S : work'.places \in Seq(S)
    <2>1. PICK S : work.places \in Seq(S)
      BY WalkShape, Zenon DEF PlacesOK
    <2>2. Append(work.places, x) \in Seq(S \cup {x})
      BY <2>1
    <2>3. ToSet(Append(work.places, x)) = ToSet(work.places) \cup {x}
      BY <2>1, PlaceAdded, Zenon
    <2> QED
      BY <1>2, <2>2, <2>3, Zenon
  <1> HIDE DEF x
  <1>5. /\ \A p : EndOf(p)' = EndOf(p)
        /\ \A p, v : Covers(p, v)' = Covers(p, v)
        /\ \A d, v : Sound(d, v)' = Sound(d, v)
    BY <1>1 DEF EndOf, Covers, Sound
  <1>6. /\ Read(c)' = Read(c) \cup {x}
        /\ \A d : d # c => Read(d)' = Read(d)
    BY <1>3, <1>4 DEF Read
  <1>7. \A p \in ToSet(work.places) :
           /\ p[1] \in DOMAIN input.chunks /\ Sound(p[1], p[2]) /\ p[1] \in Nat /\ p[1] <= c
           /\ p[2] \in Nat /\ EndOf(p) \in Nat /\ p[2] < EndOf(p)
           /\ p[1] = c => EndOf(p) <= w
    BY <1>0, PlaceSizes, WalkShape, Zenon DEF PlacesOK
  <1>8. \A p, q \in ToSet(work.places) \cup {x} : p[1] = q[1] /\ p # q => ~Covers(p, q[2])
    <2>1. \A p, q \in ToSet(work.places) : p[1] = q[1] /\ p # q => ~Covers(p, q[2])
      BY WalkShape, Zenon DEF PlacesOK
    <2>2. \A p \in ToSet(work.places) : p[1] = c => ~Covers(p, w) /\ ~Covers(x, p[2])
      <3> SUFFICES ASSUME NEW p \in ToSet(work.places), p[1] = c PROVE ~Covers(p, w) /\ ~Covers(x, p[2])
        OBVIOUS
      <3>1. EndOf(p) <= w /\ EndOf(p) \in Nat /\ p[2] \in Nat /\ p[2] < EndOf(p)
        BY <1>7, Zenon
      <3>2. /\ Covers(p, w) <=> p[2] <= w /\ w < EndOf(p)
            /\ Covers(x, p[2]) <=> w <= p[2] /\ p[2] < EndOf(x)
        BY <1>3, Zenon DEF Covers
      <3>3. w \in Nat
        BY <1>3
      <3> QED
        BY <3>1, <3>2, <3>3
    <2> QED
      BY <1>3, <2>1, <2>2
  <1>9. PlacesOK'
    <2>1. \A p \in ToSet(work.places) \cup {x} :
             /\ p[1] \in DOMAIN input.chunks /\ Sound(p[1], p[2])
             /\ p[1] <= c /\ (p[1] = c => EndOf(p) <= w + size)
      BY <1>3, <1>7
    <2> QED
      BY <1>1, <1>2, <1>4, <1>5, <1>8, <2>1, Zenon DEF PlacesOK
  <1>10. Anchored'
    <2>1. (EndOf(x) \in Starts(work.chunk))'
      BY <1>2, <1>6 DEF Starts, Read
    <2>2. InStep(EndOf(x), work.pos)'
      <3>1. InStep(EndOf(x), EndOf(x))
        BY <1>3 DEF InStep
      <3>2. EndOf(x)' = EndOf(x) /\ work'.pos = EndOf(x)
        BY <1>2, <1>3, <1>5
      <3> QED
        BY <3>1, <3>2
    <2>3. (\A p \in Read(work.chunk) : p[2] < EndOf(x))'
      <3>1. \A p \in Read(c) \cup {x} : p[2] < EndOf(x)
        <4>1. \A p \in Read(c) : p \in ToSet(work.places) /\ p[1] = c
          BY DEF Read
        <4> QED
          BY <1>3, <1>7, <4>1
      <3>2. Read(work.chunk)' = Read(c) \cup {x}
        BY <1>2, <1>6 DEF Read
      <3> QED
        BY <1>5, <3>1, <3>2
    <2> QED
      BY <2>1, <2>2, <2>3, Zenon DEF Anchored
  <1>11. ASSUME NEW d \in DOMAIN input.chunks, NEW v \in DOMAIN input.chunks[d].headers, Found(d, v), d = c => v < w
         PROVE  Found(d, v)'
    <2>1. CASE \E p \in Read(d) : Covers(p, v)
      BY <1>5, <1>6, <2>1 DEF Found
    <2>2. CASE OutOfStep(d, v)
      <3>1. PICK s \in {0} \cup {EndOf(p) : p \in Read(d)} :
               s <= v /\ (v - s) % 4 # 0 /\ \A p \in Read(d) : p[2] < s \/ v < p[2]
        BY <2>2, Zenon DEF OutOfStep
      <3>2. \A p \in Read(d)' : p \in Read(d) \/ v < p[2]
        BY <1>3, <1>6, <1>11
      <3>3. \A p \in Read(d) : p \in Read(d)'
        BY <1>6
      <3>4. s \in {0} \cup {EndOf(p)' : p \in Read(d)'}
        BY <1>5, <3>1, <3>3
      <3> QED
        BY <3>1, <3>2, <3>4, Zenon DEF OutOfStep, Found
    <2> QED
      BY <1>11, <2>1, <2>2 DEF Found
  <1>12. FoundBefore(c, w + size)'
    <2> SUFFICES ASSUME NEW v \in DOMAIN input.chunks[c].headers, v < w + size, Sound(c, v)
                 PROVE  Found(c, v)'
      BY <1>1, <1>5, Zenon DEF FoundBefore
    <2>1. v \in Nat
      BY <1>3, LogShape
    <2>2. CASE v < w
      <3>1. FoundBefore(c, w)
        BY <1>0, <1>3 DEF RecordsInv
      <3> QED
        BY <1>3, <1>11, <2>2, <3>1 DEF FoundBefore
    <2>3. CASE ~(v < w)
      <3>1. w <= v /\ v < EndOf(x)
        BY <1>3, <2>1, <2>3
      <3>2. Covers(x, v)' /\ x \in Read(c)'
        BY <1>3, <1>5, <1>6, <3>1 DEF Covers
      <3> QED
        BY <3>2 DEF Found
    <2> QED
      BY <2>2, <2>3
  <1>13. ~work.done /\ w + size \in Nat /\ Len(work.events) \in Nat /\ Len(work'.events) = Len(work.events) + 1
    <2>1. ~work.done
      BY <1>1, Zenon DEF Log!InChunk
    <2>2. \E S : work.events \in Seq(S)
      BY DEF EventsInv
    <2> QED
      BY <1>2, <1>3, <2>1, <2>2
  <1>14. \A d \in DOMAIN input.chunks :
            d < c /\ input.chunks[d].magic /\ d <= MaxChunks => FoundBefore(d, ChunkSize)'
    <2> SUFFICES ASSUME NEW d \in DOMAIN input.chunks, d < c, input.chunks[d].magic, d <= MaxChunks
                 PROVE  FoundBefore(d, ChunkSize)'
      OBVIOUS
    <2>1. FoundBefore(d, ChunkSize) /\ d # c
      BY <1>0, <1>1, <1>3, LogShape DEF RecordsInv
    <2> QED
      BY <1>1, <1>5, <1>11, <2>1 DEF FoundBefore
  <1>15. (work.chunk \in DOMAIN input.chunks => FoundBefore(work.chunk, work.pos))'
    BY <1>1, <1>2, <1>12, Zenon DEF FoundBefore
  <1>16. (\A d \in DOMAIN input.chunks :
              d < work.chunk /\ input.chunks[d].magic /\ d <= MaxChunks => FoundBefore(d, ChunkSize))'
    BY <1>1, <1>2, <1>14, Zenon
  <1>17. /\ input' \in Logs /\ DOMAIN work' = {"chunk", "pos", "cache", "events", "places", "done"}
         /\ work'.chunk \in Nat \ {0} /\ work'.pos \in Nat /\ ~work'.done
    BY <1>1, <1>2, <1>3, <1>13, WalkShape
  <1> QED
    BY <1>9, <1>10, <1>15, <1>16, <1>17 DEF RecordsInv

(* The place reached moves on over what is no record.                       *)
LEMMA PlaceMoves ==
    ASSUME kind = "evtx", kind' = kind, RecordsInv, input' = input, DOMAIN work' = DOMAIN work,
           work'.places = work.places, work'.events = work.events
    PROVE  /\ \A d : Read(d)' = Read(d) /\ Starts(d)' = Starts(d)
           /\ \A p : EndOf(p)' = EndOf(p)
           /\ \A p, v : Covers(p, v)' = Covers(p, v)
           /\ \A d, v : Sound(d, v)' = Sound(d, v)
           /\ \A d, end : FoundBefore(d, end)' <=> FoundBefore(d, end)
           /\ Log!Readable' = Log!Readable
  BY DEF FoundBefore, Found, OutOfStep, Starts, Read, EndOf, Covers, Sound, Log!Readable

LEMMA RecordsStep ==
    ASSUME kind = "evtx", kind' = kind, EventsInv, RecordsInv, Log!Next
    PROVE  RecordsInv'
  <1>1. CASE Log!ReadRecord
    BY <1>1, RecordRead
  <1>2. CASE Log!PassWord
    <2>0. PICK c, w : c = work.chunk /\ w = work.pos
      BY Zenon
    <2>1. /\ Log!InChunk /\ ~Log!IsRecord /\ input' = input
          /\ work' = [work EXCEPT !.pos = @ + 4]
      BY <1>2 DEF Log!PassWord
    <2>2. /\ work'.pos = w + 4 /\ work'.chunk = c /\ work'.places = work.places
          /\ work'.done = work.done /\ DOMAIN work' = DOMAIN work /\ work'.events = work.events
      BY <2>0, <2>1, WalkShape
    <2>3. ~Sound(c, w)
      BY <2>0, <2>1, Zenon DEF Log!IsRecord, Log!Header, Log!Chunk, Sound
    <2>4. c \in DOMAIN input.chunks /\ FoundBefore(c, w) /\ c \in Nat \ {0} /\ w \in Nat
      BY <2>0, <2>1, ChunkAtHand DEF RecordsInv, Log!InChunk
    <2>5. PICK s \in Starts(c) : InStep(s, w) /\ \A p \in Read(c) : p[2] < s
      BY <2>0, WalkShape, Zenon DEF Anchored
    <2>6. InStep(s, w + 4) /\ \A v \in Nat : w < v /\ v < w + 4 => s <= v /\ (v - s) % 4 # 0
      BY <2>4, <2>5, WordSteps, Zenon
    <2>7. FoundBefore(c, w + 4)
      <3> SUFFICES ASSUME NEW v \in DOMAIN input.chunks[c].headers, v < w + 4, Sound(c, v)
                   PROVE  Found(c, v)
        BY DEF FoundBefore
      <3>1. v \in Nat /\ v # w
        BY <2>3, <2>4, LogShape
      <3>2. CASE v < w
        BY <2>4, <3>2 DEF FoundBefore
      <3>3. CASE ~(v < w)
        <4>1. w < v
          BY <2>4, <3>1, <3>3
        <4>2. s <= v /\ (v - s) % 4 # 0
          BY <2>6, <3>1, <4>1
        <4>3. s \in {0} \cup {EndOf(p) : p \in Read(c)}
          BY <2>5 DEF Starts
        <4> QED
          BY <2>5, <4>2, <4>3, Zenon DEF Found, OutOfStep
      <3> QED
        BY <3>2, <3>3
    <2>8. PlacesOK'
      <3>1. \A p \in ToSet(work.places) : p[1] = c => EndOf(p) <= w + 4
        <4> SUFFICES ASSUME NEW p \in ToSet(work.places), p[1] = c PROVE EndOf(p) <= w + 4
          OBVIOUS
        <4>1. EndOf(p) \in Nat /\ EndOf(p) <= w
          BY <2>0, PlaceSizes
        <4> QED
          BY <2>4, <4>1
      <3> QED
        BY <2>0, <2>1, <2>2, <3>1, WalkShape, Zenon DEF PlacesOK, Covers, EndOf, Sound
    <2>9. Anchored'
      <3>1. (s \in Starts(work.chunk) /\ \A p \in Read(work.chunk) : p[2] < s)'
        BY <2>1, <2>2, <2>5 DEF Starts, Read, EndOf
      <3> QED
        BY <2>2, <2>6, <3>1, Zenon DEF Anchored
    <2>10. ~work.done /\ w + 4 \in Nat
      BY <2>1, <2>4 DEF Log!InChunk
    <2>11. (work.chunk \in DOMAIN input.chunks => FoundBefore(work.chunk, work.pos))'
      BY <2>1, <2>2, <2>7, PlaceMoves
    <2>12. (Len(work.events) < MaxEvents =>
              \A d \in DOMAIN input.chunks :
                  d < work.chunk /\ input.chunks[d].magic /\ d <= MaxChunks => FoundBefore(d, ChunkSize))'
      BY <2>0, <2>1, <2>2, PlaceMoves DEF RecordsInv
    <2>13. /\ input' \in Logs /\ work'.chunk \in Nat \ {0} /\ work'.pos \in Nat /\ ~work'.done
           /\ DOMAIN work' = {"chunk", "pos", "cache", "events", "places", "done"}
      BY <2>1, <2>2, <2>4, <2>10, WalkShape
    <2> QED
      BY <2>8, <2>9, <2>11, <2>12, <2>13 DEF RecordsInv
  <1>3. CASE Log!NextChunk
    <2>1. /\ ~work.done /\ Log!Readable /\ work.chunk <= Len(input.chunks) /\ work.chunk <= MaxChunks
          /\ Log!InChunk => Log!IsRecord /\ Len(work.events) >= MaxEvents
          /\ input' = input
          /\ work' = [work EXCEPT !.chunk = @ + 1, !.pos = 0, !.cache = Log!NoCache]
      BY <1>3 DEF Log!NextChunk
    <2>2. /\ work'.pos = 0 /\ work'.chunk = work.chunk + 1 /\ work'.places = work.places
          /\ work'.done = work.done /\ DOMAIN work' = DOMAIN work /\ work'.events = work.events
      BY <2>1, WalkShape
    <2>3. work.chunk \in Nat \ {0} /\ work.pos \in Nat /\ work.chunk \in DOMAIN input.chunks
      BY <2>1, WalkShape, ChunkAtHand, Zenon
    <2>4. \A p \in ToSet(work.places) : p[1] <= work.chunk + 1 /\ p[1] # work.chunk + 1
      <3> SUFFICES ASSUME NEW p \in ToSet(work.places) PROVE p[1] <= work.chunk + 1 /\ p[1] # work.chunk + 1
        OBVIOUS
      <3>1. p[1] \in Nat /\ p[1] <= work.chunk
        BY PlaceSizes
      <3> QED
        BY <2>3, <3>1
    <2>5. PlacesOK'
      BY <2>1, <2>2, <2>4, WalkShape, Zenon DEF PlacesOK, Covers, EndOf, Sound
    <2>6. Anchored'
      <3>1. (0 \in Starts(work.chunk) /\ Read(work.chunk) = {})'
        BY <2>2, <2>4 DEF Starts, Read
      <3>2. InStep(0, 0)
        BY DEF InStep
      <3> QED
        BY <2>2, <3>1, <3>2 DEF Anchored
    <2>7. \A d \in DOMAIN input.chunks : FoundBefore(d, 0)
      BY LogShape DEF FoundBefore
    <2>8. ASSUME Len(work.events) < MaxEvents, input.chunks[work.chunk].magic
          PROVE  FoundBefore(work.chunk, ChunkSize)
      <3>1. Len(work.events) \in Nat
        BY DEF EventsInv
      <3>2. ~(work.pos + HeaderSize <= ChunkSize)
        BY <2>1, <2>8, <3>1, LogShape DEF Log!InChunk, Log!Chunk
      <3>3. \A v \in DOMAIN input.chunks[work.chunk].headers : Sound(work.chunk, v) => v < work.pos
        <4> SUFFICES ASSUME NEW v \in DOMAIN input.chunks[work.chunk].headers, Sound(work.chunk, v)
                     PROVE  v < work.pos
          OBVIOUS
        <4> DEFINE size == input.chunks[work.chunk].headers[v].size
        <4>1. /\ v \in Nat /\ size \in Nat /\ size >= HeaderSize
              /\ v + size <= ChunkSize /\ ChunkSize \in Nat /\ HeaderSize \in Nat
          BY <2>3, LogShape, SoundSizes
        <4> HIDE DEF size
        <4> QED
          BY <2>3, <3>2, <4>1
      <3> QED
        BY <2>3, <3>3 DEF RecordsInv, FoundBefore
    <2>9. Len(work.events) < MaxEvents =>
             \A d \in DOMAIN input.chunks :
                 d < work.chunk + 1 /\ input.chunks[d].magic /\ d <= MaxChunks => FoundBefore(d, ChunkSize)
      <3>1. \A d \in DOMAIN input.chunks : d < work.chunk + 1 => d < work.chunk \/ d = work.chunk
        BY <2>3, LogShape
      <3> QED
        BY <2>8, <3>1 DEF RecordsInv
    <2>10. (Len(work.events) < MaxEvents =>
              \A d \in DOMAIN input.chunks :
                  d < work.chunk /\ input.chunks[d].magic /\ d <= MaxChunks => FoundBefore(d, ChunkSize))'
      BY <2>1, <2>2, <2>9, PlaceMoves
    <2>11. (work.chunk \in DOMAIN input.chunks => FoundBefore(work.chunk, work.pos))'
      BY <2>1, <2>2, <2>7, PlaceMoves
    <2>12. /\ input' \in Logs /\ work'.chunk \in Nat \ {0} /\ work'.pos \in Nat /\ ~work'.done
           /\ DOMAIN work' = {"chunk", "pos", "cache", "events", "places", "done"}
      BY <2>1, <2>2, <2>3 DEF RecordsInv
    <2> QED
      BY <2>5, <2>6, <2>10, <2>11, <2>12 DEF RecordsInv
  <1>4. CASE Log!Refuse \/ Log!Finish
    <2>1. /\ input' = input /\ work' = [work EXCEPT !.done = TRUE]
          /\ ~Log!Readable \/ work.chunk > Len(input.chunks) \/ work.chunk > MaxChunks
      BY <1>4 DEF Log!Refuse, Log!Finish
    <2>2. /\ work'.pos = work.pos /\ work'.chunk = work.chunk /\ work'.places = work.places
          /\ DOMAIN work' = DOMAIN work /\ work'.events = work.events
      BY <2>1, WalkShape
    <2>3. PlacesOK'
      BY <2>1, <2>2, WalkShape, Zenon DEF PlacesOK, Covers, EndOf, Sound
    <2>4. (~Log!Readable \/ work.chunk > Len(input.chunks) \/ work.chunk > MaxChunks)'
      BY <2>1, <2>2 DEF Log!Readable
    <2>5. (work.chunk \in DOMAIN input.chunks => FoundBefore(work.chunk, work.pos))'
      BY <2>1, <2>2, PlaceMoves DEF RecordsInv
    <2>6. (Len(work.events) < MaxEvents =>
              \A c \in DOMAIN input.chunks :
                  c < work.chunk /\ input.chunks[c].magic /\ c <= MaxChunks => FoundBefore(c, ChunkSize))'
      BY <2>1, <2>2, PlaceMoves DEF RecordsInv
    <2>7. input' \in Logs /\ work'.chunk \in Nat \ {0} /\ work'.pos \in Nat
          /\ DOMAIN work' = {"chunk", "pos", "cache", "events", "places", "done"}
      BY <2>1, <2>2, WalkShape
    <2>8. Anchored'
      BY <2>1, <2>2, WalkShape, Zenon DEF Anchored, Starts, Read, EndOf
    <2> QED
      BY <2>3, <2>4, <2>5, <2>6, <2>7, <2>8 DEF RecordsInv
  <1> QED
    BY <1>1, <1>2, <1>3, <1>4 DEF Log!Next

(* Templates. What a cache holds are the templates of the chunk at hand, so *)
(* that a template looked up does not depend on what was cached before.     *)
TemplatesOf(chunk, cache) ==
    \A o \in DOMAIN cache : o \in DOMAIN chunk.templates /\ cache[o] = Log!ParseTemplate(chunk.templates[o])
TemplateAt(chunk, o) ==
    IF o \in DOMAIN chunk.templates THEN Log!ParseTemplate(chunk.templates[o]) ELSE Log!NoTemplate

LEMMA TemplateKnown ==
    ASSUME NEW chunk, NEW cache, TemplatesOf(chunk, cache), NEW o
    PROVE  /\ Log!Known(chunk, cache, o) = TemplateAt(chunk, o)
           /\ TemplatesOf(chunk, Log!Cached(chunk, cache, o))
  <1>1. Log!Known(chunk, cache, o) = TemplateAt(chunk, o)
    BY Zenon DEF TemplatesOf, TemplateAt, Log!Known
  <1>2. CASE o \notin DOMAIN chunk.templates
    BY <1>1, <1>2, Zenon DEF Log!Cached
  <1>3. CASE o \in DOMAIN chunk.templates
    <2> DEFINE put == Log!Put(cache, o, Log!Known(chunk, cache, o))
    <2>1. Log!Cached(chunk, cache, o) = put
      BY <1>3, Zenon DEF Log!Cached
    <2>2. DOMAIN put = DOMAIN cache \cup {o} /\ put[o] = Log!Known(chunk, cache, o)
          /\ \A p \in DOMAIN put : p # o => put[p] = cache[p] /\ p \in DOMAIN cache
      BY DEF Log!Put
    <2>3. Log!Known(chunk, cache, o) = Log!ParseTemplate(chunk.templates[o])
      BY <1>1, <1>3, Zenon DEF TemplateAt
    <2> HIDE DEF put
    <2>4. TemplatesOf(chunk, put)
      BY <1>3, <2>2, <2>3, Zenon DEF TemplatesOf
    <2> QED
      BY <1>1, <2>1, <2>4, Zenon
  <1> QED
    BY <1>2, <1>3

(* Two decodings are alike if they differ in what they cached.              *)
Decoding(chunk, s) ==
    DOMAIN s = {"elems", "attr", "fields", "cache", "stop"} /\ TemplatesOf(chunk, s.cache)
Alike(chunk, s, t) ==
    /\ Decoding(chunk, s) /\ Decoding(chunk, t)
    /\ s.elems = t.elems /\ s.attr = t.attr /\ s.fields = t.fields /\ s.stop = t.stop

LEMMA BlobAlike ==
    ASSUME NEW chunk, NEW s, NEW t, Alike(chunk, s, t), NEW blob
    PROVE  Alike(chunk, Log!ApplyBlob(chunk, s, blob), Log!ApplyBlob(chunk, t, blob))
  <1> DEFINE o == blob.offset
             names == TemplateAt(chunk, o).names
             fields == Log!FilledBy(s.fields, names, blob.values)
             next(x) == [x EXCEPT !.cache = Log!Cached(chunk, @, o), !.fields = fields]
  <1>1. /\ Log!Known(chunk, s.cache, o) = TemplateAt(chunk, o) /\ TemplatesOf(chunk, Log!Cached(chunk, s.cache, o))
        /\ Log!Known(chunk, t.cache, o) = TemplateAt(chunk, o) /\ TemplatesOf(chunk, Log!Cached(chunk, t.cache, o))
    BY TemplateKnown DEF Alike, Decoding
  <1>2. CASE blob.cut \/ Len(blob.values) > MaxValues
    BY <1>2 DEF Log!ApplyBlob
  <1>3. CASE ~(blob.cut \/ Len(blob.values) > MaxValues)
    <2>1. Log!ApplyBlob(chunk, s, blob) = next(s) /\ Log!ApplyBlob(chunk, t, blob) = next(t)
      <3>1. s.fields = t.fields
        BY DEF Alike
      <3> QED
        BY <1>1, <1>3, <3>1, Zenon DEF Log!ApplyBlob
    <2>2. Alike(chunk, next(s), next(t))
      <3> HIDE DEF fields
      <3> QED
        BY <1>1 DEF Alike, Decoding
    <2> QED
      BY <2>1, <2>2, Zenon
  <1> QED
    BY <1>2, <1>3, Zenon

LEMMA ValueAlike ==
    ASSUME NEW chunk, NEW s, NEW t, Alike(chunk, s, t), NEW names, NEW i, NEW value
    PROVE  Alike(chunk, Log!TemplateValue(chunk, s, names, i, value), Log!TemplateValue(chunk, t, names, i, value))
  <1> DEFINE n == Log!Get(names, i, "")
             name == IF n = "" THEN Log!SystemSubst(i) ELSE n
             next(x) == [x EXCEPT !.fields = Log!Filled(@, name, value)]
  <1>1. CASE value.null
    BY <1>1, Zenon DEF Log!TemplateValue
  <1>2. CASE ~value.null /\ value.type = "bxml"
    BY <1>2, BlobAlike, Zenon DEF Log!TemplateValue
  <1>3. CASE ~value.null /\ value.type # "bxml"
    <2>1. /\ Log!TemplateValue(chunk, s, names, i, value) = next(s)
          /\ Log!TemplateValue(chunk, t, names, i, value) = next(t)
      BY <1>3, Zenon DEF Log!TemplateValue
    <2>2. Alike(chunk, next(s), next(t))
      <3> HIDE DEF name
      <3> QED
        BY DEF Alike, Decoding
    <2> QED
      BY <2>1, <2>2, Zenon
  <1> QED
    BY <1>1, <1>2, <1>3, Zenon

(* An instance of a template is applied a value at a time.                  *)
LEMMA TemplateRuns ==
    ASSUME NEW chunk, NEW s, NEW tok, Len(tok.values) \in Nat, ~(tok.cut \/ Len(tok.values) > MaxValues),
           TemplatesOf(chunk, s.cache)
    PROVE  LET k == Len(tok.values)
               template == TemplateAt(chunk, tok.offset)
           IN  \E f : /\ f[0] = [s EXCEPT !.cache = Log!Cached(chunk, @, tok.offset)]
                      /\ \A n \in 1..k : f[n] = Log!TemplateValue(chunk, f[n - 1], template.names, n - 1, tok.values[n])
                      /\ Log!ApplyTemplate(chunk, s, tok) = [f[k] EXCEPT !.fields = Log!Completed(@, template.literals)]
  <1> DEFINE k == Len(tok.values)
             template == TemplateAt(chunk, tok.offset)
             start == [s EXCEPT !.cache = Log!Cached(chunk, @, tok.offset)]
             Step(x, n) == Log!TemplateValue(chunk, x, template.names, n - 1, tok.values[n])
             R(f) == f = [n \in 0..k |-> IF n = 0 THEN start ELSE Step(f[n - 1], n)]
             after == CHOOSE f : R(f)
             Good(m) == \E f : f = [n \in 0..m |-> IF n = 0 THEN start ELSE Step(f[n - 1], n)]
             Bad == {m \in Nat : ~Good(m)}
  <1>1. Log!ApplyTemplate(chunk, s, tok) = [after[k] EXCEPT !.fields = Log!Completed(@, template.literals)]
    <2>1. Log!Known(chunk, s.cache, tok.offset) = template
      BY TemplateKnown, Zenon
    <2> QED
      BY <2>1, Zenon DEF Log!ApplyTemplate
  <1> HIDE DEF start, Step
  <1>2. Good(0)
    <2> DEFINE f == [n \in 0..0 |-> start]
    <2>1. f = [n \in 0..0 |-> IF n = 0 THEN start ELSE Step(f[n - 1], n)]
      OBVIOUS
    <2> QED
      BY <2>1
  <1>3. ASSUME NEW m \in Nat, Good(m) PROVE Good(m + 1)
    <2>1. PICK f : f = [n \in 0..m |-> IF n = 0 THEN start ELSE Step(f[n - 1], n)]
      BY <1>3
    <2> DEFINE g == [n \in 0..(m + 1) |-> IF n = m + 1 THEN Step(f[m], m + 1) ELSE f[n]]
    <2>2. \A n \in 0..(m + 1) : g[n] = IF n = 0 THEN start ELSE Step(g[n - 1], n)
      <3> SUFFICES ASSUME NEW n \in 0..(m + 1) PROVE g[n] = IF n = 0 THEN start ELSE Step(g[n - 1], n)
        OBVIOUS
      <3>1. CASE n = m + 1
        <4>1. n # 0 /\ n - 1 = m /\ m \in 0..(m + 1) /\ m # m + 1
          BY <3>1
        <4>2. g[n] = Step(f[m], m + 1) /\ g[m] = f[m]
          BY <3>1, <4>1
        <4> QED
          BY <3>1, <4>1, <4>2, Zenon
      <3>2. CASE n # m + 1
        <4>1. n \in 0..m /\ g[n] = f[n]
          BY <3>2
        <4>2. n # 0 => n - 1 \in 0..(m + 1) /\ n - 1 # m + 1
          BY <4>1
        <4>3. n # 0 => g[n - 1] = f[n - 1]
          BY <4>2
        <4>4. f[n] = IF n = 0 THEN start ELSE Step(f[n - 1], n)
          BY <2>1, <4>1, Zenon
        <4> QED
          BY <4>1, <4>3, <4>4, Zenon
      <3> QED
        BY <3>1, <3>2
    <2>3. g = [n \in 0..(m + 1) |-> g[n]]
      OBVIOUS
    <2> HIDE DEF g
    <2>4. g = [n \in 0..(m + 1) |-> IF n = 0 THEN start ELSE Step(g[n - 1], n)]
      BY <2>2, <2>3, Zenon
    <2> QED
      BY <2>4
  <1>4. Good(k)
    <2> SUFFICES ASSUME ~Good(k) PROVE FALSE
      OBVIOUS
    <2> HIDE DEF Good
    <2>1. Bad \subseteq Nat /\ Bad # {}
      OBVIOUS
    <2>2. PICK m \in Bad : \A j \in Bad : m <= j
      BY <2>1, LeastNatural, Zenon
    <2>3. m # 0 /\ m \in Nat /\ ~Good(m)
      BY <1>2, <2>2
    <2>4. m - 1 \in Nat /\ (m - 1) + 1 = m /\ ~(m <= m - 1)
      BY <2>3
    <2>5. Good(m - 1)
      BY <2>2, <2>4
    <2> QED
      BY <1>3, <2>3, <2>4, <2>5
  <1>5. R(after)
    <2>1. \E f : R(f)
      BY <1>4
    <2> HIDE DEF R
    <2> QED
      BY <2>1
  <1> HIDE DEF after
  <1>6. after[0] = start /\ \A n \in 1..k : after[n] = Step(after[n - 1], n)
    <2>1. \A n \in 0..k : after[n] = IF n = 0 THEN start ELSE Step(after[n - 1], n)
      BY <1>5, Zenon
    <2>2. 0 \in 0..k /\ \A n \in 1..k : n \in 0..k /\ n # 0
      OBVIOUS
    <2> QED
      BY <2>1, <2>2, Zenon
  <1> QED
    BY <1>1, <1>6, Zenon DEF start, Step

(* Alike decodings stay alike over an instance of a template.               *)
LEMMA TemplateAlike ==
    ASSUME NEW chunk, NEW s, NEW t, Alike(chunk, s, t), NEW tok, Len(tok.values) \in Nat
    PROVE  Alike(chunk, Log!ApplyTemplate(chunk, s, tok), Log!ApplyTemplate(chunk, t, tok))
  <1> DEFINE k == Len(tok.values)
             template == TemplateAt(chunk, tok.offset)
             start(x) == [x EXCEPT !.cache = Log!Cached(chunk, @, tok.offset)]
             Step(x, n) == Log!TemplateValue(chunk, x, template.names, n - 1, tok.values[n])
             end(x) == [x EXCEPT !.fields = Log!Completed(@, template.literals)]
             Run(f, x) == /\ f[0] = start(x)
                          /\ \A n \in 1..k : f[n] = Step(f[n - 1], n)
  <1>1. CASE tok.cut \/ k > MaxValues
    BY <1>1, Zenon DEF Log!ApplyTemplate
  <1>2. CASE ~(tok.cut \/ k > MaxValues)
    <2>1. /\ TemplatesOf(chunk, Log!Cached(chunk, s.cache, tok.offset))
          /\ TemplatesOf(chunk, Log!Cached(chunk, t.cache, tok.offset))
      BY TemplateKnown DEF Alike, Decoding
    <2>2. PICK f : Run(f, s) /\ Log!ApplyTemplate(chunk, s, tok) = end(f[k])
      BY <1>2, TemplateRuns DEF Alike, Decoding
    <2>3. PICK g : Run(g, t) /\ Log!ApplyTemplate(chunk, t, tok) = end(g[k])
      BY <1>2, TemplateRuns DEF Alike, Decoding
    <2>4. Alike(chunk, start(s), start(t))
      BY <2>1 DEF Alike, Decoding
    <2> DEFINE Bad == {n \in 0..k : ~Alike(chunk, f[n], g[n])}
    <2>5. Bad = {}
      <3> SUFFICES ASSUME Bad # {} PROVE FALSE
        OBVIOUS
      <3>1. Bad \subseteq Nat
        OBVIOUS
      <3>2. PICK n \in Bad : \A m \in Bad : n <= m
        BY <3>1, LeastNatural, Zenon
      <3>3. n # 0
        <4>1. f[0] = start(s) /\ g[0] = start(t)
          BY <2>2, <2>3, Zenon
        <4>2. Alike(chunk, f[0], g[0])
          BY <2>4, <4>1, Zenon
        <4> QED
          BY <3>2, <4>2
      <3>4. n \in 1..k /\ n - 1 \in 0..k /\ ~(n <= n - 1) /\ ~Alike(chunk, f[n], g[n])
        BY <3>2, <3>3
      <3>5. Alike(chunk, f[n - 1], g[n - 1])
        BY <3>2, <3>4
      <3>6. f[n] = Step(f[n - 1], n) /\ g[n] = Step(g[n - 1], n)
        BY <2>2, <2>3, <3>4, Zenon
      <3>7. Alike(chunk, Step(f[n - 1], n), Step(g[n - 1], n))
        BY <3>5, ValueAlike, Zenon
      <3> QED
        BY <3>4, <3>6, <3>7, Zenon
    <2>6. Alike(chunk, f[k], g[k])
      <3>1. k \in 0..k
        OBVIOUS
      <3> QED
        BY <2>5, <3>1, Zenon
    <2> HIDE DEF template
    <2>7. Alike(chunk, end(f[k]), end(g[k]))
      BY <2>6 DEF Alike, Decoding
    <2> QED
      BY <2>2, <2>3, <2>7, Zenon
  <1> QED
    BY <1>1, <1>2

(* They stay alike over a value written in the record.                      *)
LEMMA WrittenAlike ==
    ASSUME NEW chunk, NEW s, NEW t, Alike(chunk, s, t), NEW value
    PROVE  Alike(chunk, Log!RecordValue(s, value), Log!RecordValue(t, value))
  <1> QED
    BY DEF Log!RecordValue, Alike, Decoding

(* A token of a record, whatever it is, keeps two decodings alike.          *)
Full(s) == s.stop \/ Log!Cardinality(DOMAIN s.fields) >= MaxFields
LEMMA TokenAlike ==
    ASSUME NEW chunk, NEW s, NEW t, Alike(chunk, s, t), NEW tok, tok.t = "template" => Len(tok.values) \in Nat
    PROVE  Alike(chunk, Log!RecordToken(chunk, s, tok), Log!RecordToken(chunk, t, tok))
  <1>1. Full(s) = Full(t) /\ s.elems = t.elems
    <2>1. s.elems = t.elems /\ s.fields = t.fields /\ s.stop = t.stop
      BY DEF Alike
    <2> QED
      BY <2>1, Zenon DEF Full
  <1>2. CASE Full(s)
    <2>1. Log!RecordToken(chunk, s, tok) = s /\ Log!RecordToken(chunk, t, tok) = t
      BY <1>1, <1>2, Zenon DEF Full, Log!RecordToken
    <2> QED
      BY <2>1, Zenon
  <1>3. CASE ~Full(s)
    <2> DEFINE value == Log!Decode(tok.value)
               v(x) == Log!RecordValue(x, value)
    <2>0. ~Full(t)
      BY <1>1, <1>3
    <2>1. CASE tok.t = "template"
      <3>1. Log!RecordToken(chunk, s, tok) = Log!ApplyTemplate(chunk, s, tok)
            /\ Log!RecordToken(chunk, t, tok) = Log!ApplyTemplate(chunk, t, tok)
        BY <1>3, <2>0, <2>1 DEF Full, Log!RecordToken
      <3> QED
        BY <2>1, <3>1, TemplateAlike, Zenon
    <2>2. CASE tok.t = "value"
      <3>1. Alike(chunk, v(s), v(t))
        BY WrittenAlike
      <3> HIDE DEF v
      <3>2. Alike(chunk, [v(s) EXCEPT !.attr = ""], [v(t) EXCEPT !.attr = ""])
        BY <3>1 DEF Alike, Decoding
      <3>3. Log!RecordToken(chunk, s, tok) = [v(s) EXCEPT !.attr = ""]
            /\ Log!RecordToken(chunk, t, tok) = [v(t) EXCEPT !.attr = ""]
        BY <1>3, <2>0, <2>2 DEF Full, Log!RecordToken, v
      <3> QED
        BY <3>2, <3>3, Zenon
    <2>3. CASE tok.t = "open"
      <3>1. Log!RecordToken(chunk, s, tok) = [s EXCEPT !.elems = Append(@, tok.name)]
            /\ Log!RecordToken(chunk, t, tok) = [t EXCEPT !.elems = Append(@, tok.name)]
        BY <1>3, <2>0, <2>3 DEF Full, Log!RecordToken
      <3> QED
        BY <3>1 DEF Alike, Decoding
    <2>4. CASE tok.t \in {"close", "empty"}
      <3>1. Log!RecordToken(chunk, s, tok) = [s EXCEPT !.elems = Log!Popped(@), !.attr = ""]
            /\ Log!RecordToken(chunk, t, tok) = [t EXCEPT !.elems = Log!Popped(@), !.attr = ""]
        BY <1>3, <2>0, <2>4 DEF Full, Log!RecordToken
      <3> QED
        BY <3>1 DEF Alike, Decoding
    <2>5. CASE tok.t = "attr"
      <3>1. Log!RecordToken(chunk, s, tok) = [s EXCEPT !.attr = tok.name]
            /\ Log!RecordToken(chunk, t, tok) = [t EXCEPT !.attr = tok.name]
        BY <1>3, <2>0, <2>5 DEF Full, Log!RecordToken
      <3> QED
        BY <3>1 DEF Alike, Decoding
    <2>6. CASE tok.t \in {"header", "subst"}
      <3>1. Log!RecordToken(chunk, s, tok) = s /\ Log!RecordToken(chunk, t, tok) = t
        BY <1>3, <2>0, <2>6 DEF Full, Log!RecordToken
      <3> QED
        BY <3>1
    <2>7. CASE tok.t \notin {"template", "value", "open", "close", "empty", "attr", "header", "subst"}
      <3>1. Log!RecordToken(chunk, s, tok) = [s EXCEPT !.stop = TRUE]
            /\ Log!RecordToken(chunk, t, tok) = [t EXCEPT !.stop = TRUE]
        BY <1>3, <2>0, <2>7 DEF Full, Log!RecordToken
      <3> QED
        BY <3>1 DEF Alike, Decoding
    <2> QED
      BY <2>1, <2>2, <2>3, <2>4, <2>5, <2>6, <2>7, Zenon
  <1> QED
    BY <1>2, <1>3

(* A record is decoded a token at a time.                                   *)
Undecoded(cache) == [elems |-> <<>>, attr |-> "", fields |-> <<>>, cache |-> cache, stop |-> FALSE]
Decoded(record, s) ==
    [event |-> [time |-> record.time, id |-> Log!Get(s.fields, "EventID", "0"), fields |-> s.fields], cache |-> s.cache]

LEMMA DecodeRuns ==
    ASSUME NEW chunk, NEW cache, NEW record, Len(record.tokens) \in Nat
    PROVE  LET k == Len(record.tokens)
           IN  \E f : /\ f[0] = Undecoded(cache)
                      /\ \A n \in 1..k : f[n] = Log!RecordToken(chunk, f[n - 1], record.tokens[n])
                      /\ Log!DecodeRecord(chunk, cache, record) = Decoded(record, f[k])
  <1> DEFINE k == Len(record.tokens)
             start == Undecoded(cache)
             Step(x, n) == Log!RecordToken(chunk, x, record.tokens[n])
             R(f) == f = [n \in 0..k |-> IF n = 0 THEN start ELSE Step(f[n - 1], n)]
             after == CHOOSE f : R(f)
             Good(m) == \E f : f = [n \in 0..m |-> IF n = 0 THEN start ELSE Step(f[n - 1], n)]
             Bad == {m \in Nat : ~Good(m)}
  <1>1. Log!DecodeRecord(chunk, cache, record) = Decoded(record, after[k])
    BY Zenon DEF Log!DecodeRecord, Undecoded, Decoded
  <1> HIDE DEF start, Step
  <1>2. Good(0)
    <2> DEFINE f == [n \in 0..0 |-> start]
    <2>1. f = [n \in 0..0 |-> IF n = 0 THEN start ELSE Step(f[n - 1], n)]
      OBVIOUS
    <2> QED
      BY <2>1
  <1>3. ASSUME NEW m \in Nat, Good(m) PROVE Good(m + 1)
    <2>1. PICK f : f = [n \in 0..m |-> IF n = 0 THEN start ELSE Step(f[n - 1], n)]
      BY <1>3
    <2> DEFINE g == [n \in 0..(m + 1) |-> IF n = m + 1 THEN Step(f[m], m + 1) ELSE f[n]]
    <2>2. \A n \in 0..(m + 1) : g[n] = IF n = 0 THEN start ELSE Step(g[n - 1], n)
      <3> SUFFICES ASSUME NEW n \in 0..(m + 1) PROVE g[n] = IF n = 0 THEN start ELSE Step(g[n - 1], n)
        OBVIOUS
      <3>1. CASE n = m + 1
        <4>1. n # 0 /\ n - 1 = m /\ m \in 0..(m + 1) /\ m # m + 1
          BY <3>1
        <4>2. g[n] = Step(f[m], m + 1) /\ g[m] = f[m]
          BY <3>1, <4>1
        <4> QED
          BY <3>1, <4>1, <4>2, Zenon
      <3>2. CASE n # m + 1
        <4>1. n \in 0..m /\ g[n] = f[n]
          BY <3>2
        <4>2. n # 0 => n - 1 \in 0..(m + 1) /\ n - 1 # m + 1
          BY <4>1
        <4>3. n # 0 => g[n - 1] = f[n - 1]
          BY <4>2
        <4>4. f[n] = IF n = 0 THEN start ELSE Step(f[n - 1], n)
          BY <2>1, <4>1, Zenon
        <4> QED
          BY <4>1, <4>3, <4>4, Zenon
      <3> QED
        BY <3>1, <3>2
    <2>3. g = [n \in 0..(m + 1) |-> g[n]]
      OBVIOUS
    <2> HIDE DEF g
    <2>4. g = [n \in 0..(m + 1) |-> IF n = 0 THEN start ELSE Step(g[n - 1], n)]
      BY <2>2, <2>3, Zenon
    <2> QED
      BY <2>4
  <1>4. Good(k)
    <2> SUFFICES ASSUME ~Good(k) PROVE FALSE
      OBVIOUS
    <2> HIDE DEF Good
    <2>1. Bad \subseteq Nat /\ Bad # {}
      OBVIOUS
    <2>2. PICK m \in Bad : \A j \in Bad : m <= j
      BY <2>1, LeastNatural, Zenon
    <2>3. m # 0 /\ m \in Nat /\ ~Good(m)
      BY <1>2, <2>2
    <2>4. m - 1 \in Nat /\ (m - 1) + 1 = m /\ ~(m <= m - 1)
      BY <2>3
    <2>5. Good(m - 1)
      BY <2>2, <2>4
    <2> QED
      BY <1>3, <2>3, <2>4, <2>5
  <1>5. R(after)
    <2>1. \E f : R(f)
      BY <1>4
    <2> HIDE DEF R
    <2> QED
      BY <2>1
  <1> HIDE DEF after
  <1>6. after[0] = start /\ \A n \in 1..k : after[n] = Step(after[n - 1], n)
    <2>1. \A n \in 0..k : after[n] = IF n = 0 THEN start ELSE Step(after[n - 1], n)
      BY <1>5, Zenon
    <2>2. 0 \in 0..k /\ \A n \in 1..k : n \in 0..k /\ n # 0
      OBVIOUS
    <2> QED
      BY <2>1, <2>2, Zenon
  <1> QED
    BY <1>1, <1>6, Zenon DEF start, Step

(* So the event of a record does not depend on the cache.                   *)
LEMMA DecodeAlike ==
    ASSUME NEW chunk, NEW cache, TemplatesOf(chunk, cache), NEW record, Len(record.tokens) \in Nat,
           \A n \in 1..Len(record.tokens) :
               record.tokens[n].t = "template" => Len(record.tokens[n].values) \in Nat
    PROVE  /\ Log!DecodeRecord(chunk, cache, record).event = Log!DecodeRecord(chunk, <<>>, record).event
           /\ TemplatesOf(chunk, Log!DecodeRecord(chunk, cache, record).cache)
  <1> DEFINE k == Len(record.tokens)
             Step(x, n) == Log!RecordToken(chunk, x, record.tokens[n])
             Run(f, c) == /\ f[0] = Undecoded(c)
                          /\ \A n \in 1..k : f[n] = Step(f[n - 1], n)
  <1>1. PICK f : Run(f, cache) /\ Log!DecodeRecord(chunk, cache, record) = Decoded(record, f[k])
    BY DecodeRuns
  <1>2. PICK g : Run(g, <<>>) /\ Log!DecodeRecord(chunk, <<>>, record) = Decoded(record, g[k])
    BY DecodeRuns
  <1>3. Alike(chunk, Undecoded(cache), Undecoded(<<>>))
    <2>1. TemplatesOf(chunk, <<>>)
      BY DEF TemplatesOf
    <2> QED
      BY <2>1 DEF Alike, Decoding, Undecoded
  <1> DEFINE Bad == {n \in 0..k : ~Alike(chunk, f[n], g[n])}
  <1>4. Bad = {}
    <2> SUFFICES ASSUME Bad # {} PROVE FALSE
      OBVIOUS
    <2>1. Bad \subseteq Nat
      OBVIOUS
    <2>2. PICK n \in Bad : \A m \in Bad : n <= m
      BY <2>1, LeastNatural, Zenon
    <2>3. n # 0
      <3>1. f[0] = Undecoded(cache) /\ g[0] = Undecoded(<<>>)
        BY <1>1, <1>2, Zenon
      <3>2. Alike(chunk, f[0], g[0])
        BY <1>3, <3>1, Zenon
      <3> QED
        BY <2>2, <3>2
    <2>4. n \in 1..k /\ n - 1 \in 0..k /\ ~(n <= n - 1) /\ ~Alike(chunk, f[n], g[n])
      BY <2>2, <2>3
    <2>5. Alike(chunk, f[n - 1], g[n - 1])
      BY <2>2, <2>4
    <2>6. f[n] = Step(f[n - 1], n) /\ g[n] = Step(g[n - 1], n)
      BY <1>1, <1>2, <2>4, Zenon
    <2>7. Alike(chunk, Step(f[n - 1], n), Step(g[n - 1], n))
      BY <2>4, <2>5, TokenAlike, Zenon
    <2> QED
      BY <2>4, <2>6, <2>7, Zenon
  <1>5. Alike(chunk, f[k], g[k])
    <2>1. k \in 0..k
      OBVIOUS
    <2> QED
      BY <1>4, <2>1, Zenon
  <1>6. f[k].fields = g[k].fields /\ TemplatesOf(chunk, f[k].cache)
    BY <1>5 DEF Alike, Decoding
  <1>7. /\ Decoded(record, f[k]).event = Decoded(record, g[k]).event
        /\ Decoded(record, f[k]).cache = f[k].cache
    BY <1>6 DEF Decoded
  <1> QED
    BY <1>1, <1>2, <1>6, <1>7, Zenon

(* What the events are: those of their records, decoded with no template    *)
(* from before. The cache at hand is that of the chunk under way.           *)
ReadAlone(i) ==
    LET chunk == input.chunks[work.places[i][1]]
    IN  work.events[i] = Log!DecodeRecord(chunk, <<>>, chunk.headers[work.places[i][2]]).event
DecodedInv ==
    kind = "evtx" =>
        /\ Len(work.places) = Len(work.events)
        /\ work.chunk \in DOMAIN input.chunks => TemplatesOf(Log!Chunk, work.cache)
        /\ \A i \in DOMAIN work.places : ReadAlone(i)

LEMMA DecodedInit == Init => DecodedInv
  <1> SUFFICES ASSUME Init, kind = "evtx" PROVE DecodedInv
    BY DEF DecodedInv
  <1>1. work = [chunk |-> 1, pos |-> 0, cache |-> <<>>, events |-> <<>>, places |-> <<>>, done |-> FALSE]
    BY DEF Init, Log!Init
  <1>2. work.cache = <<>> /\ work.events = <<>> /\ work.places = <<>>
    BY <1>1
  <1>3. TemplatesOf(Log!Chunk, work.cache)
    BY <1>2 DEF TemplatesOf
  <1>4. DOMAIN work.places = {}
    BY <1>2
  <1> QED
    BY <1>2, <1>3, <1>4, Zenon DEF DecodedInv

(* A record is a list of tokens, and an instance of a template one of       *)
(* values.                                                                  *)
LEMMA RecordShape ==
    ASSUME kind = "evtx", RecordsInv, Log!InChunk, Log!IsRecord
    PROVE  /\ work.chunk \in DOMAIN input.chunks /\ work.pos \in DOMAIN Log!Chunk.headers
           /\ Len(Log!Header.tokens) \in Nat
           /\ \A n \in 1..Len(Log!Header.tokens) :
                  Log!Header.tokens[n].t = "template" => Len(Log!Header.tokens[n].values) \in Nat
  <1> DEFINE c == work.chunk
             headers == input.chunks[c].headers
             w == work.pos
             tokens == headers[w].tokens
  <1>1. c <= Len(input.chunks) /\ w \in DOMAIN headers
    BY Zenon DEF Log!InChunk, Log!IsRecord, Log!Chunk
  <1>2. c \in DOMAIN input.chunks /\ input \in Logs
    BY <1>1, ChunkAtHand, WalkShape, Zenon
  <1>3. /\ tokens \in Seq(ToSet(tokens))
        /\ \A tok \in ToSet(tokens) : tok.t = "template" => tok.values \in Seq(ToSet(tok.values))
    BY <1>1, <1>2, LogsAssumption, Zenon
  <1>4. Len(tokens) \in Nat /\ \A n \in 1..Len(tokens) : tokens[n] \in ToSet(tokens)
    <2> HIDE DEF tokens
    <2> QED
      BY <1>3 DEF ToSet
  <1>5. \A v : v \in Seq(ToSet(v)) => Len(v) \in Nat
    OBVIOUS
  <1>6. \A n \in 1..Len(tokens) : tokens[n].t = "template" => Len(tokens[n].values) \in Nat
    BY <1>3, <1>4, <1>5, Zenon
  <1> QED
    BY <1>1, <1>2, <1>4, <1>6, Zenon DEF Log!Header, Log!Chunk

LEMMA DecodedStep ==
    ASSUME kind = "evtx", kind' = kind, EventsInv, RecordsInv, DecodedInv, Log!Next
    PROVE  DecodedInv'
  <1>1. CASE Log!ReadRecord
    <2> DEFINE decoded == Log!DecodeRecord(Log!Chunk, work.cache, Log!Header)
               place == <<work.chunk, work.pos>>
    <2>1. /\ Log!InChunk /\ Log!IsRecord /\ input' = input
          /\ work'.chunk = work.chunk /\ work'.cache = decoded.cache
          /\ work'.events = Append(work.events, decoded.event) /\ work'.places = Append(work.places, place)
      BY <1>1 DEF Log!ReadRecord, RecordsInv
    <2>2. work.chunk \in DOMAIN input.chunks /\ TemplatesOf(Log!Chunk, work.cache)
      BY <2>1, RecordShape DEF DecodedInv
    <2>3. /\ decoded.event = Log!DecodeRecord(Log!Chunk, <<>>, Log!Header).event
          /\ TemplatesOf(Log!Chunk, decoded.cache)
      BY <2>1, <2>2, RecordShape, DecodeAlike, Zenon
    <2> HIDE DEF decoded
    <2>4. PICK S, T : work.events \in Seq(S) /\ work.places \in Seq(T)
      BY DEF EventsInv, RecordsInv, PlacesOK
    <2> DEFINE k == Len(work.places)
    <2>5. k \in Nat /\ k = Len(work.events) /\ DOMAIN work.places = 1..k /\ DOMAIN work.events = 1..k
      BY <2>4 DEF DecodedInv
    <2>6. /\ Len(work'.places) = k + 1 /\ Len(work'.events) = k + 1 /\ DOMAIN work'.places = 1..(k + 1)
          /\ work'.places[k + 1] = place /\ work'.events[k + 1] = decoded.event
          /\ \A i \in 1..k : work'.places[i] = work.places[i] /\ work'.events[i] = work.events[i]
      <3> HIDE DEF place
      <3> QED
        BY <2>1, <2>4, <2>5
    <2>7. TemplatesOf(Log!Chunk, work.cache)'
      <3>1. Log!Chunk' = Log!Chunk
        BY <2>1 DEF Log!Chunk
      <3>2. TemplatesOf(Log!Chunk', work'.cache)
        BY <2>1, <2>3, <3>1, Zenon
      <3> QED
        BY <3>2 DEF TemplatesOf
    <2>8. ASSUME NEW i \in 1..(k + 1) PROVE ReadAlone(i)'
      <3>1. CASE i = k + 1
        <4>1. work'.places[i] = place /\ work'.events[i] = Log!DecodeRecord(Log!Chunk, <<>>, Log!Header).event
          BY <2>3, <2>6, <3>1
        <4>2. place[1] = work.chunk /\ place[2] = work.pos
          OBVIOUS
        <4> QED
          BY <2>1, <4>1, <4>2, Zenon DEF ReadAlone, Log!Chunk, Log!Header
      <3>2. CASE i # k + 1
        <4>1. i \in 1..k
          BY <2>5, <3>2
        <4>2. ReadAlone(i)
          BY <2>5, <4>1, Zenon DEF DecodedInv
        <4> QED
          BY <2>1, <2>6, <4>1, <4>2, Zenon DEF ReadAlone
      <3> QED
        BY <3>1, <3>2
    <2> QED
      BY <2>6, <2>7, <2>8, Zenon DEF DecodedInv
  <1>2. CASE Log!PassWord \/ Log!Refuse \/ Log!Finish
    <2>1. /\ input' = input /\ work'.chunk = work.chunk /\ work'.cache = work.cache
          /\ work'.events = work.events /\ work'.places = work.places
      BY <1>2 DEF Log!PassWord, Log!Refuse, Log!Finish, RecordsInv
    <2> QED
      BY <2>1, Zenon DEF DecodedInv, ReadAlone, TemplatesOf, Log!Chunk
  <1>3. CASE Log!NextChunk
    <2>1. /\ input' = input /\ work'.cache = <<>>
          /\ work'.events = work.events /\ work'.places = work.places
      BY <1>3 DEF Log!NextChunk, Log!NoCache, RecordsInv
    <2>2. TemplatesOf(Log!Chunk, work.cache)'
      BY <2>1 DEF TemplatesOf
    <2>3. \A i \in DOMAIN work'.places : ReadAlone(i)'
      BY <2>1, Zenon DEF DecodedInv, ReadAlone
    <2> QED
      BY <2>1, <2>2, <2>3, Zenon DEF DecodedInv
  <1> QED
    BY <1>1, <1>2, <1>3 DEF Log!Next

(* In every behaviour: of a log read to its end no sound record was missed, *)
(* but for those inside another one and those out of step with the words    *)
(* counted from the record before, no two records read overlap, and the     *)
(* events are what their records say in their chunks whatever was decoded   *)
(* before, for records of any size in bytes, any garbage and any templates  *)
(* (_iter_chunk_records and _load_template of analyze/evtx.py).             *)
THEOREM RecordsTheorem == Spec => []RecordsFound
  <1> DEFINE Inv == EventsInv /\ RecordsInv /\ DecodedInv
  <1>1. Init => Inv
    BY EventsInit, RecordsInit, DecodedInit
  <1>2. Inv /\ [Next]_vars => Inv'
    <2> SUFFICES ASSUME Inv, [Next]_vars, kind' = "evtx"
                 PROVE  EventsInv' /\ RecordsInv' /\ DecodedInv'
      BY DEF EventsInv, RecordsInv, DecodedInv
    <2>1. CASE UNCHANGED vars
      <3>1. kind' = kind /\ input' = input /\ work' = work
        BY <2>1, Zenon DEF vars
      <3>2. EventsInv' /\ RecordsInv'
        <4>1. PlacesOK' /\ Anchored'
          BY <3>1, WalkShape, PlaceMoves, Zenon DEF PlacesOK, Anchored
        <4> QED
          BY <3>1, <4>1, PlaceMoves, Zenon DEF EventsInv, RecordsInv, Log!Readable
      <3>3. DecodedInv'
        BY <3>1, Zenon DEF DecodedInv, ReadAlone, TemplatesOf, Log!Chunk
      <3> QED
        BY <3>2, <3>3
    <2>2. CASE Next
      <3>1. kind = "evtx" /\ Log!Next
        BY <2>2 DEF Next
      <3> QED
        BY <3>1, EventsStep, RecordsStep, DecodedStep DEF EventsInv
    <2> QED
      BY <2>1, <2>2
  <1>3. Inv => RecordsFound
    <2> SUFFICES ASSUME RecordsInv, DecodedInv, Ended("evtx") PROVE RecordsFound
      BY Zenon DEF RecordsFound
    <2>0. \A i \in DOMAIN work.places : ReadAlone(i)
      BY DEF DecodedInv, Ended
    <2>1. ASSUME Log!Readable, Len(work.events) < MaxEvents, NEW c \in DOMAIN input.chunks
          PROVE  /\ input.chunks[c].magic /\ c <= MaxChunks =>
                       \A w \in DOMAIN input.chunks[c].headers :
                           Sound(c, w) => (\E p \in Read(c) : Covers(p, w)) \/ OutOfStep(c, w)
                 /\ \A p, q \in Read(c) : p # q => ~Covers(p, q[2])
      <3>1. kind = "evtx" /\ (work.chunk > Len(input.chunks) \/ work.chunk > MaxChunks)
        BY <2>1 DEF Ended, RecordsInv
      <3>2. \A p, q \in Read(c) : p # q => ~Covers(p, q[2])
        BY <3>1, WalkShape DEF PlacesOK, Read
      <3>3. ASSUME input.chunks[c].magic, c <= MaxChunks PROVE FoundBefore(c, ChunkSize)
        <4>1. c < work.chunk
          BY <3>1, <3>3, LogShape DEF RecordsInv
        <4> QED
          BY <2>1, <3>1, <3>3, <4>1 DEF RecordsInv
      <3>4. \A w \in DOMAIN input.chunks[c].headers : Sound(c, w) => w < ChunkSize
        <4> SUFFICES ASSUME NEW w \in DOMAIN input.chunks[c].headers, Sound(c, w) PROVE w < ChunkSize
          OBVIOUS
        <4> DEFINE size == input.chunks[c].headers[w].size
        <4>1. w \in Nat /\ size \in Nat \ {0} /\ w + size <= ChunkSize /\ ChunkSize \in Nat
          BY <3>1, LogShape, SoundSizes
        <4> HIDE DEF size
        <4> QED
          BY <4>1
      <3> QED
        BY <3>2, <3>3, <3>4 DEF FoundBefore, Found
    <2> QED
      BY <2>0, <2>1, Zenon DEF RecordsFound, ReadAlone, Log!Readable
  <1> QED
    BY <1>1, <1>2, <1>3, PTL DEF Spec

-----------------------------------------------------------------------------
(* The correlator. An undirected edge is a link between IOCs of the batch   *)
(* that does not care in which order they were given, and that more tags    *)
(* can only add to.                                                         *)
Link(name, a, b, by) == [kind |-> name, ends |-> {a, b}, by |-> by]
HostLink(log, type, name, e) ==
    \E i, j \in DOMAIN log :
        /\ log[i].type = type /\ log[j].value = log[i].host
        /\ e = Link(name, log[i].value, log[i].host, log[i].host)
NetLink(log, e) ==
    \E i, j \in DOMAIN log :
        /\ i # j /\ log[i].type = "ipv4" /\ log[j].type = "ipv4" /\ log[i].net = log[j].net
        /\ e = Link("shared_subnet", log[i].value, log[j].value, log[i].net)
TagLink(log, e) ==
    \E i, j \in DOMAIN log : \E t \in (log[i].tags \cap log[j].tags) \ Intel!Noise :
        /\ log[i].value # log[j].value
        /\ e = Link("shared_tag", log[i].value, log[j].value, t)
Linked(log, e) ==
    \/ HostLink(log, "url", "url_to_host", e) \/ HostLink(log, "email", "email_to_domain", e)
    \/ NetLink(log, e) \/ TagLink(log, e)
Enumerated(log) == \E n \in Nat : DOMAIN log = 1..n

LEMMA LinksAre ==
    ASSUME NEW log, Enumerated(log)
    PROVE  \A e : e \in Undirected(Intel!Edges(log)) <=> Linked(log, e)
  <1> DEFINE Hosts(type, name) ==
               {Intel!Edge(name, log[i].value, log[i].host, log[i].host) :
                  i \in {i \in DOMAIN log : log[i].type = type /\ log[i].host \in Intel!Known(log, i)}}
             SameNet(p) == /\ \A i \in {p[1], p[2]} : log[i].type = "ipv4"
                           /\ log[p[1]].net = log[p[2]].net
             Nets == {Intel!Edge("shared_subnet", log[p[1]].value, log[p[2]].value, log[p[1]].net) :
                        p \in {q \in Intel!Pairs(log) : SameNet(q)}}
             Common(p) == (log[p[1]].tags \cap log[p[2]].tags) \ Intel!Noise
             Shared == UNION {{Intel!Edge("shared_tag", log[p[1]].value, log[p[2]].value, t) : t \in Common(p)} :
                        p \in {q \in Intel!Pairs(log) : log[q[1]].value # log[q[2]].value}}
  <1>1. Intel!Edges(log) = ((Hosts("url", "url_to_host") \cup Hosts("email", "email_to_domain")) \cup Nets) \cup Shared
    BY DEF Intel!Edges
  <1>2. PICK n \in Nat : DOMAIN log = 1..n
    BY DEF Enumerated
  <1>3. \A p : p \in Intel!Pairs(log) <=> \E i, j \in 1..n : i < j /\ p = <<i, j>>
    BY <1>2 DEF Intel!Pairs
  <1>8. \A E, k, a, b, by : Intel!Edge(k, a, b, by) \in E => Link(k, a, b, by) \in Undirected(E)
    <2> SUFFICES ASSUME NEW E, NEW k, NEW a, NEW b, NEW by, Intel!Edge(k, a, b, by) \in E
                 PROVE  Link(k, a, b, by) \in Undirected(E)
      OBVIOUS
    <2>1. PICK edge \in E : edge = Intel!Edge(k, a, b, by)
      OBVIOUS
    <2>2. edge.kind = k /\ edge.from = a /\ edge.to = b /\ edge.by = by
      BY <2>1 DEF Intel!Edge
    <2>3. [kind |-> edge.kind, ends |-> {edge.from, edge.to}, by |-> edge.by] \in Undirected(E)
      BY Zenon DEF Undirected
    <2> QED
      BY <2>2, <2>3 DEF Link
  <1>4. \A type, name, e : e \in Undirected(Hosts(type, name)) <=> HostLink(log, type, name, e)
    <2> SUFFICES ASSUME NEW type, NEW name, NEW e
                 PROVE  e \in Undirected(Hosts(type, name)) <=> HostLink(log, type, name, e)
      OBVIOUS
    <2>1. ASSUME e \in Undirected(Hosts(type, name)) PROVE HostLink(log, type, name, e)
      <3>1. PICK i \in DOMAIN log :
               /\ log[i].type = type /\ log[i].host \in Intel!Known(log, i)
               /\ e = Link(name, log[i].value, log[i].host, log[i].host)
        BY <2>1 DEF Undirected, Intel!Edge, Link
      <3> QED
        BY <3>1 DEF Intel!Known, HostLink
    <2>2. ASSUME HostLink(log, type, name, e) PROVE e \in Undirected(Hosts(type, name))
      <3>1. PICK i \in DOMAIN log :
               /\ log[i].type = type /\ log[i].host \in Intel!Known(log, i)
               /\ e = Link(name, log[i].value, log[i].host, log[i].host)
        BY <2>2 DEF Intel!Known, HostLink
      <3> DEFINE edge == Intel!Edge(name, log[i].value, log[i].host, log[i].host)
      <3>2. edge \in Hosts(type, name)
        BY <3>1
      <3> QED
        BY <3>1, <3>2, <1>8
    <2> QED
      BY <2>1, <2>2
  <1>5. \A e : e \in Undirected(Nets) <=> NetLink(log, e)
    <2> SUFFICES ASSUME NEW e PROVE e \in Undirected(Nets) <=> NetLink(log, e)
      OBVIOUS
    <2>1. ASSUME e \in Undirected(Nets) PROVE NetLink(log, e)
      <3>1. PICK p \in Intel!Pairs(log) :
               SameNet(p) /\ e = Link("shared_subnet", log[p[1]].value, log[p[2]].value, log[p[1]].net)
        BY <2>1 DEF Undirected, Intel!Edge, Link
      <3>2. PICK i \in 1..n, j \in 1..n : i < j /\ p = <<i, j>>
        BY <1>3
      <3> QED
        BY <1>2, <3>1, <3>2 DEF NetLink
    <2>2. ASSUME NetLink(log, e) PROVE e \in Undirected(Nets)
      <3>1. PICK i \in 1..n, j \in 1..n :
               /\ i # j /\ log[i].type = "ipv4" /\ log[j].type = "ipv4" /\ log[i].net = log[j].net
               /\ e = Link("shared_subnet", log[i].value, log[j].value, log[i].net)
        BY <1>2, <2>2 DEF NetLink
      <3>2. PICK p \in {<<i, j>>, <<j, i>>} : p \in Intel!Pairs(log)
        BY <1>3, <3>1
      <3>3. SameNet(p) /\ e = Link("shared_subnet", log[p[1]].value, log[p[2]].value, log[p[1]].net)
        BY <3>1, <3>2 DEF Link
      <3>4. Intel!Edge("shared_subnet", log[p[1]].value, log[p[2]].value, log[p[1]].net) \in Nets
        BY <3>2, <3>3
      <3> QED
        BY <3>3, <3>4, <1>8
    <2> QED
      BY <2>1, <2>2
  <1>6. \A e : e \in Undirected(Shared) <=> TagLink(log, e)
    <2> SUFFICES ASSUME NEW e PROVE e \in Undirected(Shared) <=> TagLink(log, e)
      OBVIOUS
    <2>1. ASSUME e \in Undirected(Shared) PROVE TagLink(log, e)
      <3>1. PICK p \in Intel!Pairs(log) : \E t \in Common(p) :
               /\ log[p[1]].value # log[p[2]].value
               /\ e = Link("shared_tag", log[p[1]].value, log[p[2]].value, t)
        BY <2>1 DEF Undirected, Intel!Edge, Link
      <3>2. PICK i \in 1..n, j \in 1..n : i < j /\ p = <<i, j>>
        BY <1>3
      <3> QED
        BY <1>2, <3>1, <3>2 DEF TagLink
    <2>2. ASSUME TagLink(log, e) PROVE e \in Undirected(Shared)
      <3>1. PICK i \in 1..n, j \in 1..n : \E t \in (log[i].tags \cap log[j].tags) \ Intel!Noise :
               log[i].value # log[j].value /\ e = Link("shared_tag", log[i].value, log[j].value, t)
        BY <1>2, <2>2 DEF TagLink
      <3>2. PICK t \in (log[i].tags \cap log[j].tags) \ Intel!Noise :
               log[i].value # log[j].value /\ e = Link("shared_tag", log[i].value, log[j].value, t)
        BY <3>1
      <3>3. i # j
        BY <3>2
      <3>4. PICK p \in {<<i, j>>, <<j, i>>} : p \in Intel!Pairs(log)
        BY <1>3, <3>3
      <3>5. /\ t \in Common(p) /\ log[p[1]].value # log[p[2]].value
            /\ e = Link("shared_tag", log[p[1]].value, log[p[2]].value, t)
        BY <3>2, <3>4 DEF Link
      <3>6. Intel!Edge("shared_tag", log[p[1]].value, log[p[2]].value, t) \in Shared
        BY <3>4, <3>5
      <3> QED
        BY <3>5, <3>6, <1>8
    <2> QED
      BY <2>1, <2>2
  <1>7. \A A, B : Undirected(A \cup B) = Undirected(A) \cup Undirected(B)
    BY DEF Undirected
  <1>9. /\ \A e : e \in Undirected(Hosts("url", "url_to_host")) <=> HostLink(log, "url", "url_to_host", e)
        /\ \A e : e \in Undirected(Hosts("email", "email_to_domain")) <=> HostLink(log, "email", "email_to_domain", e)
    BY <1>4
  <1> HIDE DEF Hosts, Nets, Shared
  <1>10. Undirected(Intel!Edges(log)) =
           ((Undirected(Hosts("url", "url_to_host")) \cup Undirected(Hosts("email", "email_to_domain")))
            \cup Undirected(Nets)) \cup Undirected(Shared)
    <2> DEFINE A == Hosts("url", "url_to_host")
               B == Hosts("email", "email_to_domain")
    <2> HIDE DEF A, B
    <2>1. Undirected(A \cup B) = Undirected(A) \cup Undirected(B)
      BY <1>7
    <2>2. Undirected((A \cup B) \cup Nets) = Undirected(A \cup B) \cup Undirected(Nets)
      BY <1>7
    <2>3. Undirected(((A \cup B) \cup Nets) \cup Shared) = Undirected((A \cup B) \cup Nets) \cup Undirected(Shared)
      BY <1>7
    <2> QED
      BY <1>1, <2>1, <2>2, <2>3, Zenon DEF A, B
  <1> SUFFICES ASSUME NEW e PROVE e \in Undirected(Intel!Edges(log)) <=> Linked(log, e)
    OBVIOUS
  <1>11. e \in Undirected(Intel!Edges(log)) <=>
           \/ e \in Undirected(Hosts("url", "url_to_host")) \/ e \in Undirected(Hosts("email", "email_to_domain"))
           \/ e \in Undirected(Nets) \/ e \in Undirected(Shared)
    BY <1>10
  <1> QED
    BY <1>5, <1>6, <1>9, <1>11 DEF Linked

(* Any batch in which every IOC of another has a place of its own, with at  *)
(* least its tags, has at least its links.                                  *)
Includes(other, log) ==
    \E place \in [DOMAIN log -> DOMAIN other] :
        /\ \A i, j \in DOMAIN log : i # j => place[i] # place[j]
        /\ \A i \in DOMAIN log :
              /\ other[place[i]].value = log[i].value /\ other[place[i]].type = log[i].type
              /\ other[place[i]].host = log[i].host   /\ other[place[i]].net = log[i].net
              /\ log[i].tags \subseteq other[place[i]].tags

LEMMA LinksKept ==
    ASSUME NEW log, NEW other, Includes(other, log), NEW e, Linked(log, e)
    PROVE  Linked(other, e)
  <1>1. PICK place \in [DOMAIN log -> DOMAIN other] :
           /\ \A i, j \in DOMAIN log : i # j => place[i] # place[j]
           /\ \A i \in DOMAIN log :
                 /\ other[place[i]].value = log[i].value /\ other[place[i]].type = log[i].type
                 /\ other[place[i]].host = log[i].host   /\ other[place[i]].net = log[i].net
                 /\ log[i].tags \subseteq other[place[i]].tags
    BY DEF Includes
  <1>2. ASSUME NEW type, NEW name, HostLink(log, type, name, e) PROVE HostLink(other, type, name, e)
    <2>1. PICK i \in DOMAIN log, j \in DOMAIN log :
             /\ log[i].type = type /\ log[j].value = log[i].host
             /\ e = Link(name, log[i].value, log[i].host, log[i].host)
      BY <1>2 DEF HostLink
    <2>2. /\ place[i] \in DOMAIN other /\ place[j] \in DOMAIN other
          /\ other[place[i]].type = type /\ other[place[j]].value = other[place[i]].host
          /\ e = Link(name, other[place[i]].value, other[place[i]].host, other[place[i]].host)
      BY <1>1, <2>1
    <2> QED
      BY <2>2 DEF HostLink
  <1>3. ASSUME NetLink(log, e) PROVE NetLink(other, e)
    <2>1. PICK i \in DOMAIN log, j \in DOMAIN log :
             /\ i # j /\ log[i].type = "ipv4" /\ log[j].type = "ipv4" /\ log[i].net = log[j].net
             /\ e = Link("shared_subnet", log[i].value, log[j].value, log[i].net)
      BY <1>3 DEF NetLink
    <2>2. /\ place[i] \in DOMAIN other /\ place[j] \in DOMAIN other /\ place[i] # place[j]
          /\ other[place[i]].type = "ipv4" /\ other[place[j]].type = "ipv4"
          /\ other[place[i]].net = other[place[j]].net
          /\ e = Link("shared_subnet", other[place[i]].value, other[place[j]].value, other[place[i]].net)
      BY <1>1, <2>1
    <2> QED
      BY <2>2 DEF NetLink
  <1>4. ASSUME TagLink(log, e) PROVE TagLink(other, e)
    <2>1. PICK i \in DOMAIN log, j \in DOMAIN log : \E t \in (log[i].tags \cap log[j].tags) \ Intel!Noise :
             log[i].value # log[j].value /\ e = Link("shared_tag", log[i].value, log[j].value, t)
      BY <1>4 DEF TagLink
    <2>2. PICK t \in (log[i].tags \cap log[j].tags) \ Intel!Noise :
             log[i].value # log[j].value /\ e = Link("shared_tag", log[i].value, log[j].value, t)
      BY <2>1
    <2>3. /\ place[i] \in DOMAIN other /\ place[j] \in DOMAIN other
          /\ t \in (other[place[i]].tags \cap other[place[j]].tags) \ Intel!Noise
          /\ other[place[i]].value # other[place[j]].value
          /\ e = Link("shared_tag", other[place[i]].value, other[place[j]].value, t)
      BY <1>1, <2>2
    <2> QED
      BY <2>3 DEF TagLink
  <1> QED
    BY <1>2, <1>3, <1>4 DEF Linked

LEMMA EdgesKept ==
    ASSUME NEW log, NEW other, Enumerated(log), Enumerated(other), Includes(other, log)
    PROVE  Undirected(Intel!Edges(log)) \subseteq Undirected(Intel!Edges(other))
  <1> SUFFICES ASSUME NEW e \in Undirected(Intel!Edges(log)) PROVE e \in Undirected(Intel!Edges(other))
    OBVIOUS
  <1>1. Linked(log, e)
    BY LinksAre
  <1>2. Linked(other, e)
    BY <1>1, LinksKept
  <1> QED
    BY <1>2, LinksAre

LEMMA ReverseContains ==
    ASSUME NEW S, NEW log \in Seq(S)
    PROVE  /\ Enumerated(log) /\ Enumerated(Reverse(log))
           /\ Includes(Reverse(log), log) /\ Includes(log, Reverse(log))
  <1> DEFINE n == Len(log)
             place == [i \in 1..n |-> n - i + 1]
  <1>1. n \in Nat /\ DOMAIN log = 1..n /\ DOMAIN Reverse(log) = 1..n
    BY DEF Reverse
  <1>2. \A i \in 1..n : Reverse(log)[i] = log[n - i + 1]
    BY DEF Reverse
  <1> HIDE DEF n
  <1>3. place \in [1..n -> 1..n] /\ \A i, j \in 1..n : i # j => place[i] # place[j]
    BY <1>1
  <1>4. \A i \in 1..n : Reverse(log)[place[i]] = log[i] /\ log[place[i]] = Reverse(log)[i]
    <2> SUFFICES ASSUME NEW i \in 1..n PROVE Reverse(log)[place[i]] = log[i] /\ log[place[i]] = Reverse(log)[i]
      OBVIOUS
    <2>1. place[i] = n - i + 1 /\ n - i + 1 \in 1..n /\ n - (n - i + 1) + 1 = i
      BY <1>1
    <2> QED
      BY <1>2, <2>1
  <1> HIDE DEF place
  <1>5. ASSUME NEW one, NEW other, DOMAIN one = 1..n, DOMAIN other = 1..n,
               \A i \in 1..n : other[place[i]] = one[i]
        PROVE  Includes(other, one)
    <2>1. place \in [DOMAIN one -> DOMAIN other]
      BY <1>3, <1>5
    <2>2. \A i, j \in DOMAIN one : i # j => place[i] # place[j]
      BY <1>3, <1>5
    <2>3. \A i \in DOMAIN one :
             /\ other[place[i]].value = one[i].value /\ other[place[i]].type = one[i].type
             /\ other[place[i]].host = one[i].host   /\ other[place[i]].net = one[i].net
             /\ one[i].tags \subseteq other[place[i]].tags
      BY <1>5
    <2> QED
      BY <2>1, <2>2, <2>3 DEF Includes
  <1> DEFINE back == Reverse(log)
  <1>6. /\ DOMAIN log = 1..n /\ DOMAIN back = 1..n
        /\ \A i \in 1..n : back[place[i]] = log[i] /\ log[place[i]] = back[i]
    BY <1>1, <1>4
  <1> HIDE DEF back
  <1>7. Includes(back, log) /\ Includes(log, back)
    BY <1>5, <1>6, Zenon
  <1> QED
    BY <1>1, <1>7 DEF Enumerated, back

(* A result of a source is no failure.                                      *)
Shaped(r) == DOMAIN r = {"verdict", "score", "tags", "error"} /\ r.error = FALSE
LEMMA AbuseShaped == \A a : Shaped(Intel!AbuseIPDB(a))
  BY DEF Shaped, Intel!AbuseIPDB, Intel!Result
LEMMA OtxShaped == \A a : Shaped(Intel!OTX(a))
  BY DEF Shaped, Intel!OTX, Intel!Result
LEMMA HausShaped == \A a : Shaped(Intel!URLhaus(a))
  BY DEF Shaped, Intel!URLhaus, Intel!Result, Intel!Unknown
LEMMA MetaShaped == \A a : Shaped(Intel!NetMeta(a))
  BY DEF Shaped, Intel!NetMeta, Intel!Result
LEMMA TorShaped == \A a : Shaped(Intel!TorExit(a))
  BY DEF Shaped, Intel!TorExit, Intel!Result, Intel!Unknown
LEMMA TotalShaped == \A a : Shaped(Intel!VirusTotal(a))
  BY DEF Shaped, Intel!VirusTotal, Intel!Result, Intel!Unknown
LEMMA MispShaped == \A a : Shaped(Intel!MISP(a))
  BY DEF Shaped, Intel!MISP, Intel!Result, Intel!Unknown
LEMMA FoxShaped == \A a : Shaped(Intel!ThreatFox(a))
  <1>1. \A v, n, t : Shaped(Intel!Result(v, n, t))
    BY DEF Shaped, Intel!Result
  <1> QED
    BY <1>1, Zenon DEF Intel!ThreatFox, Intel!Unknown
LEMMA InterpretShaped == \A s \in Intel!Sources : \A a : Shaped(Intel!Interpret(s, a))
  BY AbuseShaped, OtxShaped, HausShaped, MetaShaped, TorShaped, TotalShaped, MispShaped, FoxShaped
  DEF Intel!Sources, Intel!Interpret

(* While the sources answer, every result is one of a source that takes the *)
(* IOC and has no tag the source's answer does not give; a warninglist is   *)
(* asked only about an answer of MISP that speaks against its IOC; and once *)
(* the relations are reported every source has been heard.                  *)
Truthful(i, results) ==
    \A s \in DOMAIN results :
        s \in Intel!Asked(i) /\ (~results[s].error => results[s].tags \subseteq AllAnswered[i][s].tags)
Pending(i) ==
    /\ "misp" \in Intel!Asked(i) /\ "misp" \notin DOMAIN work.results[i]
    /\ Intel!MISP(input[i].answers["misp"]).verdict \in Intel!Bad
Reported ==
    /\ report = Intel!Edges(Intel!Tagged(input, work.results))
    /\ \A i \in DOMAIN input : Intel!Asked(i) \subseteq DOMAIN work.results[i]
RelationsInv ==
    kind = "enrichment" =>
        /\ \A i \in DOMAIN input : Truthful(i, work.results[i])
        /\ \A i \in DOMAIN input : <<i, "misp">> \in work.checking => Pending(i)
        /\ work.done => Reported

(* What a source adds to an IOC it was asked about.                         *)
LEMMA AnsweredTags ==
    ASSUME NEW i \in DOMAIN input, NEW s \in Intel!Asked(i), s \in Intel!Sources
    PROVE  Intel!Interpret(s, input[i].answers[s]).tags \subseteq AllAnswered[i][s].tags
  <1> DEFINE result == Intel!Interpret(s, input[i].answers[s])
  <1>1. AllAnswered[i][s] =
           IF s = "misp" /\ result.verdict \in Intel!Bad /\ input[i].answers[s].warned
           THEN [result EXCEPT !.tags = @ \cup {"warninglist"}] ELSE result
    BY DEF AllAnswered
  <1> HIDE DEF result
  <1>2. CASE s = "misp" /\ result.verdict \in Intel!Bad /\ input[i].answers[s].warned
    <2>1. AllAnswered[i][s] = [result EXCEPT !.tags = @ \cup {"warninglist"}]
      BY <1>1, <1>2
    <2>2. "tags" \in DOMAIN result
      BY InterpretShaped DEF result, Shaped
    <2> QED
      BY <2>1, <2>2 DEF result
  <1>3. CASE ~(s = "misp" /\ result.verdict \in Intel!Bad /\ input[i].answers[s].warned)
    BY <1>1, <1>3 DEF result
  <1> QED
    BY <1>2, <1>3

LEMMA RelationsInit == Init => RelationsInv
  <1> SUFFICES ASSUME Init, kind = "enrichment" PROVE RelationsInv
    BY DEF RelationsInv
  <1>1. Intel!Init
    BY DEF Init
  <1>2. work = [results |-> [i \in DOMAIN input |-> <<>>], checking |-> {}, verdicts |-> <<>>, done |-> FALSE]
    BY <1>1 DEF Intel!Init
  <1>3. \A i \in DOMAIN input : DOMAIN work.results[i] = {}
    BY <1>2
  <1> QED
    BY <1>2, <1>3 DEF RelationsInv, Truthful

(* A result put into the table of a batch that is still being asked about.  *)
LEMMA StoredTruthful ==
    ASSUME kind = "enrichment", kind' = kind, ScoreInv, RelationsInv,
           NEW i \in DOMAIN input, NEW s \in Intel!Asked(i), s \notin DOMAIN work.results[i],
           NEW result, ~result.error => result.tags \subseteq AllAnswered[i][s].tags, NEW checking,
           \A j \in DOMAIN input : <<j, "misp">> \in checking =>
                                      <<j, "misp">> \in work.checking /\ ~(j = i /\ s = "misp"),
           work' = [work EXCEPT !.results = [work.results EXCEPT ![i] = Intel!Put(@, s, result)], !.checking = checking],
           input' = input
    PROVE  RelationsInv'
  <1> DEFINE results == [work.results EXCEPT ![i] = Intel!Put(@, s, result)]
  <1>1. /\ DOMAIN work.results = DOMAIN input
        /\ DOMAIN work = {"results", "checking", "verdicts", "done"}
    BY DEF ScoreInv
  <1>2. /\ results[i] = Intel!Put(work.results[i], s, result)
        /\ \A j \in DOMAIN input : j # i => results[j] = work.results[j]
    BY <1>1
  <1>3. work'.results = results /\ work'.checking = checking /\ work'.done = work.done
    BY <1>1
  <1>4. AllAnswered' = AllAnswered /\ \A j : Intel!Asked(j)' = Intel!Asked(j)
    BY DEF AllAnswered, Intel!Asked
  <1> HIDE DEF results
  <1>5. ASSUME NEW j \in DOMAIN input PROVE Truthful(j, results[j])
    <2>1. Truthful(j, work.results[j])
      BY DEF RelationsInv
    <2>2. CASE j # i
      BY <1>2, <2>1, <2>2
    <2>3. CASE j = i
      <3>1. /\ DOMAIN results[i] = DOMAIN work.results[i] \cup {s} /\ results[i][s] = result
            /\ \A x \in DOMAIN work.results[i] : x # s => results[i][x] = work.results[i][x]
        BY <1>2 DEF Intel!Put
      <3> QED
        BY <2>1, <2>3, <3>1 DEF Truthful
    <2> QED
      BY <2>2, <2>3
  <1>6. ASSUME NEW j \in DOMAIN input, <<j, "misp">> \in checking
        PROVE  /\ "misp" \in Intel!Asked(j) /\ "misp" \notin DOMAIN results[j]
               /\ Intel!MISP(input[j].answers["misp"]).verdict \in Intel!Bad
    <2>1. Pending(j) /\ ~(j = i /\ s = "misp")
      BY <1>6 DEF RelationsInv
    <2>2. DOMAIN results[j] \subseteq DOMAIN work.results[j] \cup {s} /\ (j # i => results[j] = work.results[j])
      BY <1>2 DEF Intel!Put
    <2> QED
      BY <2>1, <2>2 DEF Pending
  <1>7. ~work.done
    BY DEF RelationsInv, Reported
  <1> QED
    BY <1>3, <1>4, <1>5, <1>6, <1>7 DEF RelationsInv, Truthful, Pending

LEMMA RelationsStep ==
    ASSUME kind = "enrichment", kind' = kind, ScoreInv, RelationsInv, Intel!Next
    PROVE  RelationsInv'
  <1>1. /\ DOMAIN work.results = DOMAIN input
        /\ DOMAIN work = {"results", "checking", "verdicts", "done"}
        /\ \A i \in DOMAIN input : Intel!Asked(i) \subseteq Intel!Sources
    BY BatchesAssumption DEF ScoreInv, Intel!Asked
  <1>2. ASSUME NEW i \in DOMAIN input, NEW s \in Intel!Asked(i), Intel!Answers(i, s)
        PROVE  RelationsInv'
    <2> DEFINE result == Intel!Interpret(s, input[i].answers[s])
    <2>1. result.tags \subseteq AllAnswered[i][s].tags
      BY <1>1, AnsweredTags
    <2>2. s = "misp" => result = Intel!MISP(input[i].answers["misp"])
      BY DEF Intel!Interpret
    <2> HIDE DEF result
    <2>3. s \notin DOMAIN work.results[i] /\ <<i, s>> \notin work.checking /\ input' = input
      BY <1>2 DEF Intel!Answers, Intel!Open
    <2>4. CASE s = "misp" /\ result.verdict \in Intel!Bad
      <3>1. work' = [work EXCEPT !.checking = @ \cup {<<i, s>>}] /\ report' = report
        BY <1>2, <2>4 DEF Intel!Answers, result
      <3>2. /\ work'.results = work.results /\ work'.done = work.done
            /\ work'.checking = work.checking \cup {<<i, "misp">>}
        BY <1>1, <2>4, <3>1
      <3>3. Pending(i)
        BY <2>2, <2>3, <2>4 DEF Pending
      <3>4. AllAnswered' = AllAnswered /\ \A j : Intel!Asked(j)' = Intel!Asked(j)
        BY <2>3 DEF AllAnswered, Intel!Asked
      <3>5. ~work.done
        BY <2>3 DEF RelationsInv, Reported
      <3>6. \A j \in DOMAIN input : Truthful(j, work.results[j])
        BY DEF RelationsInv
      <3>7. \A j \in DOMAIN input : <<j, "misp">> \in work'.checking => Pending(j)
        BY <3>2, <3>3 DEF RelationsInv
      <3> QED
        BY <2>3, <3>2, <3>4, <3>5, <3>6, <3>7 DEF RelationsInv, Truthful, Pending
    <2>5. CASE ~(s = "misp" /\ result.verdict \in Intel!Bad)
      <3> DEFINE results == [work.results EXCEPT ![i] = Intel!Put(@, s, result)]
      <3>1. work' = [work EXCEPT !.results[i] = Intel!Put(@, s, result)]
        BY <1>2, <2>5 DEF Intel!Answers, Intel!Store, result
      <3>2. work' = [work EXCEPT !.results = results, !.checking = work.checking]
        BY <1>1, <3>1, Zenon
      <3>3. \A j \in DOMAIN input : <<j, "misp">> \in work.checking =>
                 <<j, "misp">> \in work.checking /\ ~(j = i /\ s = "misp")
        BY <2>3
      <3> QED
        BY <2>1, <2>3, <3>2, <3>3, StoredTruthful, Zenon
    <2> QED
      BY <2>4, <2>5
  <1>3. ASSUME NEW i \in DOMAIN input, NEW s \in Intel!Asked(i), Intel!Fails(i, s)
        PROVE  RelationsInv'
    <2> DEFINE results == [work.results EXCEPT ![i] = Intel!Put(@, s, Intel!Failed)]
    <2>1. /\ s \notin DOMAIN work.results[i] /\ <<i, s>> \notin work.checking /\ input' = input
          /\ work' = [work EXCEPT !.results[i] = Intel!Put(@, s, Intel!Failed)]
      BY <1>3 DEF Intel!Fails, Intel!Open, Intel!Store
    <2>2. work' = [work EXCEPT !.results = results, !.checking = work.checking]
      BY <1>1, <2>1, Zenon
    <2>3. \A j \in DOMAIN input : <<j, "misp">> \in work.checking =>
               <<j, "misp">> \in work.checking /\ ~(j = i /\ s = "misp")
      BY <2>1
    <2>4. ~Intel!Failed.error => Intel!Failed.tags \subseteq AllAnswered[i][s].tags
      BY DEF Intel!Failed, Intel!Unknown, Intel!Result
    <2> QED
      BY <2>1, <2>2, <2>3, <2>4, StoredTruthful, Zenon
  <1>4. ASSUME NEW i \in DOMAIN input, <<i, "misp">> \in work.checking, NEW result,
               Intel!Checked(i, result), result.tags \subseteq AllAnswered[i]["misp"].tags
        PROVE  RelationsInv'
    <2> DEFINE results == [work.results EXCEPT ![i] = Intel!Put(@, "misp", result)]
               left == work.checking \ {<<i, "misp">>}
    <2>1. "misp" \in Intel!Asked(i) /\ "misp" \notin DOMAIN work.results[i]
      BY <1>4 DEF RelationsInv, Pending
    <2>2. /\ work' = [[work EXCEPT !.results[i] = Intel!Put(@, "misp", result)] EXCEPT !.checking = @ \ {<<i, "misp">>}]
          /\ input' = input
      BY <1>4 DEF Intel!Checked, Intel!Store
    <2>3. work' = [work EXCEPT !.results = results, !.checking = left]
      BY <1>1, <2>2
    <2>4. \A j \in DOMAIN input : <<j, "misp">> \in left =>
               <<j, "misp">> \in work.checking /\ ~(j = i /\ "misp" = "misp")
      OBVIOUS
    <2> HIDE DEF left
    <2> QED
      BY <1>4, <2>1, <2>2, <2>3, <2>4, StoredTruthful, Zenon
  <1>5. ASSUME NEW i \in DOMAIN input, <<i, "misp">> \in work.checking
        PROVE  /\ "misp" \in Intel!Asked(i)
               /\ Intel!Interpret("misp", input[i].answers["misp"]) = Intel!MISP(input[i].answers["misp"])
               /\ Intel!MISP(input[i].answers["misp"]).verdict \in Intel!Bad
    BY <1>5 DEF RelationsInv, Pending, Intel!Interpret
  <1>6. ASSUME NEW i \in DOMAIN input, Intel!OnWarningList(i) PROVE RelationsInv'
    <2> DEFINE answer == Intel!MISP(input[i].answers["misp"])
               result == Intel!Result("unknown", 0, answer.tags \cup {"warninglist"})
    <2>1. /\ <<i, "misp">> \in work.checking /\ input[i].answers["misp"].warned
          /\ Intel!Checked(i, result)
      BY <1>6 DEF Intel!OnWarningList
    <2>2. AllAnswered[i]["misp"] = [answer EXCEPT !.tags = @ \cup {"warninglist"}]
      BY <1>5, <2>1, Zenon DEF AllAnswered
    <2>3. Shaped(answer)
      BY MispShaped
    <2>4. result.tags = answer.tags \cup {"warninglist"}
      BY DEF Intel!Result
    <2> HIDE DEF answer, result
    <2>5. result.tags \subseteq AllAnswered[i]["misp"].tags
      BY <2>2, <2>3, <2>4 DEF Shaped
    <2> QED
      BY <1>4, <2>1, <2>5
  <1>7. ASSUME NEW i \in DOMAIN input, Intel!NotOnWarningList(i) PROVE RelationsInv'
    <2> DEFINE result == Intel!MISP(input[i].answers["misp"])
    <2>1. <<i, "misp">> \in work.checking /\ Intel!Checked(i, result)
      BY <1>7 DEF Intel!NotOnWarningList
    <2>2. result.tags \subseteq AllAnswered[i]["misp"].tags
      BY <1>1, <1>5, <2>1, AnsweredTags
    <2> HIDE DEF result
    <2> QED
      BY <1>4, <2>1, <2>2
  <1>8. ASSUME Intel!ScoreAndCorrelate PROVE RelationsInv'
    <2>1. /\ work' = [work EXCEPT !.done = TRUE,
                                  !.verdicts = [i \in DOMAIN input |-> Intel!Scored(work.results[i])]]
          /\ input' = input /\ report' = Intel!Edges(Intel!Tagged(input, work.results))
          /\ \A i \in DOMAIN input : Intel!Asked(i) \subseteq DOMAIN work.results[i]
      BY <1>8 DEF Intel!ScoreAndCorrelate
    <2>2. work'.results = work.results /\ work'.checking = work.checking
      BY <1>1, <2>1
    <2>3. AllAnswered' = AllAnswered /\ \A j : Intel!Asked(j)' = Intel!Asked(j)
      BY <2>1 DEF AllAnswered, Intel!Asked
    <2>4. report' = Intel!Edges(Intel!Tagged(input', work'.results))
      BY <2>1, <2>2
    <2>5. Reported'
      BY <2>1, <2>2, <2>3, <2>4 DEF Reported
    <2> QED
      BY <2>1, <2>2, <2>3, <2>5 DEF RelationsInv, Truthful, Pending
  <1> QED
    BY <1>2, <1>3, <1>6, <1>7, <1>8 DEF Intel!Next

(* What the sources that answered tell of an IOC, every source answering    *)
(* would tell.                                                              *)
LEMMA FewerTags ==
    ASSUME ScoreInv, NEW i \in DOMAIN input, kind = "enrichment", Truthful(i, work.results[i])
    PROVE  Intel!Tags(work.results[i]) \subseteq Intel!Tags(AllAnswered[i])
  <1> SUFFICES ASSUME NEW t, NEW s \in Intel!Valid(work.results[i]), t \in work.results[i][s].tags
               PROVE  t \in Intel!Tags(AllAnswered[i])
    BY DEF Intel!Tags
  <1>1. s \in Intel!Asked(i) /\ t \in AllAnswered[i][s].tags
    BY DEF Truthful, Intel!Valid
  <1>2. s \in Intel!Sources
    BY <1>1, BatchesAssumption DEF ScoreInv, Intel!Asked
  <1> DEFINE result == Intel!Interpret(s, input[i].answers[s])
  <1>3. Shaped(result)
    BY <1>2, InterpretShaped
  <1>4. AllAnswered[i][s] =
           IF s = "misp" /\ result.verdict \in Intel!Bad /\ input[i].answers[s].warned
           THEN [result EXCEPT !.tags = @ \cup {"warninglist"}] ELSE result
    BY <1>1 DEF AllAnswered
  <1> HIDE DEF result
  <1>5. AllAnswered[i][s].error = FALSE
    BY <1>3, <1>4 DEF Shaped
  <1>6. s \in DOMAIN AllAnswered[i]
    BY <1>1 DEF AllAnswered
  <1> QED
    BY <1>1, <1>5, <1>6 DEF Intel!Tags, Intel!Valid

(* In every behaviour: the relations reported are those of the batch in the *)
(* reverse order, and each is one that would be found had every source      *)
(* answered (correlate of correlator.py).                                   *)
THEOREM RelationsTheorem == Spec => []RelationsHold
  <1>1. Init => ScoreInv /\ RelationsInv
    BY ScoreInit, RelationsInit
  <1>2. ScoreInv /\ RelationsInv /\ [Next]_vars => (ScoreInv /\ RelationsInv)'
    <2> SUFFICES ASSUME ScoreInv, RelationsInv, [Next]_vars, kind' = "enrichment"
                 PROVE  ScoreInv' /\ RelationsInv'
      BY DEF ScoreInv, RelationsInv
    <2>1. CASE UNCHANGED vars
      <3>1. AllAnswered' = AllAnswered /\ \A j : Intel!Asked(j)' = Intel!Asked(j)
        BY <2>1 DEF vars, AllAnswered, Intel!Asked
      <3> QED
        BY <2>1, <3>1 DEF vars, ScoreInv, RelationsInv, Truthful, Pending, Reported
    <2>2. CASE Next
      <3>1. kind = "enrichment" /\ Intel!Next
        BY <2>2 DEF Next
      <3> QED
        BY <3>1, ScoreStep, RelationsStep
    <2> QED
      BY <2>1, <2>2
  <1>3. ScoreInv /\ RelationsInv => RelationsHold
    <2> SUFFICES ASSUME ScoreInv, RelationsInv, Ended("enrichment")
                 PROVE  /\ Undirected(report) = Undirected(Intel!Edges(Reverse(Intel!Tagged(input, work.results))))
                        /\ Undirected(report) \subseteq Undirected(Intel!Edges(Intel!Tagged(input, AllAnswered)))
      BY DEF RelationsHold
    <2> DEFINE batch == Intel!Tagged(input, work.results)
               whole == Intel!Tagged(input, AllAnswered)
    <2>1. kind = "enrichment" /\ report = Intel!Edges(batch)
      BY DEF Ended, RelationsInv, Reported
    <2>2. /\ input \in Seq(ToSet(input))
          /\ \A i \in DOMAIN input : {"value", "type", "host", "net"} \subseteq DOMAIN input[i]
      BY <2>1, BatchesAssumption DEF ScoreInv
    <2>3. PICK n \in Nat : DOMAIN input = 1..n
      BY <2>2
    <2>4. /\ DOMAIN batch = 1..n /\ DOMAIN whole = 1..n
          /\ \A i \in 1..n : /\ batch[i] = Intel!Put(input[i], "tags", Intel!Tags(work.results[i]))
                             /\ whole[i] = Intel!Put(input[i], "tags", Intel!Tags(AllAnswered[i]))
          /\ batch = [i \in 1..n |-> batch[i]]
      BY <2>3 DEF Intel!Tagged
    <2> HIDE DEF batch, whole
    <2>5. \A i \in 1..n : /\ whole[i].value = batch[i].value /\ whole[i].type = batch[i].type
                          /\ whole[i].host = batch[i].host   /\ whole[i].net = batch[i].net
                          /\ batch[i].tags = Intel!Tags(work.results[i])
                          /\ whole[i].tags = Intel!Tags(AllAnswered[i])
      <3>1. \A f, t : {"value", "type", "host", "net"} \subseteq DOMAIN f =>
               LET g == Intel!Put(f, "tags", t)
               IN  g.value = f.value /\ g.type = f.type /\ g.host = f.host /\ g.net = f.net /\ g.tags = t
        BY DEF Intel!Put
      <3> QED
        BY <2>2, <2>3, <2>4, <3>1
    <2>6. \A i \in 1..n : batch[i].tags \subseteq whole[i].tags
      BY <2>1, <2>3, <2>5, FewerTags DEF RelationsInv
    <2>7. Undirected(Intel!Edges(batch)) = Undirected(Intel!Edges(Reverse(batch)))
      <3> DEFINE S == {batch[i] : i \in 1..n}
      <3>1. batch \in Seq(S)
        BY <2>4
      <3> HIDE DEF S
      <3> DEFINE back == Reverse(batch)
      <3>2. /\ Enumerated(batch) /\ Enumerated(back)
            /\ Includes(back, batch) /\ Includes(batch, back)
        BY <3>1, ReverseContains
      <3> HIDE DEF back
      <3>3. Undirected(Intel!Edges(batch)) \subseteq Undirected(Intel!Edges(back))
        BY <3>2, EdgesKept
      <3>4. Undirected(Intel!Edges(back)) \subseteq Undirected(Intel!Edges(batch))
        BY <3>2, EdgesKept
      <3> QED
        BY <3>3, <3>4 DEF back
    <2>8. Undirected(Intel!Edges(batch)) \subseteq Undirected(Intel!Edges(whole))
      <3> DEFINE same == [i \in 1..n |-> i]
      <3>1. /\ same \in [DOMAIN batch -> DOMAIN whole] /\ \A i \in 1..n : same[i] = i
        BY <2>4
      <3> HIDE DEF same
      <3>2. Includes(whole, batch)
        BY <2>4, <2>5, <2>6, <3>1 DEF Includes
      <3>3. Enumerated(batch) /\ Enumerated(whole)
        BY <2>4 DEF Enumerated
      <3> QED
        BY <3>2, <3>3, EdgesKept
    <2> QED
      BY <2>1, <2>7, <2>8 DEF batch, whole
  <1> QED
    BY <1>1, <1>2, <1>3, PTL DEF Spec

-----------------------------------------------------------------------------
(* The frames of a capture. At each place of the walk, every block before   *)
(* it could be read, the interfaces kept are those its section declared,    *)
(* and the packets reported are those of the frames passed, in order.       *)
FramesBefore(i) == {j \in FrameBlocks : j < i}
PassedOK ==
    /\ work.at \in 1..Len(input.blocks) + 1
    /\ 1 \in DOMAIN input.blocks => work.order = input.blocks[1].order
    /\ \A j \in 1..work.at - 1 : /\ input.blocks[j].sound /\ input.blocks[j].order = input.blocks[1].order
                                 /\ input.format = "pcap" => ~input.blocks[j].short
InterfacesOK ==
    input.format = "pcapng" =>
        /\ \E S : work.interfaces \in Seq(S)
        /\ Cardinality(Declared(work.at)) = Len(work.interfaces)
        /\ \A n : Nth(work.at, n) # {} <=> n \in DOMAIN work.interfaces
        /\ \A n \in DOMAIN work.interfaces : \A j \in Nth(work.at, n) :
              work.interfaces[n] = Described(input.blocks[j])
ReportOK ==
    /\ work.frames = Cardinality(FramesBefore(work.at)) /\ work.frames <= MaxFrames
    /\ \E S : report \in Seq(S)
    /\ ToSet(report) = {PacketOf(i) : i \in {j \in FramesBefore(work.at) : Dissected(j) # Frames!None}}
    /\ \A m, n \in DOMAIN report : m < n => report[m].frame_no < report[n].frame_no
    /\ \A m \in DOMAIN report : report[m].frame_no \in Nat /\ report[m].frame_no <= work.frames
FramesInv ==
    kind = "pcap_file" =>
        /\ input \in Captures
        /\ DOMAIN work = {"at", "order", "interfaces", "frames", "done", "truncated"}
        /\ PassedOK /\ InterfacesOK /\ ReportOK
        /\ work.done => ~Frames!Reading

LEMMA CaptureShape ==
    ASSUME input \in Captures
    PROVE  Len(input.blocks) \in Nat /\ DOMAIN input.blocks = 1..Len(input.blocks)
  <1>1. input.blocks \in Seq(ToSet(input.blocks))
    BY CapturesAssumption
  <1> QED
    BY <1>1

LEMMA BeforeIs ==
    /\ \A i, j : j \in FramesBefore(i) <=> j \in FrameBlocks /\ j < i
    /\ input \in Captures => \A j \in FrameBlocks : j \in Nat
  <1>1. \A i, j : j \in FramesBefore(i) <=> j \in FrameBlocks /\ j < i
    BY DEF FramesBefore
  <1>2. \A j \in FrameBlocks : j \in DOMAIN input.blocks
    BY DEF FrameBlocks
  <1> QED
    BY <1>1, <1>2, CaptureShape

(* Counting the frames passed.                                              *)
LEMMA FramesCounted ==
    ASSUME input \in Captures, NEW i \in Nat
    PROVE  /\ IsFiniteSet(FramesBefore(i)) /\ Cardinality(FramesBefore(i)) \in Nat
           /\ i \in FrameBlocks =>
                 /\ FramesBefore(i + 1) = FramesBefore(i) \cup {i}
                 /\ Cardinality(FramesBefore(i + 1)) = Cardinality(FramesBefore(i)) + 1
           /\ i \notin FrameBlocks => FramesBefore(i + 1) = FramesBefore(i)
  <1>1. FrameBlocks \subseteq 1..Len(input.blocks) /\ Len(input.blocks) \in Nat
    BY CaptureShape DEF FrameBlocks
  <1>2. IsFiniteSet(1..Len(input.blocks))
    BY <1>1, FS_Interval
  <1>3. IsFiniteSet(FramesBefore(i))
    BY <1>1, <1>2, FS_Subset, Zenon DEF FramesBefore
  <1>4. Cardinality(FramesBefore(i)) \in Nat
    BY <1>3, FS_CardinalityType
  <1>5. \A j \in FrameBlocks : j \in Nat
    BY BeforeIs
  <1>6. ASSUME i \in FrameBlocks PROVE FramesBefore(i + 1) = FramesBefore(i) \cup {i} /\ i \notin FramesBefore(i)
    <2>1. \A j : j \in FramesBefore(i + 1) <=> j \in FramesBefore(i) \cup {i}
      <3>1. \A j \in FrameBlocks : j < i + 1 <=> j < i \/ j = i
        BY <1>5
      <3> QED
        BY <1>6, <3>1, BeforeIs, Zenon
    <2>2. i \notin FramesBefore(i)
      BY BeforeIs
    <2> QED
      BY <2>1, <2>2
  <1>7. ASSUME i \notin FrameBlocks PROVE FramesBefore(i + 1) = FramesBefore(i)
    <2>1. \A j : j \in FramesBefore(i + 1) <=> j \in FramesBefore(i)
      BY <1>5, <1>7, BeforeIs
    <2> QED
      BY <2>1
  <1>8. ASSUME i \in FrameBlocks
        PROVE  Cardinality(FramesBefore(i) \cup {i}) = Cardinality(FramesBefore(i)) + 1
    BY <1>3, <1>6, <1>8, FS_AddElement, Zenon
  <1> QED
    BY <1>3, <1>4, <1>6, <1>7, <1>8, Zenon

LEMMA NumberIs ==
    ASSUME input \in Captures, NEW i \in FrameBlocks
    PROVE  i \in Nat /\ Number(i) \in Nat /\ Number(i) = Cardinality(FramesBefore(i)) + 1
  <1>1. \A j \in FrameBlocks : j \in Nat
    BY BeforeIs
  <1> DEFINE upto == {j \in FrameBlocks : j <= i}
  <1>2. \A j : j \in upto <=> j \in FrameBlocks /\ j <= i
    OBVIOUS
  <1> HIDE DEF upto
  <1>3. \A j : j \in upto <=> j \in FramesBefore(i + 1)
    BY <1>1, <1>2, BeforeIs
  <1>4. upto = FramesBefore(i + 1)
    BY <1>3
  <1>5. i \in Nat
    BY <1>1
  <1>6. Number(i) = Cardinality(FramesBefore(i + 1))
    BY <1>4 DEF Number, upto
  <1> QED
    BY <1>5, <1>6, FramesCounted

LEMMA NumbersRise ==
    ASSUME input \in Captures, NEW i \in Nat, NEW j \in Nat, i <= j
    PROVE  Cardinality(FramesBefore(i)) <= Cardinality(FramesBefore(j))
  <1>1. \A k : k \in FramesBefore(i) => k \in FramesBefore(j)
    BY BeforeIs
  <1>2. FramesBefore(i) \subseteq FramesBefore(j)
    BY <1>1
  <1> QED
    BY <1>2, FramesCounted, FS_Subset


(* The interfaces a section has declared so far.                            *)
LEMMA DeclaredNext ==
    ASSUME NEW i \in Nat \ {0}
    PROVE  /\ input.blocks[i].kind = "section" => Declared(i + 1) = {}
           /\ input.blocks[i].kind = "interface" => Declared(i + 1) = Declared(i) \cup {i}
           /\ input.blocks[i].kind \notin {"section", "interface"} => Declared(i + 1) = Declared(i)
  <1>1. \A j : j \in Declared(i) <=>
           /\ j \in 1..i - 1 /\ input.blocks[j].kind = "interface"
           /\ \A k \in j..i - 1 : input.blocks[k].kind # "section"
    BY DEF Declared
  <1>2. \A j : j \in Declared(i + 1) <=>
           /\ j \in 1..i /\ input.blocks[j].kind = "interface"
           /\ \A k \in j..i : input.blocks[k].kind # "section"
    BY DEF Declared
  <1>3. \A j \in 1..i - 1 : /\ i \in j..i /\ j \in 1..i
                            /\ \A k : k \in j..i <=> k \in j..i - 1 \/ k = i
    OBVIOUS
  <1>4. \A j \in 1..i : j \in 1..i - 1 \/ j = i
    OBVIOUS
  <1>5. \A k : k \in i..i <=> k = i
    OBVIOUS
  <1>6. ASSUME input.blocks[i].kind = "section" PROVE \A j : j \notin Declared(i + 1)
    BY <1>2, <1>3, <1>4, <1>5, <1>6
  <1>7. ASSUME input.blocks[i].kind # "section", NEW j, j # i PROVE j \in Declared(i + 1) <=> j \in Declared(i)
    <2>1. j \in 1..i <=> j \in 1..i - 1
      BY <1>3, <1>4, <1>7
    <2> QED
      BY <1>1, <1>2, <1>3, <1>7, <2>1
  <1>8. /\ input.blocks[i].kind = "interface" => i \in Declared(i + 1)
        /\ input.blocks[i].kind # "interface" => i \notin Declared(i + 1)
        /\ i \notin Declared(i)
    BY <1>1, <1>2, <1>5
  <1> QED
    BY <1>6, <1>7, <1>8

LEMMA DeclaredFinite ==
    ASSUME NEW i \in Nat
    PROVE  /\ IsFiniteSet(Declared(i)) /\ Cardinality(Declared(i)) \in Nat
           /\ \A j \in Declared(i) : j \in Nat /\ j < i
  <1>1. Declared(i) \subseteq 1..i - 1
    BY DEF Declared
  <1>2. IsFiniteSet(1..i - 1)
    BY FS_Interval
  <1>3. IsFiniteSet(Declared(i))
    BY <1>1, <1>2, FS_Subset
  <1> QED
    BY <1>1, <1>3, FS_CardinalityType

LEMMA NthNext ==
    ASSUME NEW i \in Nat \ {0}, input.blocks[i].kind = "interface", NEW n
    PROVE  Nth(i + 1, n) = Nth(i, n) \cup (IF n = Cardinality(Declared(i)) + 1 THEN {i} ELSE {})
  <1> DEFINE here == Declared(i)
             next == Declared(i + 1)
             Upto(D, j) == {k \in D : k <= j}
  <1>1. next = here \cup {i} /\ IsFiniteSet(here) /\ \A j \in here : j \in Nat /\ j < i
    BY DeclaredNext, DeclaredFinite
  <1> HIDE DEF here, next
  <1>2. ASSUME NEW j \in here PROVE Upto(next, j) = Upto(here, j)
    <2>1. j \in Nat /\ j < i
      BY <1>1
    <2>2. ~(i <= j)
      BY <2>1
    <2>3. \A k : k \in next /\ k <= j <=> k \in here /\ k <= j
      BY <1>1, <2>2
    <2>4. \A k : k \in Upto(next, j) <=> k \in Upto(here, j)
      BY <2>3
    <2> HIDE DEF Upto
    <2>5. Upto(next, j) \subseteq Upto(here, j) /\ Upto(here, j) \subseteq Upto(next, j)
      BY <2>4
    <2> QED
      BY <2>5, Zenon
  <1>3. Upto(next, i) = next
    BY <1>1
  <1>4. Cardinality(next) = Cardinality(here) + 1
    <2>1. i \notin here
      BY <1>1
    <2> QED
      BY <1>1, <2>1, FS_AddElement, Zenon
  <1>5. Nth(i + 1, n) = {j \in next : Cardinality(Upto(next, j)) = n}
    BY DEF Nth, next
  <1>6. Nth(i, n) = {j \in here : Cardinality(Upto(here, j)) = n}
    BY DEF Nth, here
  <1> HIDE DEF Upto
  <1>7. \A j : j \in Nth(i + 1, n) <=> j \in Nth(i, n) \/ (j = i /\ n = Cardinality(here) + 1)
    BY <1>1, <1>2, <1>3, <1>4, <1>5, <1>6, Zenon
  <1> QED
    BY <1>7 DEF here

(* What the property speaks of depends on the input alone.                  *)
LEMMA SameCapture ==
    ASSUME input' = input
    PROVE  /\ \A i : Readable(i)' = Readable(i) /\ HoldsFrame(i)' = HoldsFrame(i)
           /\ FrameBlocks' = FrameBlocks
           /\ \A i : FramesBefore(i)' = FramesBefore(i) /\ Number(i)' = Number(i)
           /\ \A i : Declared(i)' = Declared(i) /\ \A n : Nth(i, n)' = Nth(i, n)
           /\ \A i : Described(input.blocks[i])' = Described(input.blocks[i])
           /\ \A i : Dissected(i)' = Dissected(i) /\ PacketOf(i)' = PacketOf(i)
  <1>1. /\ \A i : Readable(i)' = Readable(i) /\ HoldsFrame(i)' = HoldsFrame(i)
        /\ FrameBlocks' = FrameBlocks
    BY DEF Readable, HoldsFrame, FrameBlocks
  <1>2. \A i : FramesBefore(i)' = FramesBefore(i) /\ Number(i)' = Number(i)
    BY <1>1 DEF FramesBefore, Number
  <1>3. \A i : Declared(i)' = Declared(i) /\ \A n : Nth(i, n)' = Nth(i, n)
    BY DEF Declared, Nth
  <1>4. \A i : InterfaceOf(i)' = InterfaceOf(i)
    BY DEF InterfaceOf, Nth, Declared, Described
  <1>5. \A i : Dissected(i)' = Dissected(i) /\ TimeOf(i)' = TimeOf(i)
    BY <1>4 DEF Dissected, TimeOf
  <1>6. \A i : Described(input.blocks[i])' = Described(input.blocks[i])
    BY DEF Described
  <1> QED
    BY <1>1, <1>2, <1>3, <1>5, <1>6 DEF PacketOf

LEMMA PassedStep ==
    ASSUME input \in Captures, PassedOK, Frames!Reading, input' = input,
           work'.at = work.at + 1, work'.order = work.order
    PROVE  PassedOK' /\ work.at \in DOMAIN input.blocks /\ work.at \in Nat \ {0} /\ Readable(work.at)
  <1>1. Len(input.blocks) \in Nat /\ DOMAIN input.blocks = 1..Len(input.blocks)
    BY CaptureShape
  <1>2. /\ work.at \in 1..Len(input.blocks) /\ input.blocks[work.at].sound
        /\ input.blocks[work.at].order = work.order
        /\ input.format = "pcap" => ~input.blocks[work.at].short
    BY <1>1 DEF PassedOK, Frames!Reading, Frames!Block
  <1>3. work.order = input.blocks[1].order
    BY <1>1, <1>2 DEF PassedOK
  <1>4. \A j \in 1..work.at : j \in 1..work.at - 1 \/ j = work.at
    BY <1>2
  <1>5. \A j \in 1..work.at : /\ input.blocks[j].sound /\ input.blocks[j].order = input.blocks[1].order
                              /\ input.format = "pcap" => ~input.blocks[j].short
    BY <1>2, <1>3, <1>4, Zenon DEF PassedOK
  <1>6. work.at + 1 \in 1..Len(input.blocks) + 1 /\ (work.at + 1) - 1 = work.at
    BY <1>1, <1>2
  <1> QED
    BY <1>1, <1>2, <1>3, <1>5, <1>6 DEF PassedOK, Readable

(* A block that holds no frame, and one that does.                          *)
LEMMA ReportKept ==
    ASSUME input \in Captures, ReportOK, work.at \in Nat, work.at \notin FrameBlocks, input' = input, report' = report,
           work'.at = work.at + 1, work'.frames = work.frames
    PROVE  ReportOK'
  <1>1. FramesBefore(work.at + 1) = FramesBefore(work.at)
    BY FramesCounted
  <1>2. (FramesBefore(work.at))' = FramesBefore(work.at)
    BY <1>1, SameCapture
  <1> QED
    BY <1>2, SameCapture DEF ReportOK

LEMMA ReportYield ==
    ASSUME input \in Captures, ReportOK, work.at \in Nat, work.at \in FrameBlocks, work.frames < MaxFrames, input' = input,
           report' = IF Dissected(work.at) = Frames!None THEN report ELSE Append(report, PacketOf(work.at)),
           work'.at = work.at + 1, work'.frames = work.frames + 1
    PROVE  ReportOK'
  <1> DEFINE x == PacketOf(work.at)
             before == FramesBefore(work.at)
             Packets(F) == {PacketOf(i) : i \in {j \in F : Dissected(j) # Frames!None}}
  <1>1. /\ FramesBefore(work.at + 1) = before \cup {work.at}
        /\ Cardinality(before \cup {work.at}) = Cardinality(before) + 1 /\ Cardinality(before) \in Nat
    BY FramesCounted, Zenon
  <1>2. (FramesBefore(work.at))' = before \cup {work.at}
    BY <1>1, SameCapture
  <1>3. work.frames = Cardinality(before) /\ MaxFrames \in Nat
    BY CapturesAssumption DEF ReportOK
  <1>4. work'.frames = Cardinality(before \cup {work.at}) /\ work'.frames <= MaxFrames
    BY <1>1, <1>3
  <1>5. x.frame_no = work.frames + 1
    BY <1>3, NumberIs DEF PacketOf
  <1>6. PICK S : report \in Seq(S)
    BY DEF ReportOK
  <1>7. /\ ToSet(report) = Packets(before)
        /\ \A m, n \in DOMAIN report : m < n => report[m].frame_no < report[n].frame_no
        /\ \A m \in DOMAIN report : report[m].frame_no \in Nat /\ report[m].frame_no <= work.frames
    BY DEF ReportOK
  <1>8. Packets(before \cup {work.at}) =
           Packets(before) \cup (IF Dissected(work.at) # Frames!None THEN {x} ELSE {})
    OBVIOUS
  <1>9. (\E T : report \in Seq(T))' /\ ToSet(report') = Packets(before \cup {work.at})
    <2>1. CASE Dissected(work.at) = Frames!None
      BY <1>6, <1>7, <1>8, <2>1
    <2>2. CASE Dissected(work.at) # Frames!None
      <3>1. report' = Append(report, x)
        BY <2>2
      <3> HIDE DEF x
      <3>2. Append(report, x) \in Seq(S \cup {x}) /\ ToSet(Append(report, x)) = ToSet(report) \cup {x}
        BY <1>6, PlaceAdded, Zenon
      <3> HIDE DEF Packets
      <3> QED
        BY <1>7, <1>8, <2>2, <3>1, <3>2, Zenon
    <2> QED
      BY <2>1, <2>2
  <1>10. /\ \A m, n \in DOMAIN report' : m < n => report'[m].frame_no < report'[n].frame_no
         /\ \A m \in DOMAIN report' : report'[m].frame_no \in Nat /\ report'[m].frame_no <= work.frames + 1
    <2>1. CASE report' = report
      BY <1>1, <1>3, <1>7, <2>1
    <2>2. CASE report' = Append(report, x)
      <3> HIDE DEF x, before
      <3>1. /\ DOMAIN report = 1..Len(report) /\ Len(report) \in Nat
            /\ DOMAIN report' = 1..Len(report) + 1 /\ report'[Len(report) + 1] = x
            /\ \A m \in DOMAIN report : report'[m] = report[m]
        BY <1>6, <2>2
      <3>2. \A m \in DOMAIN report' : m \in DOMAIN report \/ m = Len(report) + 1
        BY <3>1
      <3>3. \A m \in DOMAIN report : report'[m].frame_no \in Nat /\ report'[m].frame_no < work.frames + 1
        BY <1>1, <1>3, <1>7, <3>1
      <3>4. \A m \in DOMAIN report' : report'[m].frame_no \in Nat /\ report'[m].frame_no <= work.frames + 1
        BY <1>1, <1>3, <1>5, <3>1, <3>2, <3>3
      <3>5. ASSUME NEW m \in DOMAIN report', NEW n \in DOMAIN report', m < n
            PROVE  report'[m].frame_no < report'[n].frame_no
        <4>1. m \in DOMAIN report
          BY <3>1, <3>2, <3>5
        <4>2. CASE n \in DOMAIN report
          BY <1>7, <3>1, <3>5, <4>1, <4>2
        <4>3. CASE n = Len(report) + 1
          BY <1>5, <3>1, <3>3, <4>1, <4>3
        <4> QED
          BY <3>2, <4>2, <4>3
      <3> QED
        BY <3>4, <3>5
    <2> QED
      BY <2>1, <2>2
  <1>11. {PacketOf(i) : i \in {j \in FramesBefore(work.at) : Dissected(j) # Frames!None}}'
           = Packets(before \cup {work.at})
    BY <1>2, SameCapture
  <1> HIDE DEF Packets, before
  <1>12. (ToSet(report) = {PacketOf(i) : i \in {j \in FramesBefore(work.at) : Dissected(j) # Frames!None}})'
    BY <1>9, <1>11, Zenon
  <1> QED
    BY <1>2, <1>4, <1>9, <1>10, <1>12, Zenon DEF ReportOK

(* The list of interfaces.                                                  *)
LEMMA InterfacesKept ==
    ASSUME InterfacesOK, work.at \in Nat \ {0}, input' = input, work'.at = work.at + 1, work'.interfaces = work.interfaces,
           input.format = "pcapng" => input.blocks[work.at].kind \notin {"section", "interface"}
    PROVE  InterfacesOK'
  <1> SUFFICES ASSUME input.format = "pcapng" PROVE InterfacesOK'
    BY DEF InterfacesOK
  <1>1. Declared(work.at + 1) = Declared(work.at)
    BY DeclaredNext
  <1>2. \A n : Nth(work.at + 1, n) = Nth(work.at, n)
    BY <1>1 DEF Nth
  <1> QED
    BY <1>1, <1>2, SameCapture DEF InterfacesOK, Described

LEMMA InterfacesDropped ==
    ASSUME work.at \in Nat \ {0}, input' = input, work'.at = work.at + 1, work'.interfaces = <<>>,
           input.blocks[work.at].kind = "section"
    PROVE  InterfacesOK'
  <1>1. Declared(work.at + 1) = {}
    BY DeclaredNext
  <1>2. \A n : Nth(work.at + 1, n) = {}
    BY <1>1 DEF Nth
  <1>3. Cardinality(Declared(work.at + 1)) = 0
    BY <1>1, FS_EmptySet, Zenon
  <1>4. <<>> \in Seq({}) /\ DOMAIN <<>> = {} /\ Len(<<>>) = 0
    OBVIOUS
  <1> QED
    BY <1>2, <1>3, <1>4, SameCapture DEF InterfacesOK

LEMMA InterfacesAdded ==
    ASSUME InterfacesOK, work.at \in Nat \ {0}, input' = input, work'.at = work.at + 1, input.format = "pcapng",
           input.blocks[work.at].kind = "interface",
           work'.interfaces = Append(work.interfaces, Described(input.blocks[work.at]))
    PROVE  InterfacesOK'
  <1> DEFINE x == Described(input.blocks[work.at])
             list == work.interfaces
  <1>1. PICK S : list \in Seq(S)
    BY DEF InterfacesOK
  <1>2. /\ Cardinality(Declared(work.at)) = Len(list)
        /\ \A n : Nth(work.at, n) # {} <=> n \in DOMAIN list
        /\ \A n \in DOMAIN list : \A j \in Nth(work.at, n) : list[n] = Described(input.blocks[j])
    BY DEF InterfacesOK
  <1> HIDE DEF x, list
  <1>3. /\ DOMAIN list = 1..Len(list) /\ Len(list) \in Nat /\ Append(list, x) \in Seq(S \cup {x})
        /\ DOMAIN Append(list, x) = 1..Len(list) + 1 /\ Append(list, x)[Len(list) + 1] = x
        /\ Len(Append(list, x)) = Len(list) + 1
        /\ \A n \in 1..Len(list) : Append(list, x)[n] = list[n]
    BY <1>1
  <1>4. Cardinality(Declared(work.at + 1)) = Len(list) + 1
    <2>1. IsFiniteSet(Declared(work.at)) /\ work.at \notin Declared(work.at)
      BY DeclaredFinite, SMTT(30)
    <2>2. Declared(work.at + 1) = Declared(work.at) \cup {work.at}
      BY DeclaredNext
    <2>3. Cardinality(Declared(work.at) \cup {work.at}) = Cardinality(Declared(work.at)) + 1
      BY <2>1, FS_AddElement, Zenon
    <2> QED
      BY <1>2, <2>2, <2>3, Zenon
  <1>5. \A n : Nth(work.at + 1, n) = Nth(work.at, n) \cup (IF n = Len(list) + 1 THEN {work.at} ELSE {})
    BY <1>2, NthNext
  <1>6. \A n : n \in 1..Len(list) + 1 <=> n \in 1..Len(list) \/ n = Len(list) + 1
    BY <1>3
  <1>7. Len(list) + 1 \notin 1..Len(list)
    BY <1>3
  <1>8. \A n : Nth(work.at + 1, n) # {} <=> n \in DOMAIN Append(list, x)
    BY <1>2, <1>3, <1>5, <1>6, Zenon
  <1>9. \A n \in DOMAIN Append(list, x) : \A j \in Nth(work.at + 1, n) :
            Append(list, x)[n] = Described(input.blocks[j])
    <2>1. ASSUME NEW n \in 1..Len(list), NEW j \in Nth(work.at + 1, n)
          PROVE  Append(list, x)[n] = Described(input.blocks[j])
      BY <1>2, <1>3, <1>5, <1>7
    <2>2. Nth(work.at, Len(list) + 1) = {}
      BY <1>2, <1>3, <1>7
    <2>3. \A j \in Nth(work.at + 1, Len(list) + 1) : j = work.at
      BY <1>5, <2>2
    <2> QED
      BY <1>3, <1>6, <2>1, <2>3 DEF x
  <1>10. work'.interfaces = Append(list, x)
    BY DEF list, x
  <1>11. (\E T : work.interfaces \in Seq(T))' /\ Len(work'.interfaces) = Len(list) + 1
    BY <1>3, <1>10
  <1>12. (Cardinality(Declared(work.at)) = Len(work.interfaces))'
    BY <1>4, <1>11, SameCapture
  <1>13. (\A n : Nth(work.at, n) # {} <=> n \in DOMAIN work.interfaces)'
    BY <1>8, <1>10, SameCapture, Zenon
  <1>14. (\A n \in DOMAIN work.interfaces : \A j \in Nth(work.at, n) :
              work.interfaces[n] = Described(input.blocks[j]))'
    <2>1. \A n : Nth(work.at, n)' = Nth(work.at + 1, n)
      BY SameCapture, Zenon
    <2>2. \A j : Described(input.blocks[j])' = Described(input.blocks[j])
      BY SameCapture
    <2>3. \A n \in (DOMAIN work.interfaces)' : \A j \in Nth(work.at, n)' :
              work'.interfaces[n] = Described(input.blocks[j])
      BY <1>9, <1>10, <2>1
    <2>4. \A n \in (DOMAIN work.interfaces)' : \A j \in Nth(work.at, n)' :
              work'.interfaces[n] = Described(input.blocks[j])'
      BY <2>2, <2>3
    <2> QED
      BY <2>4
  <1> QED
    BY <1>11, <1>12, <1>13, <1>14 DEF InterfacesOK

LEMMA FramesInit == Init => FramesInv
  <1> SUFFICES ASSUME Init, kind = "pcap_file" PROVE FramesInv
    BY DEF FramesInv
  <1>1. /\ input \in Captures /\ report = <<>>
        /\ DOMAIN work = {"at", "order", "interfaces", "frames", "done", "truncated"}
        /\ work.at = 1 /\ work.interfaces = <<>> /\ work.frames = 0 /\ ~work.done
        /\ work.order = IF input.blocks = <<>> THEN "none" ELSE input.blocks[1].order
    BY DEF Init, Frames!Init
  <1>2. PassedOK
    BY <1>1, CaptureShape DEF PassedOK
  <1>3. InterfacesOK
    <2>1. Declared(1) = {}
      BY DEF Declared
    <2>2. \A n : Nth(1, n) = {}
      BY <2>1 DEF Nth
    <2>3. Cardinality(Declared(1)) = 0
      BY <2>1, FS_EmptySet
    <2>4. <<>> \in Seq({}) /\ DOMAIN <<>> = {} /\ Len(<<>>) = 0
      OBVIOUS
    <2> QED
      BY <1>1, <2>2, <2>3, <2>4 DEF InterfacesOK
  <1>4. ReportOK
    <2>1. FramesBefore(1) = {}
      <3>1. \A j \in FrameBlocks : ~(j < 1)
        BY <1>1, CaptureShape DEF FrameBlocks
      <3> QED
        BY <3>1, BeforeIs
    <2>2. Cardinality(FramesBefore(1)) = 0
      BY <2>1, FS_EmptySet
    <2>3. <<>> \in Seq({}) /\ DOMAIN <<>> = {} /\ ToSet(<<>>) = {}
      BY DEF ToSet
    <2>4. MaxFrames \in Nat
      BY CapturesAssumption
    <2> QED
      BY <1>1, <2>1, <2>2, <2>3, <2>4 DEF ReportOK
  <1> QED
    BY <1>1, <1>2, <1>3, <1>4 DEF FramesInv

LEMMA FramesStep ==
    ASSUME kind = "pcap_file", kind' = kind, FramesInv, Frames!Next
    PROVE  FramesInv'
  <1> DEFINE at == work.at
             block == input.blocks[work.at]
  <1>1. /\ input \in Captures /\ PassedOK /\ InterfacesOK /\ ReportOK
        /\ DOMAIN work = {"at", "order", "interfaces", "frames", "done", "truncated"}
        /\ work.done => ~Frames!Reading
    BY DEF FramesInv
  <1>2. ASSUME Frames!Reading, input' = input, DOMAIN work' = DOMAIN work, work'.at = work.at + 1,
               work'.order = work.order, work'.done = work.done, InterfacesOK', ReportOK'
        PROVE  FramesInv'
    BY <1>1, <1>2, PassedStep DEF FramesInv
  <1>3. ASSUME Frames!Reading, NEW interface, NEW ts, Frames!Yield(Frames!Block, interface, ts), input' = input,
               HoldsFrame(at), interface.link = InterfaceOf(at).link, ts = TimeOf(at),
               input.format = "pcapng" => block.kind \notin {"section", "interface"}
        PROVE  FramesInv'
    <2> DEFINE packet == Dissected(at)
    <2>1. packet = Frames!Dissect([link |-> interface.link, headers |-> Frames!Block.headers,
                                   lengths |-> Frames!Block.lengths])
      BY <1>3 DEF Dissected, Frames!Block
    <2> HIDE DEF packet
    <2>2. /\ work' = [work EXCEPT !.at = @ + 1, !.frames = work.frames + 1]
          /\ report' = IF packet = Frames!None THEN report
                       ELSE Append(report, [data |-> packet, frame_no |-> work.frames + 1, ts |-> ts])
      BY <1>3, <2>1 DEF Frames!Yield
    <2>3. /\ work'.at = work.at + 1 /\ work'.frames = work.frames + 1 /\ work'.interfaces = work.interfaces
          /\ work'.order = work.order /\ work'.done = work.done /\ DOMAIN work' = DOMAIN work
      BY <1>1, <2>2
    <2>4. work.at \in DOMAIN input.blocks /\ work.at \in Nat \ {0} /\ Readable(work.at)
      BY <1>1, <1>3, <2>3, PassedStep
    <2>5. work.at \in FrameBlocks
      BY <1>3, <2>4 DEF FrameBlocks
    <2>6. PacketOf(work.at) = [data |-> packet, frame_no |-> work.frames + 1, ts |-> ts]
      <3>1. Number(work.at) = work.frames + 1
        BY <1>1, <2>5, NumberIs DEF ReportOK
      <3> QED
        BY <1>3, <3>1 DEF PacketOf, packet
    <2>7. report' = IF Dissected(work.at) = Frames!None THEN report ELSE Append(report, PacketOf(work.at))
      BY <2>2, <2>6 DEF packet
    <2>8. work.frames < MaxFrames
      BY <1>3 DEF Frames!Reading
    <2>9. ReportOK'
      BY <1>1, <1>3, <2>3, <2>4, <2>5, <2>7, <2>8, ReportYield
    <2>10. InterfacesOK'
      BY <1>1, <1>3, <2>3, <2>4, InterfacesKept
    <2> QED
      BY <1>2, <1>3, <2>3, <2>9, <2>10
  <1>4. ASSUME Frames!Reading, input' = input, report' = report, ~HoldsFrame(at), InterfacesOK',
               DOMAIN work' = DOMAIN work, work'.at = work.at + 1, work'.frames = work.frames,
               work'.order = work.order, work'.done = work.done
        PROVE  FramesInv'
    <2>1. work.at \in Nat /\ work.at \notin FrameBlocks
      BY <1>1, <1>4, PassedStep DEF FrameBlocks
    <2>2. ReportOK'
      BY <1>1, <1>4, <2>1, ReportKept
    <2> QED
      BY <1>2, <1>4, <2>2
  <1>5. ASSUME Frames!Reading, input' = input, work' = [work EXCEPT !.at = @ + 1], report' = report, ~HoldsFrame(at),
               input.format = "pcapng" => block.kind \notin {"section", "interface"}
        PROVE  FramesInv'
    <2>1. /\ work'.at = work.at + 1 /\ work'.frames = work.frames /\ work'.interfaces = work.interfaces
          /\ work'.order = work.order /\ work'.done = work.done /\ DOMAIN work' = DOMAIN work
      BY <1>1, <1>5
    <2>2. work.at \in Nat \ {0}
      BY <1>1, <1>5, <2>1, PassedStep
    <2>3. InterfacesOK'
      BY <1>1, <1>5, <2>1, <2>2, InterfacesKept
    <2> QED
      BY <1>4, <1>5, <2>1, <2>3
  <1>6. ASSUME input.format = "pcapng", Frames!Reading, NEW n, n = IF block.kind = "simple" THEN 1 ELSE block.interface
        PROVE  InterfaceOf(at) = IF n \in DOMAIN work.interfaces THEN work.interfaces[n] ELSE Frames!NoInterface
    <2>1. /\ Nth(at, n) # {} <=> n \in DOMAIN work.interfaces
          /\ n \in DOMAIN work.interfaces =>
                \A j \in Nth(at, n) : work.interfaces[n] = Described(input.blocks[j])
      BY <1>1, <1>6 DEF InterfacesOK
    <2> DEFINE named == Nth(at, n)
    <2>2. InterfaceOf(at) = IF named = {} THEN Frames!NoInterface
                            ELSE Described(input.blocks[CHOOSE j \in named : TRUE])
      BY <1>6 DEF InterfaceOf
    <2> HIDE DEF named
    <2>3. named # {} => (CHOOSE j \in named : TRUE) \in named
      OBVIOUS
    <2> QED
      BY <2>1, <2>2, <2>3 DEF named
  <1>7. CASE Frames!ReadRecord
    <2>1. /\ Frames!Reading /\ input.format = "pcap" /\ input' = input
          /\ Frames!Yield(Frames!Block, [link |-> input.link, tick |-> input.tick], Frames!Block.ticks * input.tick)
      BY <1>7 DEF Frames!ReadRecord
    <2>2. InterfaceOf(at) = [link |-> input.link, tick |-> input.tick] /\ HoldsFrame(at)
      BY <2>1 DEF InterfaceOf, HoldsFrame
    <2>3. TimeOf(at) = Frames!Block.ticks * input.tick
      BY <2>1, <2>2 DEF TimeOf, Frames!Block
    <2> QED
      BY <1>3, <2>1, <2>2, <2>3
  <1>8. CASE Frames!ReadSection
    <2>1. /\ Frames!Reading /\ input.format = "pcapng" /\ block.kind = "section" /\ input' = input /\ report' = report
          /\ work' = [work EXCEPT !.at = @ + 1, !.interfaces = <<>>]
      BY <1>8 DEF Frames!ReadSection, Frames!Block
    <2>2. /\ work'.at = work.at + 1 /\ work'.frames = work.frames /\ work'.interfaces = <<>>
          /\ work'.order = work.order /\ work'.done = work.done /\ DOMAIN work' = DOMAIN work
      BY <1>1, <2>1
    <2>3. work.at \in Nat \ {0}
      BY <1>1, <2>1, <2>2, PassedStep
    <2>4. InterfacesOK'
      BY <2>1, <2>2, <2>3, InterfacesDropped
    <2>5. ~HoldsFrame(at)
      BY <2>1 DEF HoldsFrame
    <2> QED
      BY <1>4, <2>1, <2>2, <2>4, <2>5
  <1>9. CASE Frames!ReadInterface
    <2>1. /\ Frames!Reading /\ input.format = "pcapng" /\ block.kind = "interface" /\ input' = input /\ report' = report
          /\ work' = [work EXCEPT !.at = @ + 1, !.interfaces = Append(@, Described(block))]
      BY <1>9 DEF Frames!ReadInterface, Frames!Block, Described
    <2>2. /\ work'.at = work.at + 1 /\ work'.frames = work.frames
          /\ work'.interfaces = Append(work.interfaces, Described(block))
          /\ work'.order = work.order /\ work'.done = work.done /\ DOMAIN work' = DOMAIN work
      BY <1>1, <2>1
    <2>3. work.at \in Nat \ {0}
      BY <1>1, <2>1, <2>2, PassedStep
    <2>4. InterfacesOK'
      BY <1>1, <2>1, <2>2, <2>3, InterfacesAdded
    <2>5. ~HoldsFrame(at)
      BY <2>1 DEF HoldsFrame
    <2> QED
      BY <1>4, <2>1, <2>2, <2>4, <2>5
  <1>10. CASE Frames!ReadEnhanced
    <2> DEFINE n == block.interface
               interface == IF n \in DOMAIN work.interfaces THEN work.interfaces[n] ELSE Frames!NoInterface
    <2>1. /\ Frames!Reading /\ input.format = "pcapng" /\ block.kind = "enhanced" /\ input' = input
          /\ IF block.short THEN Frames!Skip ELSE Frames!Yield(Frames!Block, interface, block.ticks * interface.tick)
      BY <1>10 DEF Frames!ReadEnhanced, Frames!Block
    <2>2. InterfaceOf(at) = interface
      BY <1>6, <2>1
    <2> HIDE DEF interface
    <2>3. CASE block.short
      <3>1. ~HoldsFrame(at) /\ work' = [work EXCEPT !.at = @ + 1] /\ report' = report
        BY <2>1, <2>3 DEF HoldsFrame, Frames!Skip
      <3> QED
        BY <1>5, <2>1, <3>1
    <2>4. CASE ~block.short
      <3>1. HoldsFrame(at) /\ TimeOf(at) = block.ticks * interface.tick
        BY <2>1, <2>2, <2>4 DEF HoldsFrame, TimeOf
      <3> QED
        BY <1>3, <2>1, <2>2, <2>4, <3>1
    <2> QED
      BY <2>3, <2>4
  <1>11. CASE Frames!ReadSimple
    <2> DEFINE interface == IF work.interfaces = <<>> THEN Frames!NoInterface ELSE work.interfaces[1]
    <2>1. /\ Frames!Reading /\ input.format = "pcapng" /\ block.kind = "simple" /\ input' = input
          /\ IF block.short THEN Frames!Skip ELSE Frames!Yield(Frames!Block, interface, 0)
      BY <1>11 DEF Frames!ReadSimple, Frames!Block
    <2>2. InterfaceOf(at) = interface
      <3>1. PICK S : work.interfaces \in Seq(S)
        BY <1>1, <2>1 DEF InterfacesOK
      <3>2. 1 \in DOMAIN work.interfaces <=> work.interfaces # <<>>
        BY <3>1
      <3>3. InterfaceOf(at) = IF 1 \in DOMAIN work.interfaces THEN work.interfaces[1] ELSE Frames!NoInterface
        BY <1>6, <2>1
      <3> QED
        BY <3>2, <3>3
    <2> HIDE DEF interface
    <2>3. CASE block.short
      <3>1. ~HoldsFrame(at) /\ work' = [work EXCEPT !.at = @ + 1] /\ report' = report
        BY <2>1, <2>3 DEF HoldsFrame, Frames!Skip
      <3> QED
        BY <1>5, <2>1, <3>1
    <2>4. CASE ~block.short
      <3>1. HoldsFrame(at) /\ TimeOf(at) = 0
        BY <2>1, <2>4 DEF HoldsFrame, TimeOf
      <3> QED
        BY <1>3, <2>1, <2>2, <2>4, <3>1
    <2> QED
      BY <2>3, <2>4
  <1>12. CASE Frames!SkipBlock
    <2>1. /\ Frames!Reading /\ input.format = "pcapng" /\ block.kind = "other" /\ input' = input
          /\ work' = [work EXCEPT !.at = @ + 1] /\ report' = report
      BY <1>12 DEF Frames!SkipBlock, Frames!Skip, Frames!Block
    <2>2. ~HoldsFrame(at)
      BY <2>1 DEF HoldsFrame
    <2> QED
      BY <1>5, <2>1, <2>2
  <1>13. CASE Frames!Finish
    <2>1. /\ ~Frames!Reading /\ input' = input /\ report' = report
          /\ work' = [work EXCEPT !.done = TRUE, !.truncated = Len(report) >= MaxFrames]
      BY <1>13 DEF Frames!Finish
    <2>2. /\ work'.at = work.at /\ work'.frames = work.frames /\ work'.interfaces = work.interfaces
          /\ work'.order = work.order /\ DOMAIN work' = DOMAIN work
      BY <1>1, <2>1
    <2>3. PassedOK' /\ InterfacesOK' /\ ReportOK'
      BY <1>1, <2>1, <2>2, SameCapture DEF PassedOK, InterfacesOK, ReportOK
    <2>4. ~Frames!Reading'
      BY <2>1, <2>2 DEF Frames!Reading, Frames!Block
    <2> QED
      BY <1>1, <2>1, <2>2, <2>3, <2>4 DEF FramesInv
  <1> QED
    BY <1>7, <1>8, <1>9, <1>10, <1>11, <1>12, <1>13 DEF Frames!Next

(* In every behaviour: whatever blocks a capture holds, the packets         *)
(* reported are those of its frames, with the link type and the clock of    *)
(* the interface each one's own section declared, in the order of the file  *)
(* (iter_pcap_classic, iter_pcapng of analyze/pcap_parse.py).               *)
THEOREM FramesTheorem == Spec => []FramesOfSections
  <1>1. Init => FramesInv
    BY FramesInit
  <1>2. FramesInv /\ [Next]_vars => FramesInv'
    <2> SUFFICES ASSUME FramesInv, [Next]_vars, kind' = "pcap_file" PROVE FramesInv'
      BY DEF FramesInv
    <2>1. CASE UNCHANGED vars
      <3>1. input' = input /\ work' = work /\ report' = report
        BY <2>1 DEF vars
      <3>2. kind = "pcap_file"
        BY <2>1 DEF vars
      <3>3. PassedOK' /\ InterfacesOK' /\ ReportOK'
        BY <3>1, <3>2, SameCapture DEF FramesInv, PassedOK, InterfacesOK, ReportOK
      <3>4. Frames!Reading' = Frames!Reading
        BY <3>1 DEF Frames!Reading, Frames!Block
      <3> QED
        BY <3>1, <3>2, <3>3, <3>4 DEF FramesInv
    <2>2. CASE Next
      <3>1. kind = "pcap_file" /\ Frames!Next
        BY <2>2 DEF Next
      <3> QED
        BY <3>1, FramesStep
    <2> QED
      BY <2>1, <2>2
  <1>3. FramesInv => FramesOfSections
    <2> SUFFICES ASSUME FramesInv, Ended("pcap_file") PROVE FramesOfSections
      BY DEF FramesOfSections
    <2>1. input \in Captures /\ PassedOK /\ ReportOK /\ ~Frames!Reading
      BY DEF FramesInv, Ended
    <2>2. /\ Len(input.blocks) \in Nat /\ DOMAIN input.blocks = 1..Len(input.blocks) /\ MaxFrames \in Nat
          /\ work.at \in Nat \ {0}
      BY <2>1, CaptureShape, CapturesAssumption DEF PassedOK
    <2>3. \A i \in FramesBefore(work.at) : i \in FrameBlocks /\ Number(i) <= MaxFrames
      <3> SUFFICES ASSUME NEW i \in FramesBefore(work.at) PROVE i \in FrameBlocks /\ Number(i) <= MaxFrames
        OBVIOUS
      <3>1. i \in FrameBlocks /\ i \in Nat /\ i + 1 <= work.at
        BY <2>1, <2>2, BeforeIs
      <3>2. /\ Cardinality(FramesBefore(i + 1)) <= Cardinality(FramesBefore(work.at))
            /\ Number(i) = Cardinality(FramesBefore(i)) + 1 /\ Number(i) \in Nat
            /\ Cardinality(FramesBefore(i + 1)) = Cardinality(FramesBefore(i)) + 1
        <4>1. Number(i) = Cardinality(FramesBefore(i)) + 1 /\ Number(i) \in Nat
          BY <2>1, <3>1, NumberIs
        <4>2. Cardinality(FramesBefore(i + 1)) = Cardinality(FramesBefore(i)) + 1
          BY <2>1, <3>1, FramesCounted
        <4>3. i + 1 \in Nat /\ work.at \in Nat
          BY <2>2, <3>1
        <4>4. Cardinality(FramesBefore(i + 1)) <= Cardinality(FramesBefore(work.at))
          BY <2>1, <3>1, <4>3, NumbersRise
        <4> QED
          BY <4>1, <4>2, <4>4
      <3>3. Cardinality(FramesBefore(work.at)) = work.frames /\ work.frames <= MaxFrames
        BY <2>1 DEF ReportOK
      <3>4. Cardinality(FramesBefore(work.at)) \in Nat
        BY <2>1, <2>2, FramesCounted, Zenon
      <3> QED
        BY <2>2, <3>1, <3>2, <3>3, <3>4
    <2>4. \A i \in FrameBlocks : Number(i) <= MaxFrames => i \in FramesBefore(work.at)
      <3> SUFFICES ASSUME NEW i \in FrameBlocks, Number(i) <= MaxFrames, i >= work.at PROVE FALSE
        BY <2>1, <2>2, BeforeIs
      <3>1. i \in DOMAIN input.blocks /\ Readable(i) /\ HoldsFrame(i) /\ i \in Nat
        BY <2>2 DEF FrameBlocks
      <3>2. work.at \in 1..i /\ 1 \in DOMAIN input.blocks /\ work.at <= Len(input.blocks)
        BY <2>2, <3>1
      <3>3. /\ input.blocks[work.at].sound /\ input.blocks[work.at].order = work.order
            /\ input.format = "pcap" => ~input.blocks[work.at].short
        BY <2>1, <3>1, <3>2 DEF Readable, PassedOK
      <3>4. input.format \in {"pcap", "pcapng"}
        BY <3>1 DEF HoldsFrame
      <3>5. ~(work.frames < MaxFrames)
        BY <2>1, <3>2, <3>3, <3>4 DEF Frames!Reading, Frames!Block
      <3>6. /\ Cardinality(FramesBefore(work.at)) <= Cardinality(FramesBefore(i))
            /\ Number(i) = Cardinality(FramesBefore(i)) + 1
            /\ Cardinality(FramesBefore(work.at)) \in Nat /\ Cardinality(FramesBefore(i)) \in Nat
        BY <2>1, <2>2, <3>1, NumbersRise, NumberIs, FramesCounted, Zenon
      <3>7. Cardinality(FramesBefore(work.at)) = work.frames
        BY <2>1 DEF ReportOK
      <3> QED
        BY <2>2, <3>5, <3>6, <3>7
    <2>5. {j \in FrameBlocks : Number(j) <= MaxFrames /\ Dissected(j) # Frames!None}
             = {j \in FramesBefore(work.at) : Dissected(j) # Frames!None}
      BY <2>3, <2>4
    <2> QED
      BY <2>1, <2>5 DEF FramesOfSections, ReportOK
  <1> QED
    BY <1>1, <1>2, <1>3, PTL DEF Spec

-----------------------------------------------------------------------------
(* HTTP heads. A direction that was not parsed yet has in its buffer the    *)
(* beginning of its stream, and no whole head.                              *)

(* What a direction carries is a stream of parts, put together of the       *)
(* payloads of its segments.                                                *)
LEMMA StreamIs ==
    ASSUME NEW P, NEW packets \in Seq(P), NEW X, \A i \in 1..Len(packets) : packets[i].payload \in Seq(X), NEW dir
    PROVE  /\ StreamAfter(packets, dir) \in [0..Len(packets) -> Seq(X)]
           /\ Joins(StreamAfter(packets, dir), Len(packets), [i \in 1..Len(packets) |-> Carries(packets[i], dir)])
  <1> DEFINE n == Len(packets)
             part == [i \in 1..n |-> Carries(packets[i], dir)]
             R(f) == f = [i \in 0..n |-> IF i = 0 THEN <<>> ELSE f[i - 1] \o Carries(packets[i], dir)]
             after == CHOOSE f : R(f)
  <1>1. n \in Nat
    OBVIOUS
  <1>2. \A i \in 1..n : part[i] \in Seq(X) /\ part[i] = Carries(packets[i], dir)
    BY EmptySeq DEF Carries
  <1> HIDE DEF part
  <1>3. PICK f \in [0..n -> Seq(X)] : Joins(f, n, part)
    BY <1>1, <1>2, JoinExists, Zenon
  <1>4. R(f)
    <2>1. f = [i \in 0..n |-> f[i]]
      OBVIOUS
    <2>2. \A i \in 0..n : f[i] = IF i = 0 THEN <<>> ELSE f[i - 1] \o Carries(packets[i], dir)
      <3> SUFFICES ASSUME NEW i \in 0..n PROVE f[i] = IF i = 0 THEN <<>> ELSE f[i - 1] \o Carries(packets[i], dir)
        OBVIOUS
      <3>1. f[i] = IF i = 0 THEN <<>> ELSE f[i - 1] \o part[i]
        BY <1>3, Zenon DEF Joins
      <3>2. i # 0 => part[i] = Carries(packets[i], dir)
        BY <1>2
      <3> QED
        BY <3>1, <3>2
    <2> HIDE DEF n
    <2> QED
      BY <2>1, <2>2, Zenon
  <1>5. R(after)
    <2> HIDE DEF R
    <2> QED
      BY <1>4
  <1>6. StreamAfter(packets, dir) = after
    BY DEF StreamAfter
  <1> HIDE DEF after
  <1>7. \A i \in 0..n : after[i] = IF i = 0 THEN <<>> ELSE after[i - 1] \o part[i]
    <2> SUFFICES ASSUME NEW i \in 0..n PROVE after[i] = IF i = 0 THEN <<>> ELSE after[i - 1] \o part[i]
      OBVIOUS
    <2>1. after[i] = IF i = 0 THEN <<>> ELSE after[i - 1] \o Carries(packets[i], dir)
      BY <1>5, Zenon
    <2>2. i # 0 => part[i] = Carries(packets[i], dir)
      BY <1>2
    <2> QED
      BY <2>1, <2>2
  <1>8. \A i \in 0..n : after[i] = f[i]
    <2> DEFINE Bad == {i \in 0..n : after[i] # f[i]}
    <2> SUFFICES ASSUME Bad # {} PROVE FALSE
      OBVIOUS
    <2>0. Bad \subseteq Nat
      OBVIOUS
    <2>1. PICK i \in Bad : \A j \in Bad : i <= j
      BY <2>0, LeastNatural, Zenon
    <2>2. i # 0
      BY <1>3, <1>7, Zenon DEF Joins
    <2>3. i - 1 \in 0..n /\ i \in 0..n /\ after[i] # f[i] /\ ~(i <= i - 1)
      BY <2>1, <2>2
    <2>4. after[i - 1] = f[i - 1]
      BY <2>1, <2>3
    <2> QED
      BY <1>3, <1>7, <2>2, <2>3, <2>4, Zenon DEF Joins
  <1>9. after = f
    <2>1. DOMAIN after = 0..n /\ after = [i \in 0..n |-> after[i]]
      BY <1>5
    <2> QED
      BY <1>8, <2>1
  <1> QED
    BY <1>3, <1>6, <1>9 DEF part

(* A whole head in the buffer is the first one of the stream.               *)
LEMMA FirstEnd ==
    ASSUME NEW X, NEW b \in Seq(X), \E i \in DOMAIN b : b[i].t = "end"
    PROVE  LET e == Capture!SelectInSeq(b, LAMBDA x : x.t = "end")
           IN  e \in 1..Len(b) /\ b[e].t = "end" /\ \A j \in 1..Len(b) : j < e => b[j].t # "end"
  <1> DEFINE I == {i \in 1..Len(b) : b[i].t = "end"}
             e == Capture!SelectInSeq(b, LAMBDA x : x.t = "end")
  <1>1. I \subseteq Nat /\ I # {}
    OBVIOUS
  <1>2. PICK m \in I : \A j \in I : m <= j
    BY <1>1, LeastNatural, Zenon
  <1>3. e = Capture!Min(I)
    BY <1>1 DEF Capture!SelectInSeq
  <1>4. Capture!Min(I) \in I /\ \A j \in I : Capture!Min(I) <= j
    BY <1>2, Zenon DEF Capture!Min
  <1> HIDE DEF e
  <1>5. e \in 1..Len(b) /\ b[e].t = "end" /\ \A j \in I : e <= j
    BY <1>3, <1>4
  <1>6. \A j \in 1..Len(b) : j < e => b[j].t # "end"
    BY <1>5
  <1> QED
    BY <1>5, <1>6 DEF e

(* The Host header of a request is the last one of its head.                *)
LEMMA LastHost ==
    ASSUME NEW head, NEW n \in Nat, Len(head) = n
    PROVE  LET H == {i \in 1..n : head[i].t = "host"}
               v == Capture!LastOf(head, "host", "none")
           IN  (H = {} /\ v = "none") \/ \E i \in H : (\A j \in H : j <= i) /\ v = head[i].v
  <1> DEFINE H == {i \in 1..n : head[i].t = "host"}
             l == Capture!SelectLastInSeq(head, LAMBDA x : x.t = "host")
  <1>1. CASE H = {}
    <2>1. l = 0
      BY <1>1 DEF Capture!SelectLastInSeq
    <2> QED
      BY <1>1, <2>1 DEF Capture!LastOf
  <1>2. CASE H # {}
    <2>1. l = Capture!Max(H)
      BY <1>2 DEF Capture!SelectLastInSeq
    <2>2. H \subseteq Nat /\ \A i \in H : i <= n
      OBVIOUS
    <2>3. PICK m \in H : \A j \in H : j <= m
      BY <1>2, <2>2, GreatestBounded, Zenon
    <2>4. \A j \in H : m >= j
      BY <2>2, <2>3
    <2>5. l \in H /\ \A j \in H : l >= j
      BY <2>1, <2>4 DEF Capture!Max
    <2>6. l # 0 /\ \A j \in H : j <= l
      BY <2>2, <2>5
    <2>7. Capture!LastOf(head, "host", "none") = head[l].v
      BY <2>6 DEF Capture!LastOf
    <2> QED
      BY <2>5, <2>6, <2>7
  <1> QED
    BY <1>1, <1>2

(* A request is reported as it was sent.                                    *)
LEMMA HeadRead ==
    ASSUME NEW X, NEW s \in Seq(X), NEW b \in Seq(X), Begins(b, s), StitchCap \in Nat, Len(b) <= StitchCap,
           Capture!HasHead(b, "request"), NEW p
    PROVE  Asked(s) /\ AsSent(Capture!Request(b, p), s) /\ Capture!Request(b, p).dir = <<p.src, p.dst>>
  <1> DEFINE e == Capture!SelectInSeq(b, LAMBDA x : x.t = "end")
             head == Capture!HeadOf(b)
             r == Capture!Request(b, p)
             hosts == {i \in DOMAIN s : s[i].t = "host" /\ \A j \in 1..i : s[j].t # "end"}
             H == {i \in 1..e : head[i].t = "host"}
  <1>1. b # <<>> /\ b[1].t = "request" /\ \E i \in DOMAIN b : b[i].t = "end"
    BY DEF Capture!HasHead
  <1>2. e \in 1..Len(b) /\ b[e].t = "end" /\ \A j \in 1..Len(b) : j < e => b[j].t # "end"
    BY <1>1, FirstEnd
  <1> HIDE DEF e
  <1>3. head = SubSeq(b, 1, e)
    BY DEF Capture!HeadOf, e
  <1>4. Len(head) = e /\ \A i \in 1..e : head[i] = b[i]
    BY <1>2, <1>3
  <1> HIDE DEF head
  <1>5. /\ Len(b) \in Nat /\ Len(s) \in Nat /\ Len(b) <= Len(s)
        /\ DOMAIN s = 1..Len(s) /\ \A i \in 1..Len(b) : b[i] = s[i]
    BY DEF Begins
  <1>6. \A i \in 1..e : i \in DOMAIN s /\ head[i] = s[i] /\ s[i] = b[i]
    BY <1>2, <1>4, <1>5
  <1>7. Asked(s)
    <2>1. s # <<>> /\ s[1].t = "request"
      BY <1>1, <1>2, <1>5, <1>6
    <2>2. e \in DOMAIN s /\ e <= StitchCap /\ s[e].t = "end"
      BY <1>2, <1>5
    <2> QED
      BY <2>1, <2>2 DEF Asked
  <1>8. r.uri = s[1].v /\ r.host = Capture!LastOf(head, "host", "none") /\ r.dir = <<p.src, p.dst>>
    <2>1. 1 \in 1..Len(b)
      BY <1>2, <1>5
    <2> QED
      BY <1>5, <2>1 DEF Capture!Request, Capture!Direction, head
  <1>9. hosts = H
    <2>1. ASSUME NEW i \in hosts PROVE i \in H
      <3>1. i \in 1..Len(s) /\ s[i].t = "host" /\ \A j \in 1..i : s[j].t # "end"
        BY <1>5
      <3>2. e \notin 1..i
        BY <1>2, <1>5, <3>1
      <3>3. i \in 1..e
        BY <1>2, <3>1, <3>2
      <3> QED
        BY <1>6, <3>1, <3>3
    <2>2. ASSUME NEW i \in H PROVE i \in hosts
      <3>1. i \in 1..e /\ i \in DOMAIN s /\ s[i].t = "host"
        BY <1>6
      <3>2. i # e
        BY <1>2, <1>6, <3>1
      <3>3. ASSUME NEW j \in 1..i PROVE s[j].t # "end"
        <4>1. j \in 1..Len(b) /\ j < e /\ j \in 1..e
          BY <1>2, <1>5, <3>1, <3>2
        <4> QED
          BY <1>2, <1>6, <4>1
      <3> QED
        BY <3>1, <3>3
    <2> QED
      BY <2>1, <2>2
  <1>10. (H = {} /\ r.host = "none") \/ \E i \in H : (\A j \in H : j <= i) /\ r.host = head[i].v
    BY <1>2, <1>4, <1>8, LastHost
  <1>11. \A i \in H : head[i] = s[i]
    BY <1>6
  <1> HIDE DEF H, r, hosts
  <1>12. (hosts = {} /\ r.host = "none") \/ \E i \in hosts : (\A j \in hosts : j <= i) /\ r.host = s[i].v
    BY <1>9, <1>10, <1>11
  <1> QED
    BY <1>7, <1>8, <1>12 DEF AsSent, hosts, r

(* Of the variables of the loop only these matter to the requests; only the *)
(* dissectors of HTTP and TLS change them.                                  *)
LoopFields == {"unsent", "faults", "done", "requests", "buffers", "http_dirs", "tls_dirs"}
SameLoop(v, w) == DOMAIN v = DOMAIN w /\ v.unsent = w.unsent /\ v.faults = w.faults /\ v.done = w.done
SameHeads(v, w) ==
    SameLoop(v, w) /\ v.requests = w.requests /\ v.buffers = w.buffers
    /\ v.http_dirs = w.http_dirs /\ v.tls_dirs = w.tls_dirs

LEMMA OthersKeepHeads ==
    ASSUME NEW w, LoopFields \subseteq DOMAIN w, NEW p
    PROVE  /\ SameHeads(Capture!FlowUpdate(w, p), w) /\ SameHeads(Capture!DissectDns(w, p), w)
           /\ SameHeads(Capture!DissectSmb(w, p), w) /\ SameHeads(Capture!HarvestNtlm(w, p), w)
           /\ SameHeads(Capture!DissectKerberos(w, p), w)
  <1> USE DEF SameHeads, SameLoop, LoopFields
  <1>1. SameHeads(Capture!FlowUpdate(w, p), w)
    <2> DEFINE flows == [i \in DOMAIN Capture!Opened(w.flows, p) |->
                            IF Capture!Between(Capture!Opened(w.flows, p)[i], p)
                            THEN Capture!Counted(Capture!Opened(w.flows, p)[i], p)
                            ELSE Capture!Opened(w.flows, p)[i]]
    <2>1. Capture!FlowUpdate(w, p) = [w EXCEPT !.packets = Append(@, p), !.flows = flows]
      BY DEF Capture!FlowUpdate
    <2> HIDE DEF flows
    <2> QED
      BY <2>1
  <1>2. SameHeads(Capture!DissectDns(w, p), w)
    <2>1. Capture!DissectDns(w, p) = w \/ \E d : Capture!DissectDns(w, p) = [w EXCEPT !.dns = d]
      BY Zenon DEF Capture!DissectDns
    <2> QED
      BY <2>1
  <1>3. SameHeads(Capture!DissectSmb(w, p), w)
    <2>1. \/ Capture!DissectSmb(w, p) = w
          \/ \E a, b, c : Capture!DissectSmb(w, p) = [w EXCEPT !.smb = a, !.smb1 = b, !.shares = c]
      BY Zenon DEF Capture!DissectSmb
    <2> QED
      BY <2>1, Zenon
  <1>4. SameHeads(Capture!HarvestNtlm(w, p), w)
    <2>1. \E a, b : Capture!HarvestNtlm(w, p) = [w EXCEPT !.challenges = a, !.creds = b]
      BY Zenon DEF Capture!HarvestNtlm
    <2> QED
      BY <2>1
  <1>5. SameHeads(Capture!DissectKerberos(w, p), w)
    <2>1. Capture!DissectKerberos(w, p) = w \/ \E t : Capture!DissectKerberos(w, p) = [w EXCEPT !.tickets = t]
      BY Zenon DEF Capture!DissectKerberos
    <2> QED
      BY <2>1
  <1> QED
    BY <1>1, <1>2, <1>3, <1>4, <1>5

(* What a direction has in its buffer; a segment changes that of its own    *)
(* direction only.                                                          *)
Buffered(w, dir) == IF dir \in DOMAIN w.buffers THEN w.buffers[dir] ELSE <<>>
OnlyFor(d, v, w) ==
    /\ SameLoop(v, w) /\ \A dir : dir # d => Buffered(v, dir) = Buffered(w, dir)

(* What dissect_http_* make of the payload that completes a buffer.         *)
LEMMA HttpOutcome ==
    ASSUME NEW w, LoopFields \subseteq DOMAIN w, NEW p, NEW d, d = <<p.src, p.dst>>, NEW buf,
           d \in DOMAIN w.buffers, w.buffers[d] = buf
    PROVE  LET v == Capture!DissectHttp(w, p)
               parsed == v.http_dirs = w.http_dirs \cup {d} /\ d \notin w.http_dirs
           IN  /\ OnlyFor(d, v, w) /\ v.tls_dirs = w.tls_dirs
               /\ \/ v = w /\ (d \in w.http_dirs \/ ~Capture!HasHead(buf, "request"))
                  \/ /\ parsed /\ Capture!HasHead(buf, "request")
                     /\ v.requests = Capture!Kept(w.requests, Capture!Request(buf, p))
                  \/ parsed /\ Capture!HasHead(buf, "status") /\ v.requests = w.requests
  <1> DEFINE v == Capture!DissectHttp(w, p)
             left == Capture!Without(w.buffers, d)
  <1>1. Capture!Direction(p) = d /\ Capture!Forget(w, p) = left
    BY DEF Capture!Direction, Capture!Forget
  <1>2. \A x : x.buffers = left => \A dir : dir # d => Buffered(x, dir) = Buffered(w, dir)
    BY DEF Buffered, Capture!Without
  <1> HIDE DEF left
  <1>3. CASE d \in w.http_dirs \/ (~Capture!HasHead(buf, "request") /\ ~Capture!HasStatus(buf))
    <2>1. v = w
      BY <1>1, <1>3 DEF Capture!DissectHttp
    <2> QED
      BY <1>3, <2>1 DEF OnlyFor, SameLoop
  <1>4. CASE d \notin w.http_dirs /\ Capture!HasHead(buf, "request")
    <2> DEFINE r == Capture!Request(buf, p)
               parsed == [w EXCEPT !.http_dirs = w.http_dirs \cup {d}, !.buffers = left]
               a == IF r.agent = "bad" THEN Append(parsed.agents, r) ELSE parsed.agents
    <2>0. ~Capture!HasStatus(buf)
      BY <1>4 DEF Capture!HasHead, Capture!HasStatus
    <2>1. v = [parsed EXCEPT !.requests = Capture!Kept(parsed.requests, r), !.agents = a]
      BY <1>1, <1>4, <2>0, Zenon DEF Capture!DissectHttp
    <2> HIDE DEF r, a
    <2>2. /\ SameLoop(v, w) /\ v.tls_dirs = w.tls_dirs /\ v.http_dirs = w.http_dirs \cup {d} /\ v.buffers = left
          /\ v.requests = Capture!Kept(w.requests, r)
      BY <2>1 DEF LoopFields, SameLoop
    <2> QED
      BY <1>2, <1>4, <2>2 DEF OnlyFor, r
  <1>5. CASE d \notin w.http_dirs /\ ~Capture!HasHead(buf, "request") /\ Capture!HasStatus(buf)
    <2>1. \E a : v = [w EXCEPT !.http_dirs = w.http_dirs \cup {d}, !.buffers = left, !.responses = a]
      BY <1>1, <1>5, Zenon DEF Capture!DissectHttp, LoopFields
    <2>2. /\ SameLoop(v, w) /\ v.tls_dirs = w.tls_dirs /\ v.http_dirs = w.http_dirs \cup {d} /\ v.buffers = left
          /\ v.requests = w.requests
      BY <2>1 DEF LoopFields, SameLoop
    <2> QED
      BY <1>2, <1>5, <2>2 DEF OnlyFor, Capture!HasStatus
  <1> QED
    BY <1>3, <1>4, <1>5

(* What dissect_tls_* make of the payload that completes a buffer: after a  *)
(* hello the direction is done with.                                        *)
TlsResult(v, w, d, buf) ==
    /\ OnlyFor(d, v, w) /\ v.http_dirs = w.http_dirs /\ v.requests = w.requests
    /\ \/ v = w
       \/ /\ d \notin w.http_dirs \cup w.tls_dirs /\ v.tls_dirs = w.tls_dirs \cup {d}
          /\ buf # <<>> /\ buf[1].t = "hello" /\ Buffered(v, d) = <<>>

LEMMA TlsOutcome ==
    ASSUME NEW w, LoopFields \subseteq DOMAIN w, NEW p, NEW buf
    PROVE  TlsResult(Capture!DissectTls(w, p, buf), w, <<p.src, p.dst>>, buf)
  <1> DEFINE v == Capture!DissectTls(w, p, buf)
             d == <<p.src, p.dst>>
             left == Capture!Without(w.buffers, d)
  <1>1. Capture!Direction(p) = d /\ Capture!Forget(w, p) = left
    BY DEF Capture!Direction, Capture!Forget
  <1>2. \A x : x.buffers = left => Buffered(x, d) = <<>> /\ \A dir : dir # d => Buffered(x, dir) = Buffered(w, dir)
    BY DEF Buffered, Capture!Without
  <1> HIDE DEF left
  <1> HIDE DEF d
  <1> SUFFICES TlsResult(v, w, d, buf)
    BY DEF d
  <1>3. CASE d \in w.tls_dirs \cup w.http_dirs \/ (~Capture!HasHello(buf, "client") /\ ~Capture!HasHello(buf, "server"))
    <2>1. v = w
      BY <1>1, <1>3 DEF Capture!DissectTls
    <2> QED
      BY <2>1 DEF TlsResult, OnlyFor, SameLoop
  <1>4. CASE d \notin w.tls_dirs \cup w.http_dirs /\ (Capture!HasHello(buf, "client") \/ Capture!HasHello(buf, "server"))
    <2> DEFINE parsed == [w EXCEPT !.tls_dirs = w.tls_dirs \cup {d}, !.buffers = left]
    <2>1. (\E a : v = [parsed EXCEPT !.hellos = a]) \/ (\E a : v = [parsed EXCEPT !.answers = a])
      <3>1. CASE Capture!HasHello(buf, "client")
        <4>0. ~Capture!HasHello(buf, "server")
          BY <3>1 DEF Capture!HasHello
        <4>1. v = [parsed EXCEPT !.hellos = Capture!Kept(parsed.hellos, Capture!Hello(buf, p))]
          BY <1>1, <1>4, <3>1, <4>0 DEF Capture!DissectTls
        <4> QED
          BY <4>1, Zenon
      <3>2. CASE ~Capture!HasHello(buf, "client")
        <4>1. v = [parsed EXCEPT !.answers = Capture!Kept(parsed.answers, Capture!Hello(buf, p))]
          BY <1>1, <1>4, <3>2 DEF Capture!DissectTls
        <4> QED
          BY <4>1, Zenon
      <3> QED
        BY <3>1, <3>2, Zenon
    <2>2. /\ SameLoop(v, w) /\ v.http_dirs = w.http_dirs /\ v.tls_dirs = w.tls_dirs \cup {d} /\ v.buffers = left
          /\ v.requests = w.requests
      BY <2>1, Zenon DEF LoopFields, SameLoop
    <2>3. buf # <<>> /\ buf[1].t = "hello"
      <3>1. Len(<<>>) = 0 /\ ~(0 >= 2)
        OBVIOUS
      <3> QED
        BY <1>4, <3>1 DEF Capture!HasHello
    <2> HIDE DEF v
    <2> QED
      BY <1>2, <1>4, <2>2, <2>3 DEF TlsResult, OnlyFor, d
  <1> QED
    BY <1>3, <1>4

(* The invariant. Of each direction one of three things holds: nothing of   *)
(* it was parsed, and its buffer is a beginning of what arrived, as long as *)
(* the capacity allows, with no whole request in it; a TLS hello was        *)
(* parsed, and no request can come; or an HTTP head was parsed, and the     *)
(* requests are as they have to be in the end. The number of packets seen   *)
(* of a connection says how much of each stream arrived. Nothing is said    *)
(* once the sniffer missed a packet or saw one twice.                       *)
PartsOf(c) == UNION {ToSet(p.payload) : p \in ToSet(input[c])}
Seen(c) == Len(input[c]) - Len(work.unsent[c])
HeadOK(dir, parts, s, sofar) ==
    LET buf == Buffered(work, dir) IN
    \/ /\ dir \notin work.http_dirs \cup work.tls_dirs /\ RequestsOf(dir) = {}
       /\ buf \in Seq(parts) /\ Buffers(buf, sofar, StitchCap) /\ ~Capture!HasHead(buf, "request")
    \/ /\ dir \in work.tls_dirs \ work.http_dirs /\ RequestsOf(dir) = {}
       /\ s # <<>> /\ s[1].t = "hello" /\ buf \in Seq(parts) /\ \A i \in DOMAIN buf : buf[i].t # "request"
    \/ dir \in work.http_dirs /\ Answered(dir, s)
Sniffed ==
    /\ input \in Traffic /\ LoopFields \subseteq DOMAIN work /\ work.faults \in Nat
    /\ DOMAIN work.unsent = DOMAIN input /\ work.requests \in Seq(ToSet(work.requests))
SentBefore(c) ==
    /\ Seen(c) \in 0..Len(input[c]) /\ work.unsent[c] = SubSeq(input[c], Seen(c) + 1, Len(input[c]))
    /\ work.done => Seen(c) = Len(input[c])
HeadsOf(c) ==
    \A dir \in Directions(input[c]) :
        HeadOK(dir, PartsOf(c), Stream(input[c], dir), StreamAfter(input[c], dir)[Seen(c)])
HeadsInv ==
    kind = "pcap" => Sniffed /\ (work.faults = 0 => \A c \in DOMAIN input : SentBefore(c) /\ HeadsOf(c))

(* What a round of the loop makes of a segment that carries something, when *)
(* buf is what its direction has in its buffer then.                        *)
Outcome(v, w, d, buf, p) ==
    /\ OnlyFor(d, v, w)
    /\ \/ d \in w.http_dirs /\ v.http_dirs = w.http_dirs /\ v.tls_dirs = w.tls_dirs /\ v.requests = w.requests
       \/ /\ d \notin w.http_dirs /\ v.http_dirs = w.http_dirs \cup {d} /\ v.tls_dirs = w.tls_dirs
          /\ \/ /\ Capture!HasHead(buf, "request")
                /\ v.requests = Capture!Kept(w.requests, Capture!Request(buf, p))
             \/ Capture!HasHead(buf, "status") /\ v.requests = w.requests
       \/ /\ d \notin w.http_dirs /\ v.http_dirs = w.http_dirs /\ v.requests = w.requests
          /\ ~Capture!HasHead(buf, "request")
          /\ \/ v.tls_dirs = w.tls_dirs /\ Buffered(v, d) = buf
             \/ /\ d \notin w.tls_dirs /\ v.tls_dirs = w.tls_dirs \cup {d}
                /\ buf # <<>> /\ buf[1].t = "hello" /\ Buffered(v, d) = <<>>

(* dissect_stream, and then the whole round of the loop, come to such an    *)
(* outcome.                                                                 *)
LEMMA StreamOutcome ==
    ASSUME NEW w, LoopFields \subseteq DOMAIN w, NEW p, NEW d, d = <<p.src, p.dst>>
    PROVE  LET v == Capture!DissectStream(w, p)
           IN  IF p.proto = "tcp" /\ p.payload # <<>>
               THEN Outcome(v, w, d, Capture!Stitched(w, p), p)
               ELSE SameHeads(v, w)
  <1> DEFINE v == Capture!DissectStream(w, p)
             buf == Capture!Stitched(w, p)
             fed == [w EXCEPT !.buffers = Capture!Put(w.buffers, d, buf)]
             h == Capture!DissectHttp(fed, p)
             t == Capture!DissectTls(h, p, buf)
  <1>1. CASE ~(p.proto = "tcp" /\ p.payload # <<>>)
    BY <1>1 DEF Capture!DissectStream, SameHeads, SameLoop
  <1>2. CASE p.proto = "tcp" /\ p.payload # <<>>
    <2> HIDE DEF buf
    <2>1. /\ LoopFields \subseteq DOMAIN fed /\ OnlyFor(d, fed, w) /\ d \in DOMAIN fed.buffers /\ fed.buffers[d] = buf
          /\ fed.http_dirs = w.http_dirs /\ fed.tls_dirs = w.tls_dirs /\ fed.requests = w.requests
      BY DEF LoopFields, OnlyFor, SameLoop, Buffered, Capture!Put
    <2>2. Buffered(fed, d) = buf
      BY <2>1 DEF Buffered
    <2>3. v = Capture!HarvestNtlm(Capture!DissectSmb(t, p), p) \/ v = t
      <3>1. Capture!Direction(p) = d
        BY DEF Capture!Direction
      <3> QED
        BY <1>2, <3>1 DEF Capture!DissectStream, buf
    <2> HIDE DEF v, fed
    <2>4. LET parsed == h.http_dirs = fed.http_dirs \cup {d} /\ d \notin fed.http_dirs
          IN  /\ OnlyFor(d, h, fed) /\ h.tls_dirs = fed.tls_dirs
              /\ \/ h = fed /\ (d \in fed.http_dirs \/ ~Capture!HasHead(buf, "request"))
                 \/ /\ parsed /\ Capture!HasHead(buf, "request")
                    /\ h.requests = Capture!Kept(fed.requests, Capture!Request(buf, p))
                 \/ parsed /\ Capture!HasHead(buf, "status") /\ h.requests = fed.requests
      BY <2>1, HttpOutcome
    <2> HIDE DEF h
    <2>5. LoopFields \subseteq DOMAIN h
      BY <2>1, <2>4 DEF OnlyFor, SameLoop
    <2>6. TlsResult(t, h, d, buf)
      BY <2>5, TlsOutcome
    <2> HIDE DEF t
    <2>7. OnlyFor(d, t, w)
      BY <2>1, <2>4, <2>6 DEF TlsResult, OnlyFor, SameLoop
    <2>8. Outcome(t, w, d, buf, p)
      <3>1. CASE d \in w.http_dirs
        <4>1. h = fed /\ t = h
          BY <2>1, <2>4, <2>6, <3>1 DEF TlsResult
        <4> QED
          BY <2>1, <2>7, <3>1, <4>1 DEF Outcome
      <3>2. CASE d \notin w.http_dirs /\ h = fed
        <4>1. ~Capture!HasHead(buf, "request")
          BY <2>1, <2>4, <3>2
        <4> QED
          BY <2>1, <2>2, <2>6, <2>7, <3>2, <4>1 DEF Outcome, TlsResult
      <3>3. CASE d \notin w.http_dirs /\ h # fed
        <4>1. d \in h.http_dirs /\ t = h
          BY <2>4, <2>6, <3>3 DEF TlsResult
        <4> QED
          BY <2>1, <2>4, <2>7, <3>3, <4>1 DEF Outcome
      <3> QED
        BY <3>1, <3>2, <3>3
    <2>9. LoopFields \subseteq DOMAIN t
      BY <2>7 DEF OnlyFor, SameLoop
    <2>10. SameHeads(v, t)
      <3> DEFINE smb == Capture!DissectSmb(t, p)
      <3>1. SameHeads(smb, t)
        BY <2>9, OthersKeepHeads
      <3> HIDE DEF smb
      <3>2. LoopFields \subseteq DOMAIN smb
        BY <2>9, <3>1 DEF SameHeads, SameLoop
      <3>3. SameHeads(Capture!HarvestNtlm(smb, p), smb)
        BY <3>2, OthersKeepHeads
      <3> QED
        BY <2>3, <3>1, <3>3 DEF SameHeads, SameLoop, smb
    <2> HIDE DEF buf
    <2>11. Outcome(v, w, d, buf, p)
      BY <2>8, <2>10 DEF Outcome, OnlyFor, SameHeads, SameLoop, Buffered
    <2> QED
      BY <1>2, <2>11 DEF buf, v
  <1> QED
    BY <1>1, <1>2

LEMMA RoundOutcome ==
    ASSUME NEW w, LoopFields \subseteq DOMAIN w, NEW p, NEW d, d = <<p.src, p.dst>>
    PROVE  LET v == Capture!Processed(w, p)
           IN  IF p.proto = "tcp" /\ p.payload # <<>>
               THEN Outcome(v, w, d, Capture!Stitched(w, p), p)
               ELSE SameHeads(v, w)
  <1> DEFINE a == Capture!FlowUpdate(w, p)
             b == Capture!DissectDns(a, p)
             s == Capture!DissectStream(b, p)
             v == Capture!DissectKerberos(s, p)
  <1>1. SameHeads(a, w)
    BY OthersKeepHeads
  <1>2. v = Capture!Processed(w, p)
    BY DEF Capture!Processed
  <1> HIDE DEF a
  <1>3. LoopFields \subseteq DOMAIN a
    BY <1>1 DEF SameHeads, SameLoop
  <1>4. SameHeads(b, a)
    BY <1>3, OthersKeepHeads
  <1> HIDE DEF b
  <1>5. SameHeads(b, w) /\ LoopFields \subseteq DOMAIN b
    BY <1>1, <1>4 DEF SameHeads, SameLoop
  <1>6. Capture!Stitched(b, p) = Capture!Stitched(w, p)
    BY <1>5 DEF SameHeads, Capture!Stitched
  <1>7. IF p.proto = "tcp" /\ p.payload # <<>> THEN Outcome(s, b, d, Capture!Stitched(b, p), p) ELSE SameHeads(s, b)
    BY <1>5, StreamOutcome
  <1> HIDE DEF s
  <1>8. LoopFields \subseteq DOMAIN s
    BY <1>5, <1>7 DEF Outcome, OnlyFor, SameHeads, SameLoop
  <1>9. SameHeads(v, s)
    BY <1>8, OthersKeepHeads
  <1> HIDE DEF v
  <1>10. CASE p.proto = "tcp" /\ p.payload # <<>>
    <2> DEFINE buf == Capture!Stitched(w, p)
    <2>1. Outcome(s, b, d, buf, p)
      BY <1>6, <1>7, <1>10
    <2> HIDE DEF buf
    <2>2. Outcome(v, w, d, buf, p)
      BY <1>5, <1>9, <2>1 DEF Outcome, OnlyFor, SameHeads, SameLoop, Buffered
    <2> QED
      BY <1>2, <1>10, <2>2 DEF buf
  <1>11. CASE ~(p.proto = "tcp" /\ p.payload # <<>>)
    <2>1. SameHeads(v, w)
      BY <1>5, <1>7, <1>9, <1>11 DEF SameHeads, SameLoop
    <2> QED
      BY <1>2, <1>11, <2>1
  <1> QED
    BY <1>10, <1>11

(* The packets of a connection and the parts of their payloads.             *)
LEMMA ConnectionShape ==
    ASSUME input \in Traffic, NEW c \in DOMAIN input
    PROVE  /\ input[c] \in Seq(ToSet(input[c])) /\ Len(input[c]) \in Nat /\ DOMAIN input[c] = 1..Len(input[c])
           /\ \A i \in 1..Len(input[c]) : input[c][i] \in ToSet(input[c]) /\ input[c][i].payload \in Seq(PartsOf(c))
  <1>1. input[c] \in Seq(ToSet(input[c])) /\ \A p \in ToSet(input[c]) : p.payload \in Seq(ToSet(p.payload))
    BY TrafficAssumption
  <1>2. Len(input[c]) \in Nat /\ DOMAIN input[c] = 1..Len(input[c])
    BY <1>1
  <1>3. ASSUME NEW i \in 1..Len(input[c])
        PROVE  input[c][i] \in ToSet(input[c]) /\ input[c][i].payload \in Seq(PartsOf(c))
    <2>1. input[c][i] \in ToSet(input[c])
      BY <1>2 DEF ToSet
    <2> DEFINE p == input[c][i]
    <2>2. ToSet(p.payload) \subseteq PartsOf(c) /\ p.payload \in Seq(ToSet(p.payload))
      BY <1>1, <2>1 DEF PartsOf
    <2>3. p.payload \in Seq(PartsOf(c))
      BY <2>2, SeqMonotonic
    <2> QED
      BY <2>1, <2>3
  <1> QED
    BY <1>1, <1>2, <1>3

(* With the next packet the stream grows by what that packet carries of it. *)
LEMMA StreamSteps ==
    ASSUME input \in Traffic, NEW c \in DOMAIN input, NEW dir
    PROVE  LET after == StreamAfter(input[c], dir)
               n == Len(input[c])
           IN  /\ after \in [0..n -> Seq(PartsOf(c))] /\ after[0] = <<>> /\ Stream(input[c], dir) = after[n]
               /\ \A k \in 0..n : k < n => after[k + 1] = after[k] \o Carries(input[c][k + 1], dir)
               /\ \A k \in 0..n : Begins(after[k], after[n])
  <1> DEFINE after == StreamAfter(input[c], dir)
             n == Len(input[c])
             part == [i \in 1..n |-> Carries(input[c][i], dir)]
  <1>1. /\ input[c] \in Seq(ToSet(input[c])) /\ n \in Nat
        /\ \A i \in 1..n : input[c][i].payload \in Seq(PartsOf(c))
    BY ConnectionShape
  <1>2. after \in [0..n -> Seq(PartsOf(c))] /\ Joins(after, n, part)
    BY <1>1, StreamIs, Zenon
  <1>3. \A i \in 1..n : part[i] = Carries(input[c][i], dir) /\ part[i] \in Seq(PartsOf(c))
    BY <1>1, EmptySeq DEF Carries
  <1>4. Stream(input[c], dir) = after[n]
    BY DEF Stream
  <1> HIDE DEF after, part, n
  <1>5. after[0] = <<>>
    <2>1. 0 \in 0..n
      BY <1>1
    <2> QED
      BY <1>2, <2>1, Zenon DEF Joins
  <1>6. ASSUME NEW k \in 0..n, k < n PROVE after[k + 1] = after[k] \o Carries(input[c][k + 1], dir)
    <2>1. k + 1 \in 0..n /\ k + 1 # 0 /\ (k + 1) - 1 = k /\ k + 1 \in 1..n
      BY <1>1, <1>6
    <2>2. after[k + 1] = after[(k + 1) - 1] \o part[k + 1]
      BY <1>2, <2>1, Zenon DEF Joins
    <2> QED
      BY <1>3, <2>1, <2>2, Zenon
  <1>7. ASSUME NEW k \in 0..n PROVE Begins(after[k], after[n])
    <2>1. n \in 0..n /\ k <= n
      BY <1>1
    <2> QED
      BY <1>1, <1>2, <1>3, <2>1, JoinBegins, Zenon
  <1> QED
    BY <1>2, <1>4, <1>5, <1>6, <1>7 DEF after, n

LEMMA HeadsInit == Init => HeadsInv
  <1> SUFFICES ASSUME Init, kind = "pcap"
               PROVE  Sniffed /\ \A c \in DOMAIN input : SentBefore(c) /\ HeadsOf(c)
    BY DEF HeadsInv
  <1>1. input \in Traffic /\ work = Capture!Start(input)
    BY DEF Init, Capture!Init
  <1>2. /\ LoopFields \subseteq DOMAIN work /\ work.faults = 0 /\ work.unsent = input /\ work.requests = <<>>
        /\ work.http_dirs = {} /\ work.tls_dirs = {} /\ work.buffers = <<>> /\ work.done = FALSE
    BY <1>1 DEF Capture!Start, LoopFields
  <1>3. Sniffed
    BY <1>1, <1>2 DEF Sniffed
  <1>4. ASSUME NEW c \in DOMAIN input PROVE SentBefore(c) /\ HeadsOf(c)
    <2>1. input[c] \in Seq(ToSet(input[c])) /\ \A p \in ToSet(input[c]) : p.payload \in Seq(ToSet(p.payload))
      BY <1>1, TrafficAssumption
    <2>2. Len(input[c]) \in Nat /\ Seen(c) = 0
      BY <1>2, <2>1 DEF Seen
    <2>3. SentBefore(c)
      <3>1. input[c] = SubSeq(input[c], 1, Len(input[c]))
        BY <2>1, SubSeqFull
      <3> QED
        BY <1>2, <2>2, <3>1 DEF SentBefore
    <2>4. ASSUME NEW dir \in Directions(input[c]), NEW s
          PROVE  HeadOK(dir, PartsOf(c), s, StreamAfter(input[c], dir)[0])
      <3>1. Buffered(work, dir) = <<>> /\ RequestsOf(dir) = {}
        BY <1>2 DEF Buffered, RequestsOf
      <3>2. StreamAfter(input[c], dir)[0] = <<>>
        BY <1>1, StreamSteps, Zenon
      <3>3. <<>> \in Seq(PartsOf(c)) /\ Buffers(<<>>, <<>>, StitchCap) /\ ~Capture!HasHead(<<>>, "request")
        BY TrafficAssumption DEF Buffers, Begins, Capture!HasHead
      <3> QED
        BY <1>2, <3>1, <3>2, <3>3 DEF HeadOK
    <2> QED
      BY <2>2, <2>3, <2>4 DEF HeadsOf
  <1> QED
    BY <1>3, <1>4

(* A request that is added answers its own direction only.                  *)
LEMMA RequestAdded ==
    ASSUME NEW S, work.requests \in Seq(S), NEW dir, NEW r,
           work'.requests = work.requests \/ work'.requests = Capture!Kept(work.requests, r)
    PROVE  /\ \E U : work'.requests \in Seq(U)
           /\ r.dir # dir \/ work'.requests = work.requests =>
                 RequestsOf(dir)' = RequestsOf(dir) /\ \A s : Answered(dir, s) => Answered(dir, s)'
           /\ r.dir = dir /\ RequestsOf(dir) = {} /\ work'.requests = Capture!Kept(work.requests, r) =>
                 \A s : Asked(s) /\ AsSent(r, s) => Answered(dir, s)'
  <1> DEFINE n == Len(work.requests)
  <1>1. n \in Nat /\ DOMAIN work.requests = 1..n
    OBVIOUS
  <1>2. CASE work'.requests = work.requests
    <2>1. RequestsOf(dir)' = RequestsOf(dir) /\ \A s : Answered(dir, s) => Answered(dir, s)'
      BY <1>2 DEF RequestsOf, Answered
    <2>2. CASE work'.requests = Capture!Kept(work.requests, r) /\ RequestsOf(dir) = {}
      <3>1. n >= MaxKept
        <4>1. CASE n < MaxKept
          <5>1. work.requests = Append(work.requests, r)
            BY <1>2, <2>2, <4>1, Zenon DEF Capture!Kept
          <5>2. Len(Append(work.requests, r)) = n + 1
            OBVIOUS
          <5> QED
            BY <1>1, <5>1, <5>2
        <4> QED
          BY <1>1, <4>1, TrafficAssumption
      <3>2. RequestsOf(dir)' = {} /\ Len(work'.requests) >= MaxKept
        BY <1>2, <2>1, <2>2, <3>1
      <3> QED
        BY <1>2, <2>1, <3>2 DEF Answered
    <2> QED
      BY <1>2, <2>1, <2>2
  <1>3. CASE work'.requests # work.requests
    <2>1. work'.requests = Append(work.requests, r)
      BY <1>3, Zenon DEF Capture!Kept
    <2>2. work'.requests \in Seq(S \cup {r})
      <3>1. work.requests \in Seq(S \cup {r})
        BY SeqMonotonic
      <3> QED
        BY <2>1, <3>1
    <2>3. /\ DOMAIN work'.requests = 1..(n + 1) /\ work'.requests[n + 1] = r /\ Len(work'.requests) = n + 1
          /\ \A i \in 1..n : work'.requests[i] = work.requests[i]
      BY <2>1
    <2> HIDE DEF n
    <2>4. RequestsOf(dir)' = RequestsOf(dir) \cup (IF r.dir = dir THEN {n + 1} ELSE {})
      <3>1. ASSUME NEW i PROVE i \in RequestsOf(dir)' <=> i \in RequestsOf(dir) \/ (i = n + 1 /\ r.dir = dir)
        <4>1. CASE i \in 1..n
          <5>1. i \in 1..(n + 1) /\ i # n + 1
            BY <1>1, <4>1
          <5> QED
            BY <1>1, <2>3, <4>1, <5>1 DEF RequestsOf
        <4>2. CASE i \notin 1..n
          <5>1. i \in 1..(n + 1) <=> i = n + 1
            BY <1>1, <4>2
          <5> QED
            BY <1>1, <2>3, <4>2, <5>1 DEF RequestsOf
        <4> QED
          BY <4>1, <4>2
      <3> QED
        BY <3>1
    <2>5. ASSUME r.dir # dir, NEW s, Answered(dir, s) PROVE Answered(dir, s)'
      <3>1. RequestsOf(dir)' = RequestsOf(dir)
        BY <2>4, <2>5
      <3>2. \A i \in DOMAIN work.requests : i \in DOMAIN work'.requests /\ work'.requests[i] = work.requests[i]
        BY <1>1, <2>3
      <3>3. Len(work.requests) >= MaxKept => Len(work'.requests) >= MaxKept
        BY <1>1, <2>3, TrafficAssumption DEF n
      <3> QED
        BY <2>5, <3>1, <3>2, <3>3 DEF Answered
    <2>6. ASSUME r.dir = dir, RequestsOf(dir) = {}, NEW s, Asked(s), AsSent(r, s) PROVE Answered(dir, s)'
      <3>1. RequestsOf(dir)' = {n + 1} /\ n + 1 \in DOMAIN work'.requests /\ AsSent(work'.requests[n + 1], s)
        BY <1>1, <2>3, <2>4, <2>6
      <3> QED
        BY <2>6, <3>1 DEF Answered
    <2> QED
      BY <1>3, <2>2, <2>4, <2>5, <2>6
  <1> QED
    BY <1>2, <1>3

(* What does not touch a direction leaves it as it is.                      *)
LEMMA OtherHeads ==
    ASSUME NEW S, work.requests \in Seq(S), NEW r, NEW d, NEW dir,
           work'.requests = work.requests \/ (work'.requests = Capture!Kept(work.requests, r) /\ r.dir = d),
           dir # d \/ work'.requests = work.requests,
           dir \in work'.http_dirs <=> dir \in work.http_dirs,
           dir \in work'.tls_dirs <=> dir \in work.tls_dirs,
           Buffered(work', dir) = Buffered(work, dir),
           NEW parts, NEW s, NEW sofar, HeadOK(dir, parts, s, sofar)
    PROVE  HeadOK(dir, parts, s, sofar)'
  <1>1. RequestsOf(dir)' = RequestsOf(dir) /\ (Answered(dir, s) => Answered(dir, s)')
    BY RequestAdded, Zenon
  <1>2. Buffered(work, dir)' = Buffered(work, dir)
    BY DEF Buffered
  <1> QED
    BY <1>1, <1>2 DEF HeadOK

(* A direction that something arrived of: if its head was not whole before, *)
(* the buffer holds the longer beginning of its stream.                     *)
Stitching(buf, b, q, X) ==
    /\ buf \in Seq(X)
    /\ \A sofar \in Seq(X) : Buffers(b, sofar, StitchCap) => Buffers(buf, sofar \o q, StitchCap)
    /\ \A i \in DOMAIN buf : (\E j \in DOMAIN b : buf[i] = b[j]) \/ (\E j \in DOMAIN q : buf[i] = q[j])
LEMMA StitchedIs ==
    ASSUME NEW p, NEW X, Buffered(work, <<p.src, p.dst>>) \in Seq(X), p.payload \in Seq(X)
    PROVE  Stitching(Capture!Stitched(work, p), Buffered(work, <<p.src, p.dst>>), p.payload, X)
  <1> DEFINE b == Buffered(work, <<p.src, p.dst>>)
             q == p.payload
             room == StitchCap - Len(b)
             n == IF room < Len(q) THEN room ELSE Len(q)
             buf == b \o SubSeq(q, 1, n)
  <1>1. Capture!Stitched(work, p) = buf
    BY DEF Capture!Stitched, Capture!Direction, Buffered
  <1>0. b \in Seq(X) /\ q \in Seq(X)
    OBVIOUS
  <1> HIDE DEF b, q
  <1>2. n \in Int /\ n <= Len(q) /\ Len(q) \in Nat /\ Len(b) \in Nat
    BY <1>0, TrafficAssumption
  <1>3. \A sofar \in Seq(X) : Buffers(b, sofar, StitchCap) => Buffers(buf, sofar \o q, StitchCap)
    BY <1>0, TrafficAssumption, BufferFed
  <1> HIDE DEF n
  <1>4. /\ SubSeq(q, 1, n) \in Seq(X) /\ Len(SubSeq(q, 1, n)) = (IF 1 <= n THEN n ELSE 0)
        /\ \A i \in 1..n : SubSeq(q, 1, n)[i] = q[i]
    <2>1. \A i \in 1..n : q[i] \in X
      BY <1>0, <1>2
    <2> QED
      BY <1>2, <2>1, SubSeqProperties
  <1> DEFINE part == SubSeq(q, 1, n)
  <1> HIDE DEF part
  <1>5. /\ buf \in Seq(X) /\ Len(buf) = Len(b) + Len(part) /\ Len(part) \in Nat
        /\ \A i \in 1..Len(b) + Len(part) : buf[i] = IF i <= Len(b) THEN b[i] ELSE part[i - Len(b)]
    BY <1>0, <1>4, ConcatProperties DEF part
  <1> HIDE DEF buf
  <1>6. ASSUME NEW i \in DOMAIN buf
        PROVE  (\E j \in DOMAIN b : buf[i] = b[j]) \/ (\E j \in DOMAIN q : buf[i] = q[j])
    <2>1. i \in 1..Len(b) + Len(part) /\ DOMAIN b = 1..Len(b) /\ DOMAIN q = 1..Len(q)
      BY <1>0, <1>5
    <2>2. CASE i <= Len(b)
      <3>1. i \in DOMAIN b
        BY <1>2, <2>1, <2>2
      <3>2. buf[i] = b[i]
        BY <1>5, <2>1, <2>2
      <3> QED
        BY <3>1, <3>2
    <2>3. CASE ~(i <= Len(b))
      <3>1. i - Len(b) \in 1..Len(part) /\ Len(part) = (IF 1 <= n THEN n ELSE 0)
        BY <1>2, <1>4, <1>5, <2>1, <2>3 DEF part
      <3>2. i - Len(b) \in 1..n /\ i - Len(b) \in DOMAIN q
        BY <1>2, <2>1, <3>1
      <3>3. buf[i] = part[i - Len(b)] /\ part[i - Len(b)] = q[i - Len(b)]
        BY <1>4, <1>5, <2>1, <2>3, <3>2, Zenon DEF part
      <3> QED
        BY <3>2, <3>3
    <2> QED
      BY <2>2, <2>3
  <1>7. Stitching(buf, b, q, X)
    BY <1>3, <1>5, <1>6 DEF Stitching
  <1> QED
    BY <1>1, <1>7 DEF b, q

(* A direction that a segment arrived of keeps the invariant, for the       *)
(* longer stream: a head that is whole now is the first one of the stream.  *)
LEMMA OwnHead ==
    ASSUME NEW S, work.requests \in Seq(S), NEW p, NEW d, d = <<p.src, p.dst>>, NEW v,
           Outcome(v, work, d, Capture!Stitched(work, p), p),
           work'.requests = v.requests, work'.buffers = v.buffers,
           work'.http_dirs = v.http_dirs, work'.tls_dirs = v.tls_dirs,
           NEW X, NEW s \in Seq(X), NEW sofar \in Seq(X), p.payload \in Seq(X), Begins(sofar \o p.payload, s),
           s # <<>> /\ s[1].t = "hello" => \A i \in DOMAIN s : s[i].t # "request",
           HeadOK(d, X, s, sofar)
    PROVE  HeadOK(d, X, s, sofar \o p.payload)'
  <1> DEFINE b == Buffered(work, d)
             q == p.payload
             now == sofar \o q
             buf == Capture!Stitched(work, p)
             r == Capture!Request(buf, p)
  <1>1. /\ Buffered(work, d)' = Buffered(v, d)
        /\ work'.requests = work.requests \/ work'.requests = Capture!Kept(work.requests, r)
    BY DEF Buffered, Outcome
  <1>2. CASE d \in work.http_dirs
    <2>1. /\ work'.http_dirs = work.http_dirs /\ work'.requests = work.requests
          /\ Answered(d, s)
      BY <1>2 DEF Outcome, HeadOK
    <2>2. Answered(d, s)'
      BY <2>1, RequestAdded, Zenon
    <2> QED
      BY <1>2, <2>1, <2>2, Zenon DEF HeadOK
  <1>3. CASE d \notin work.http_dirs
    <2>1. b \in Seq(X) /\ RequestsOf(d) = {}
      BY <1>3, Zenon DEF HeadOK
    <2>2. /\ buf \in Seq(X) /\ (Buffers(b, sofar, StitchCap) => Buffers(buf, now, StitchCap))
          /\ \A i \in DOMAIN buf : (\E j \in DOMAIN b : buf[i] = b[j]) \/ (\E j \in DOMAIN q : buf[i] = q[j])
      <3>1. Stitching(buf, b, q, X)
        BY <2>1, StitchedIs
      <3> QED
        BY <3>1, Zenon DEF Stitching
    <2>3. /\ Len(buf) \in Nat /\ DOMAIN buf = 1..Len(buf) /\ Len(s) \in Nat /\ DOMAIN s = 1..Len(s)
          /\ (buf # <<>> => Len(buf) >= 1)
      BY <2>2
    <2>4. work'.requests = work.requests => RequestsOf(d)' = {}
      BY <2>1 DEF RequestsOf
    <2> HIDE DEF buf, b, now, r
    <2>5. CASE d \notin work.tls_dirs
      <3>1. Buffers(b, sofar, StitchCap) /\ ~Capture!HasHead(b, "request")
        BY <1>3, <2>5 DEF HeadOK, b
      <3>2. Begins(buf, s) /\ Len(buf) <= StitchCap /\ Buffers(buf, now, StitchCap)
        <4>1. Begins(buf, now) /\ Len(buf) <= StitchCap /\ Buffers(buf, now, StitchCap)
          BY <2>2, <3>1 DEF Buffers
        <4>2. Len(now) \in Nat /\ Begins(now, s)
          <5>1. now \in Seq(X)
            BY ConcatProperties DEF now
          <5> QED
            BY <5>1 DEF now
        <4> QED
          BY <2>3, <4>1, <4>2, BeginsTransitive
      <3>3. buf # <<>> => s # <<>> /\ s[1] = buf[1]
        <4>1. Len(<<>>) = 0
          OBVIOUS
        <4> QED
          BY <2>3, <3>2, <4>1 DEF Begins
      <3>4. CASE Capture!HasHead(buf, "request") /\ work'.http_dirs = work.http_dirs \cup {d}
                 /\ work'.requests = Capture!Kept(work.requests, r)
        <4>1. Asked(s) /\ AsSent(r, s) /\ r.dir = d
          BY <2>2, <3>2, <3>4, TrafficAssumption, HeadRead DEF r
        <4>2. Answered(d, s)'
          BY <2>1, <3>4, <4>1, RequestAdded, Zenon
        <4> QED
          BY <3>4, <4>2, Zenon DEF HeadOK
      <3>5. CASE Capture!HasHead(buf, "status") /\ work'.http_dirs = work.http_dirs \cup {d}
                 /\ work'.requests = work.requests
        <4>1. ~Asked(s)
          BY <3>3, <3>5 DEF Asked, Capture!HasHead
        <4>2. Answered(d, s)'
          BY <2>4, <3>5, <4>1, Zenon DEF Answered
        <4> QED
          BY <3>5, <4>2, Zenon DEF HeadOK
      <3>6. CASE ~Capture!HasHead(buf, "request") /\ work'.http_dirs = work.http_dirs
                 /\ work'.requests = work.requests /\ work'.tls_dirs = work.tls_dirs /\ Buffered(v, d) = buf
        BY <1>1, <1>3, <2>2, <2>4, <2>5, <3>2, <3>6, Zenon DEF HeadOK, now
      <3>7. CASE /\ work'.http_dirs = work.http_dirs /\ work'.requests = work.requests
                 /\ work'.tls_dirs = work.tls_dirs \cup {d} /\ Buffered(v, d) = <<>>
                 /\ buf # <<>> /\ buf[1].t = "hello"
        <4>1. s # <<>> /\ s[1].t = "hello"
          BY <3>3, <3>7
        <4>2. <<>> \in Seq(X) /\ DOMAIN <<>> = {}
          OBVIOUS
        <4> QED
          BY <1>1, <1>3, <2>4, <3>7, <4>1, <4>2, Zenon DEF HeadOK
      <3> QED
        BY <1>3, <3>4, <3>5, <3>6, <3>7 DEF Outcome, buf, r
    <2>6. CASE d \in work.tls_dirs
      <3>1. s # <<>> /\ s[1].t = "hello" /\ \A i \in DOMAIN b : b[i].t # "request"
        BY <1>3, <2>6, Zenon DEF HeadOK, b
      <3>2. \A j \in DOMAIN q : q[j].t # "request"
        <4> SUFFICES ASSUME NEW j \in DOMAIN q PROVE q[j].t # "request"
          OBVIOUS
        <4>1. /\ Len(now) = Len(sofar) + Len(q) /\ Len(sofar) \in Nat /\ Len(q) \in Nat /\ DOMAIN q = 1..Len(q)
              /\ \A i \in 1..Len(sofar) + Len(q) : now[i] = IF i <= Len(sofar) THEN sofar[i] ELSE q[i - Len(sofar)]
          BY ConcatProperties DEF now
        <4>2. LET i == Len(sofar) + j IN i \in 1..Len(sofar) + Len(q) /\ ~(i <= Len(sofar)) /\ i - Len(sofar) = j
          BY <4>1
        <4>3. now[Len(sofar) + j] = q[j] /\ Len(sofar) + j \in 1..Len(now)
          BY <4>1, <4>2, Zenon
        <4>4. Len(now) <= Len(s) /\ \A i \in 1..Len(now) : now[i] = s[i]
          BY DEF Begins, now
        <4>5. Len(sofar) + j \in DOMAIN s /\ s[Len(sofar) + j] = q[j]
          BY <2>3, <4>1, <4>3, <4>4
        <4> QED
          BY <3>1, <4>5
      <3>3. \A i \in DOMAIN buf : buf[i].t # "request"
        BY <2>2, <3>1, <3>2
      <3>4. ~Capture!HasHead(buf, "request") /\ ~Asked(s)
        <4>1. buf # <<>> => 1 \in DOMAIN buf
          BY <2>3
        <4> QED
          BY <3>1, <3>3, <4>1 DEF Capture!HasHead, Asked
      <3>5. CASE work'.http_dirs = work.http_dirs \cup {d} /\ work'.requests = work.requests
        <4>1. Answered(d, s)'
          BY <2>4, <3>4, <3>5, Zenon DEF Answered
        <4> QED
          BY <3>5, <4>1, Zenon DEF HeadOK
      <3>6. CASE work'.http_dirs = work.http_dirs /\ work'.requests = work.requests /\ work'.tls_dirs = work.tls_dirs
                 /\ Buffered(v, d) = buf
        BY <1>1, <1>3, <2>2, <2>4, <2>6, <3>1, <3>3, <3>6, Zenon DEF HeadOK
      <3> QED
        BY <1>3, <2>6, <3>4, <3>5, <3>6 DEF Outcome, buf, r
    <2> QED
      BY <2>5, <2>6
  <1> QED
    BY <1>2, <1>3

(* A round of the loop, for the packet the sniffer sees next of c.          *)
Round(c, p, v) ==
    /\ Seen(c) < Len(input[c]) /\ p = input[c][Seen(c) + 1]
    /\ v = Capture!Processed(work, p) /\ SameLoop(v, work)
    /\ work' = Capture!Sent(v, c) /\ UNCHANGED input

LEMMA RoundOf ==
    ASSUME Sniffed, NEW c \in DOMAIN input, SentBefore(c), Capture!SeePacket(c)
    PROVE  \E p, v : Round(c, p, v)
  <1> DEFINE p == Head(work.unsent[c])
             v == Capture!Processed(work, p)
             n == Len(input[c])
             k == Seen(c)
  <1>1. input[c] \in Seq(ToSet(input[c])) /\ n \in Nat
    BY ConnectionShape DEF Sniffed
  <1>2. k \in 0..n /\ work.unsent[c] = SubSeq(input[c], k + 1, n) /\ work.unsent[c] # <<>>
    BY DEF SentBefore, Capture!SeePacket, Capture!Sending
  <1>3. k < n
    <2>1. CASE k = n
      <3>1. k + 1 \in Int /\ n \in Int /\ n < k + 1
        BY <1>1, <2>1
      <3>2. SubSeq(input[c], k + 1, n) = <<>>
        BY <3>1, SubSeqEmpty
      <3> QED
        BY <1>2, <3>2
    <2> QED
      BY <1>1, <1>2, <2>1
  <1>4. p = input[c][k + 1]
    <2>1. k + 1 \in 1..n /\ n \in (k + 1)..n
      BY <1>1, <1>2, <1>3
    <2>2. Head(SubSeq(input[c], k + 1, n)) = input[c][k + 1]
      BY <1>1, <2>1, HeadTailOfSubSeq
    <2> QED
      BY <1>2, <2>2
  <1>5. SameLoop(v, work)
    <2> DEFINE d == <<p.src, p.dst>>
    <2>1. LoopFields \subseteq DOMAIN work
      BY DEF Sniffed
    <2> HIDE DEF p
    <2>2. IF p.proto = "tcp" /\ p.payload # <<>>
          THEN Outcome(v, work, d, Capture!Stitched(work, p), p) ELSE SameHeads(v, work)
      BY <2>1, RoundOutcome
    <2> QED
      BY <2>2 DEF Outcome, OnlyFor, SameHeads
  <1>6. work' = Capture!Sent(v, c) /\ UNCHANGED input
    BY DEF Capture!SeePacket
  <1> QED
    BY <1>3, <1>4, <1>5, <1>6 DEF Round

(* The round leaves the fields of the dissectors as they come out of it.    *)
Took(v) ==
    /\ work'.requests = v.requests /\ work'.buffers = v.buffers
    /\ work'.http_dirs = v.http_dirs /\ work'.tls_dirs = v.tls_dirs

LEMMA RoundKeeps ==
    ASSUME Sniffed, NEW c \in DOMAIN input, SentBefore(c), NEW p, NEW v, Round(c, p, v)
    PROVE  /\ LoopFields \subseteq DOMAIN work' /\ work'.faults = work.faults /\ work'.done = work.done
           /\ work'.unsent = [work.unsent EXCEPT ![c] = Tail(@)]
           /\ Took(v)
           /\ work.unsent[c] = SubSeq(input[c], Seen(c) + 1, Len(input[c]))
           /\ work'.unsent[c] = SubSeq(input[c], Seen(c) + 2, Len(input[c]))
           /\ Seen(c)' = Seen(c) + 1
  <1> DEFINE n == Len(input[c])
             k == Seen(c)
  <1>1. LoopFields \subseteq DOMAIN v /\ v.unsent = work.unsent /\ v.faults = work.faults /\ v.done = work.done
    BY DEF Sniffed, Round, SameLoop
  <1>2. work' = [v EXCEPT !.unsent[c] = Tail(@)]
    BY DEF Round, Capture!Sent
  <1>3. /\ LoopFields \subseteq DOMAIN work' /\ work'.faults = work.faults /\ work'.done = work.done
        /\ work'.unsent = [work.unsent EXCEPT ![c] = Tail(@)]
        /\ Took(v)
    BY <1>1, <1>2 DEF LoopFields, Took
  <1>4. input[c] \in Seq(ToSet(input[c])) /\ n \in Nat /\ k \in 0..n /\ k < n
    BY ConnectionShape DEF Sniffed, SentBefore, Round
  <1>5. work.unsent[c] = SubSeq(input[c], k + 1, n)
    BY DEF SentBefore
  <1>6. work'.unsent[c] = SubSeq(input[c], k + 2, n)
    <2>1. k + 1 \in 1..n /\ n \in (k + 1)..n /\ (k + 1) + 1 = k + 2
      BY <1>4
    <2>2. Tail(SubSeq(input[c], k + 1, n)) = SubSeq(input[c], k + 2, n)
      <3>1. Tail(SubSeq(input[c], k + 1, n)) = SubSeq(input[c], (k + 1) + 1, n)
        BY <1>4, <2>1, HeadTailOfSubSeq, Zenon
      <3> QED
        BY <2>1, <3>1, Zenon
    <2>3. work'.unsent[c] = Tail(work.unsent[c])
      BY <1>3 DEF Sniffed
    <2> QED
      BY <1>5, <2>2, <2>3, Zenon
  <1>7. Seen(c)' = k + 1
    <2>1. Len(SubSeq(input[c], k + 2, n)) = IF k + 2 <= n THEN n - (k + 2) + 1 ELSE 0
      <3>1. k + 2 \in Int /\ n \in Int /\ \A i \in (k + 2)..n : input[c][i] \in ToSet(input[c])
        <4>1. \A i \in (k + 2)..n : i \in 1..n
          BY <1>4
        <4> QED
          BY <1>4, <4>1
      <3> QED
        BY <3>1, SubSeqProperties
    <2>2. Len(SubSeq(input[c], k + 2, n)) = n - (k + 1)
      BY <1>4, <2>1
    <2>3. Seen(c)' = n - Len(SubSeq(input[c], k + 2, n))
      BY <1>6 DEF Seen, Round
    <2> QED
      BY <1>4, <2>2, <2>3
  <1> QED
    BY <1>3, <1>5, <1>6, <1>7, Zenon

LEMMA RoundSent ==
    ASSUME Sniffed, NEW c \in DOMAIN input, \A b \in DOMAIN input : SentBefore(b), NEW p, NEW v, Round(c, p, v),
           ~work.done, NEW b \in DOMAIN input
    PROVE  SentBefore(b)' /\ Seen(b)' = IF b = c THEN Seen(c) + 1 ELSE Seen(b)
  <1>1. CASE b = c
    <2>1. /\ work'.unsent[c] = SubSeq(input[c], Seen(c) + 2, Len(input[c]))
          /\ Seen(c)' = Seen(c) + 1 /\ work'.done = work.done
      BY RoundKeeps, Zenon
    <2>2. Len(input[c]) \in Nat /\ Seen(c) \in 0..Len(input[c]) /\ Seen(c) < Len(input[c])
      BY ConnectionShape DEF Sniffed, SentBefore, Round
    <2>3. Seen(c) + 1 \in 0..Len(input[c]) /\ (Seen(c) + 1) + 1 = Seen(c) + 2
      BY <2>2
    <2>4. input' = input
      BY DEF Round
    <2> QED
      BY <1>1, <2>1, <2>3, <2>4, Zenon DEF SentBefore
  <1>2. CASE b # c
    <2>1. work'.unsent = [work.unsent EXCEPT ![c] = Tail(@)] /\ work'.done = work.done
      BY RoundKeeps
    <2>2. work'.unsent[b] = work.unsent[b] /\ input' = input
      BY <1>2, <2>1 DEF Sniffed, Round
    <2>3. Seen(b)' = Seen(b)
      BY <2>2 DEF Seen
    <2> QED
      BY <1>2, <2>1, <2>2, <2>3, Zenon DEF SentBefore
  <1> QED
    BY <1>1, <1>2

(* After a round the invariant holds of every direction of every            *)
(* connection.                                                              *)
LEMMA RoundHeads ==
    ASSUME Sniffed, NEW c \in DOMAIN input, \A b \in DOMAIN input : SentBefore(b) /\ HeadsOf(b), ~work.done,
           NEW p, NEW v, Round(c, p, v), NEW b \in DOMAIN input
    PROVE  HeadsOf(b)'
  <1>0. SentBefore(c)
    OBVIOUS
  <1>2. /\ work'.requests = v.requests /\ work'.buffers = v.buffers
        /\ work'.http_dirs = v.http_dirs /\ work'.tls_dirs = v.tls_dirs
    <2>1. Took(v)
      BY <1>0, RoundKeeps, Zenon
    <2> QED
      BY <2>1 DEF Took
  <1> DEFINE d == <<p.src, p.dst>>
             r == Capture!Request(Capture!Stitched(work, p), p)
             k == Seen(c)
  <1>1. /\ input' = input /\ p = input[c][k + 1] /\ k \in 0..Len(input[c]) /\ k < Len(input[c])
        /\ Len(input[c]) \in Nat /\ k + 1 \in 1..Len(input[c])
    BY ConnectionShape DEF Round, Sniffed, SentBefore
  <1>3. Seen(b)' = IF b = c THEN k + 1 ELSE Seen(b)
    BY RoundSent
  <1>4. IF p.proto = "tcp" /\ p.payload # <<>>
        THEN Outcome(v, work, d, Capture!Stitched(work, p), p) ELSE SameHeads(v, work)
    <2>1. LoopFields \subseteq DOMAIN work /\ v = Capture!Processed(work, p)
      BY DEF Sniffed, Round
    <2> QED
      BY <2>1, RoundOutcome
  <1>5. p \in ToSet(input[c]) /\ p.payload \in Seq(PartsOf(c))
    BY <1>1, ConnectionShape DEF Sniffed
  <1>6. PICK S : work.requests \in Seq(S)
    BY DEF Sniffed
  <1>7. r.dir = d
    BY DEF Capture!Request, Capture!Direction
  <1> HIDE DEF d, r, k
  <1>8. ASSUME NEW dir \in Directions(input[b]), NEW parts, parts = PartsOf(b),
               NEW s, s = Stream(input[b], dir), NEW sofar, sofar = StreamAfter(input[b], dir)[Seen(b)],
               NEW now, now = StreamAfter(input[b], dir)[Seen(b)']
        PROVE  HeadOK(dir, parts, s, now)'
    <2>1. HeadOK(dir, parts, s, sofar)
      BY <1>8 DEF HeadsOf
    <2>2. b # c => now = sofar
      BY <1>3, <1>8
    <2>3. b = c => sofar \in Seq(parts) /\ now = sofar \o Carries(p, dir) /\ Begins(now, s) /\ s \in Seq(parts)
      <3> SUFFICES ASSUME b = c
                   PROVE  sofar \in Seq(parts) /\ now = sofar \o Carries(p, dir) /\ Begins(now, s) /\ s \in Seq(parts)
        OBVIOUS
      <3> DEFINE after == StreamAfter(input[c], dir)
                 n == Len(input[c])
      <3>1. /\ after \in [0..n -> Seq(PartsOf(c))] /\ Stream(input[c], dir) = after[n]
            /\ \A i \in 0..n : i < n => after[i + 1] = after[i] \o Carries(input[c][i + 1], dir)
            /\ \A i \in 0..n : Begins(after[i], after[n])
        BY StreamSteps, Zenon DEF Sniffed
      <3>2. k + 1 \in 0..n /\ n \in 0..n
        BY <1>1
      <3>3. sofar = after[k] /\ now = after[k + 1] /\ s = after[n] /\ parts = PartsOf(c)
        BY <1>3, <1>8, <3>1 DEF k
      <3> HIDE DEF after, n
      <3> QED
        BY <1>1, <3>1, <3>2, <3>3, Zenon DEF n
    <2>4. CASE p.proto = "tcp" /\ p.payload # <<>> /\ dir = d
      <3>1. Outcome(v, work, d, Capture!Stitched(work, p), p)
        BY <1>4, <2>4
      <3>2. b = c
        <4>1. d \in Directions(input[c])
          BY <1>5, <2>4 DEF d, Directions
        <4>2. b # c => Directions(input[b]) \cap Directions(input[c]) = {}
          BY TrafficAssumption DEF Sniffed
        <4> QED
          BY <1>8, <2>4, <4>1, <4>2
      <3>3. Carries(p, dir) = p.payload
        BY <2>4 DEF Carries, d
      <3>4. s # <<>> /\ s[1].t = "hello" => \A i \in DOMAIN s : s[i].t # "request"
        BY <1>8, TrafficAssumption DEF Sniffed
      <3>5. p.payload \in Seq(parts) /\ now = sofar \o p.payload /\ sofar \in Seq(parts) /\ s \in Seq(parts)
            /\ Begins(sofar \o p.payload, s) /\ HeadOK(d, parts, s, sofar)
        BY <1>5, <1>8, <2>1, <2>3, <2>4, <3>2, <3>3, Zenon
      <3>6. HeadOK(d, parts, s, sofar \o p.payload)'
        BY <1>2, <1>6, <3>1, <3>4, <3>5, OwnHead DEF d
      <3> QED
        BY <2>4, <3>5, <3>6
    <2>5. CASE ~(p.proto = "tcp" /\ p.payload # <<>> /\ dir = d)
      <3>1. now = sofar
        <4>1. Carries(p, dir) = <<>>
          BY <2>5 DEF Carries, d
        <4> QED
          BY <2>2, <2>3, <4>1, ConcatEmptySeq
      <3>2. /\ work'.requests = work.requests \/ (work'.requests = Capture!Kept(work.requests, r) /\ r.dir = d)
            /\ dir # d \/ work'.requests = work.requests
            /\ dir \in work'.http_dirs <=> dir \in work.http_dirs
            /\ dir \in work'.tls_dirs <=> dir \in work.tls_dirs
            /\ Buffered(work', dir) = Buffered(work, dir)
        <4>1. CASE p.proto = "tcp" /\ p.payload # <<>>
          <5>1. Outcome(v, work, d, Capture!Stitched(work, p), p) /\ dir # d
            BY <1>4, <2>5, <4>1
          <5>2. Buffered(v, dir) = Buffered(work, dir)
            BY <5>1 DEF Outcome, OnlyFor
          <5>3. Buffered(work', dir) = Buffered(v, dir)
            BY <1>2 DEF Buffered
          <5>4. v.requests = work.requests \/ v.requests = Capture!Kept(work.requests, r)
            BY <5>1 DEF Outcome, r
          <5>5. /\ v.http_dirs = work.http_dirs \/ v.http_dirs = work.http_dirs \cup {d}
                /\ v.tls_dirs = work.tls_dirs \/ v.tls_dirs = work.tls_dirs \cup {d}
            BY <5>1 DEF Outcome
          <5> QED
            BY <1>2, <1>7, <5>1, <5>2, <5>3, <5>4, <5>5
        <4>2. CASE ~(p.proto = "tcp" /\ p.payload # <<>>)
          <5>1. SameHeads(v, work)
            BY <1>4, <4>2
          <5> QED
            BY <1>2, <5>1 DEF SameHeads, Buffered
        <4> QED
          BY <4>1, <4>2
      <3>3. HeadOK(dir, parts, s, sofar)'
        BY <1>6, <2>1, <3>2, OtherHeads, Zenon
      <3> QED
        BY <3>1, <3>3
    <2> QED
      BY <2>4, <2>5
  <1>9. \A dir \in Directions(input[b]) :
            HeadOK(dir, PartsOf(b), Stream(input[b], dir), StreamAfter(input[b], dir)[Seen(b)])'
    <2> SUFFICES ASSUME NEW dir \in Directions(input[b])
                 PROVE  HeadOK(dir, PartsOf(b), Stream(input[b], dir), StreamAfter(input[b], dir)[Seen(b)])'
      OBVIOUS
    <2>1. PartsOf(b)' = PartsOf(b)
      BY <1>1 DEF PartsOf
    <2>2. Stream(input[b], dir)' = Stream(input[b], dir) /\ StreamAfter(input[b], dir)' = StreamAfter(input[b], dir)
      BY <1>1 DEF Stream, StreamAfter
    <2> QED
      BY <1>8, <2>1, <2>2 DEF HeadOK
  <1> QED
    BY <1>1, <1>9 DEF HeadsOf

(* Faulty captures too keep the shape of the state.                         *)
LEMMA SniffedKept ==
    ASSUME Sniffed, NEW v, v.requests = work.requests \/ \E r : v.requests = Capture!Kept(work.requests, r),
           SameLoop(v, work), NEW c, input' = input, LoopFields \subseteq DOMAIN work',
           work'.requests = v.requests, work'.faults \in Nat,
           work'.unsent = v.unsent \/ work'.unsent = [v.unsent EXCEPT ![c] = Tail(@)]
    PROVE  Sniffed'
  <1>1. PICK r : work'.requests = work.requests \/ work'.requests = Capture!Kept(work.requests, r)
    OBVIOUS
  <1>2. \E U : work'.requests \in Seq(U)
    <2>1. work.requests \in Seq(ToSet(work.requests))
      BY DEF Sniffed
    <2> QED
      BY <1>1, <2>1, RequestAdded
  <1>3. work'.requests \in Seq(ToSet(work'.requests))
    <2> DEFINE q == work'.requests
    <2>1. PICK U : q \in Seq(U)
      BY <1>2
    <2> HIDE DEF q
    <2>2. Len(q) \in Nat /\ q \in [1..Len(q) -> U] /\ DOMAIN q = 1..Len(q)
      BY <2>1
    <2>3. \A i \in 1..Len(q) : q[i] \in ToSet(q)
      BY <2>2 DEF ToSet
    <2>4. q \in [1..Len(q) -> ToSet(q)]
      BY <2>2, <2>3
    <2>5. q \in Seq(ToSet(q))
      BY <2>2, <2>4
    <2> QED
      BY <2>5 DEF q
  <1>4. DOMAIN work'.unsent = DOMAIN work.unsent
    BY DEF SameLoop
  <1>5. ToSet(work.requests)' = ToSet(work'.requests)
    BY DEF ToSet
  <1> QED
    BY <1>3, <1>4, <1>5 DEF Sniffed

LEMMA HeadsStep ==
    ASSUME HeadsInv, Capture!Next, kind = "pcap", kind' = kind
    PROVE  HeadsInv'
  <1>1. Sniffed /\ (work.faults = 0 => \A c \in DOMAIN input : SentBefore(c) /\ HeadsOf(c))
    BY DEF HeadsInv
  <1>2. ASSUME NEW p, NEW v, v = Capture!Processed(work, p)
        PROVE  /\ SameLoop(v, work) /\ LoopFields \subseteq DOMAIN v
               /\ v.requests = work.requests \/ \E r : v.requests = Capture!Kept(work.requests, r)
    <2> DEFINE d == <<p.src, p.dst>>
               buf == Capture!Stitched(work, p)
    <2>1. LoopFields \subseteq DOMAIN work
      BY <1>1 DEF Sniffed
    <2>2. IF p.proto = "tcp" /\ p.payload # <<>> THEN Outcome(v, work, d, buf, p) ELSE SameHeads(v, work)
      BY <1>2, <2>1, RoundOutcome
    <2> HIDE DEF d, buf
    <2>3. SameLoop(v, work)
      BY <2>2 DEF Outcome, OnlyFor, SameHeads
    <2>4. v.requests = work.requests \/ \E r : v.requests = Capture!Kept(work.requests, r)
      BY <2>2 DEF Outcome, SameHeads
    <2> QED
      BY <2>1, <2>3, <2>4 DEF SameLoop
  <1>3. ASSUME NEW c \in DOMAIN input, Capture!SeePacket(c) PROVE HeadsInv'
    <2>1. PICK v : /\ v = Capture!Processed(work, Head(work.unsent[c]))
                   /\ work' = Capture!Sent(v, c)
      BY <1>3 DEF Capture!SeePacket
    <2>2. /\ SameLoop(v, work) /\ LoopFields \subseteq DOMAIN v
          /\ v.requests = work.requests \/ \E r : v.requests = Capture!Kept(work.requests, r)
      BY <1>2, <2>1
    <2>3. /\ LoopFields \subseteq DOMAIN work' /\ work'.requests = v.requests /\ work'.faults = v.faults
          /\ work'.unsent = [v.unsent EXCEPT ![c] = Tail(@)]
      BY <2>1, <2>2 DEF Capture!Sent, LoopFields
    <2>4. work'.faults = work.faults /\ work.faults \in Nat /\ input' = input
      BY <1>1, <1>3, <2>2, <2>3 DEF Sniffed, SameLoop, Capture!SeePacket
    <2>5. Sniffed'
      BY <1>1, <2>2, <2>3, <2>4, SniffedKept, Zenon
    <2>6. ASSUME work.faults = 0 PROVE \A b \in DOMAIN input : SentBefore(b)' /\ HeadsOf(b)'
      <3>1. \A b \in DOMAIN input : SentBefore(b) /\ HeadsOf(b)
        BY <1>1, <2>6
      <3>2. SentBefore(c) /\ ~work.done
        BY <1>3, <3>1 DEF Capture!SeePacket, Capture!Sending
      <3>3. PICK p, u : Round(c, p, u)
        BY <1>1, <1>3, <3>2, RoundOf
      <3> QED
        BY <1>1, <3>1, <3>2, <3>3, RoundSent, RoundHeads
    <2> QED
      BY <2>4, <2>5, <2>6 DEF HeadsInv
  <1>4. ASSUME NEW c \in DOMAIN input, Capture!MissPacket(c) PROVE HeadsInv'
    <2>1. /\ LoopFields \subseteq DOMAIN work' /\ work'.requests = work.requests /\ work'.faults = work.faults + 1
          /\ work'.unsent = [work.unsent EXCEPT ![c] = Tail(@)] /\ input' = input
      BY <1>1, <1>4 DEF Capture!MissPacket, Capture!Sent, Sniffed, LoopFields
    <2>2. work'.faults \in Nat /\ work'.faults # 0
      BY <1>1, <2>1 DEF Sniffed
    <2>3. Sniffed'
      BY <1>1, <2>1, <2>2, SniffedKept, Zenon DEF SameLoop
    <2> QED
      BY <2>2, <2>3 DEF HeadsInv
  <1>5. ASSUME NEW c \in DOMAIN input, Capture!SeePacketAgain(c) PROVE HeadsInv'
    <2>1. PICK v : /\ v = Capture!Processed(work, Head(work.unsent[c]))
                   /\ work' = [v EXCEPT !.faults = @ + 1] /\ input' = input
      BY <1>5 DEF Capture!SeePacketAgain
    <2>2. /\ SameLoop(v, work) /\ LoopFields \subseteq DOMAIN v
          /\ v.requests = work.requests \/ \E r : v.requests = Capture!Kept(work.requests, r)
      BY <1>2, <2>1
    <2>3. /\ LoopFields \subseteq DOMAIN work' /\ work'.requests = v.requests /\ work'.faults = work.faults + 1
          /\ work'.unsent = v.unsent
      BY <2>1, <2>2 DEF LoopFields, SameLoop
    <2>4. work'.faults \in Nat /\ work'.faults # 0
      BY <1>1, <2>3 DEF Sniffed
    <2>5. Sniffed'
      BY <1>1, <2>1, <2>2, <2>3, <2>4, SniffedKept, Zenon
    <2> QED
      BY <2>4, <2>5 DEF HeadsInv
  <1>6. ASSUME Capture!EndOfCapture PROVE HeadsInv'
    <2>1. /\ LoopFields \subseteq DOMAIN work' /\ work'.requests = work.requests /\ work'.faults = work.faults
          /\ work'.unsent = work.unsent /\ work'.buffers = work.buffers /\ input' = input
          /\ work'.http_dirs = work.http_dirs /\ work'.tls_dirs = work.tls_dirs
          /\ \A c \in DOMAIN input : work.unsent[c] = <<>>
      BY <1>1, <1>6 DEF Capture!EndOfCapture, Sniffed, LoopFields
    <2>2. Sniffed'
      BY <1>1, <2>1, SniffedKept DEF SameLoop, Sniffed
    <2>3. ASSUME work.faults = 0, NEW c \in DOMAIN input PROVE SentBefore(c)' /\ HeadsOf(c)'
      <3>1. SentBefore(c) /\ HeadsOf(c) /\ Seen(c)' = Seen(c)
        BY <1>1, <2>1, <2>3 DEF Seen
      <3>2. Seen(c) = Len(input[c])
        <4>1. Len(input[c]) \in Nat /\ Len(work.unsent[c]) = 0
          BY <1>1, <2>1, ConnectionShape DEF Sniffed
        <4> QED
          BY <4>1 DEF Seen
      <3>3. SentBefore(c)'
        BY <2>1, <3>1, <3>2 DEF SentBefore
      <3>4. ASSUME NEW dir, NEW parts, NEW s, NEW sofar, HeadOK(dir, parts, s, sofar)
            PROVE  HeadOK(dir, parts, s, sofar)'
        BY <2>1, <3>4 DEF HeadOK, Buffered, RequestsOf, Answered
      <3>5. HeadsOf(c)'
        <4>1. PartsOf(c)' = PartsOf(c)
          BY <2>1 DEF PartsOf
        <4>2. ASSUME NEW dir PROVE Stream(input[c], dir)' = Stream(input[c], dir)
                                   /\ StreamAfter(input[c], dir)' = StreamAfter(input[c], dir)
          BY <2>1 DEF Stream, StreamAfter
        <4> QED
          BY <2>1, <3>1, <3>4, <4>1, <4>2 DEF HeadsOf
      <3> QED
        BY <3>3, <3>5
    <2> QED
      BY <2>1, <2>2, <2>3 DEF HeadsInv
  <1> QED
    BY <1>3, <1>4, <1>5, <1>6 DEF Capture!Next

(* At the end all of every stream arrived, so a request that ends within    *)
(* the capacity cannot still lie unparsed in its buffer.                    *)
LEMMA HeadsImply == HeadsInv => HeadsWhole
  <1> SUFFICES ASSUME HeadsInv, kind = "pcap", work.done, work.faults = 0,
                      NEW c \in DOMAIN input, NEW dir \in Directions(input[c]), NEW s, s = Stream(input[c], dir)
               PROVE  Answered(dir, s)
    BY DEF HeadsWhole, Ended
  <1>1. Sniffed /\ HeadOK(dir, PartsOf(c), s, s) /\ s \in Seq(PartsOf(c))
    <2>1. Sniffed /\ SentBefore(c) /\ HeadsOf(c) /\ Seen(c) = Len(input[c])
      BY DEF HeadsInv, SentBefore
    <2>2. s = StreamAfter(input[c], dir)[Seen(c)]
      BY <2>1 DEF Stream
    <2>3. s \in Seq(PartsOf(c))
      <3>1. Len(input[c]) \in Nat
        BY <2>1, ConnectionShape DEF Sniffed
      <3>2. Len(input[c]) \in 0..Len(input[c])
        BY <3>1
      <3>3. /\ StreamAfter(input[c], dir) \in [0..Len(input[c]) -> Seq(PartsOf(c))]
            /\ s = StreamAfter(input[c], dir)[Len(input[c])]
        BY <2>1, StreamSteps, Zenon DEF Sniffed
      <3> QED
        BY <3>2, <3>3
    <2> QED
      BY <2>1, <2>2, <2>3, Zenon DEF HeadsOf
  <1>2. CASE dir \in work.http_dirs
    BY <1>1, <1>2 DEF HeadOK
  <1>3. CASE dir \notin work.http_dirs /\ ~Asked(s)
    BY <1>1, <1>3 DEF HeadOK, Answered
  <1>4. ASSUME dir \notin work.http_dirs, Asked(s) PROVE FALSE
    <2>1. CASE dir \in work.tls_dirs
      BY <1>1, <1>4, <2>1 DEF HeadOK, Asked
    <2>2. CASE dir \notin work.tls_dirs
      <3> DEFINE buf == Buffered(work, dir)
      <3>1. buf \in Seq(PartsOf(c)) /\ Buffers(buf, s, StitchCap) /\ ~Capture!HasHead(buf, "request")
        BY <1>1, <1>4, <2>2 DEF HeadOK
      <3> HIDE DEF buf
      <3>2. PICK i \in DOMAIN s : i <= StitchCap /\ s[i].t = "end"
        BY <1>4 DEF Asked
      <3>3. i \in DOMAIN buf /\ buf[i] = s[i] /\ buf # <<>> /\ buf[1] = s[1]
        <4>1. DOMAIN s = 1..Len(s) /\ DOMAIN buf = 1..Len(buf) /\ Len(s) \in Nat /\ Len(buf) \in Nat
          BY <1>1, <3>1
        <4>2. /\ \A j \in 1..Len(buf) : buf[j] = s[j]
              /\ Len(buf) = Len(s) \/ Len(buf) = StitchCap
          BY <3>1 DEF Buffers, Begins
        <4>3. i \in 1..Len(buf) /\ 1 \in 1..Len(buf)
          <5>1. i \in 1..Len(s) /\ i <= StitchCap
            BY <3>2, <4>1
          <5>2. StitchCap \in Nat
            BY TrafficAssumption
          <5>3. CASE Len(buf) = Len(s)
            BY <4>1, <5>1, <5>3
          <5>4. CASE Len(buf) = StitchCap
            BY <4>1, <5>1, <5>2, <5>4
          <5> QED
            BY <4>2, <5>3, <5>4
        <4>4. buf # <<>>
          BY <4>1, <4>3
        <4> QED
          BY <4>1, <4>2, <4>3, <4>4, Zenon
      <3>4. Capture!HasHead(buf, "request")
        BY <1>4, <3>2, <3>3 DEF Capture!HasHead, Asked
      <3> QED
        BY <3>1, <3>4
    <2> QED
      BY <2>1, <2>2
  <1> QED
    BY <1>2, <1>3, <1>4

(* When the sniffer saw every packet once, the first HTTP request of each   *)
(* direction is in the requests exactly once and as it was sent, if its     *)
(* head ends within _STITCH_CAP and as long as the list has room: for any   *)
(* packets, cut and interleaved in any way (analyze/pcap_proto.py:177).     *)
(* What is not yet parsed has to be known, which the property does not say: *)
(* each buffer holds the beginning of its stream.                           *)
THEOREM HeadsReported == Spec => []HeadsWhole
  <1>1. HeadsInv /\ [Next]_vars => HeadsInv'
    <2> SUFFICES ASSUME HeadsInv, [Next]_vars, kind' = "pcap" PROVE HeadsInv'
      BY DEF HeadsInv
    <2>1. CASE UNCHANGED vars
      <3>1. input' = input /\ work' = work /\ kind' = kind
        BY <2>1 DEF vars
      <3>2. ASSUME NEW c PROVE Seen(c)' = Seen(c) /\ PartsOf(c)' = PartsOf(c)
        BY <3>1 DEF Seen, PartsOf
      <3>3. ASSUME NEW c, NEW dir
            PROVE  Stream(input[c], dir)' = Stream(input[c], dir) /\ StreamAfter(input[c], dir)' = StreamAfter(input[c], dir)
        BY <3>1 DEF Stream, StreamAfter
      <3>4. ASSUME NEW dir, NEW parts, NEW s, NEW sofar
            PROVE  HeadOK(dir, parts, s, sofar)' <=> HeadOK(dir, parts, s, sofar)
        BY <3>1 DEF HeadOK, Buffered, RequestsOf, Answered
      <3>5. ASSUME NEW c \in DOMAIN input, HeadsOf(c) PROVE HeadsOf(c)'
        BY <3>1, <3>2, <3>3, <3>4, <3>5 DEF HeadsOf
      <3> QED
        BY <3>1, <3>2, <3>5 DEF HeadsInv, Sniffed, SentBefore
    <2>2. CASE Next
      <3>1. kind' = kind /\ kind = "pcap" /\ Capture!Next
        BY <2>2 DEF Next
      <3> QED
        BY <3>1, HeadsStep
    <2> QED
      BY <2>1, <2>2
  <1> QED
    BY <1>1, HeadsInit, HeadsImply, PTL DEF Spec
=============================================================================
