----------------------------- MODULE Configure -----------------------------
(* The interactive setup (cli.py, configure): it reads the keys of .env,    *)
(* asks for each in turn and writes the file anew. The user may press       *)
(* Ctrl-C at a prompt; the process may die while it writes.                 *)
EXTENDS Integers, Sequences, SequencesExt

CONSTANTS
    Configurable,   \* _CONFIGURABLE: the keys asked for, in order
    EnvFiles,       \* the files that may be there: [key, value], "#" for a line without a key
    Entries         \* what may be typed at a prompt; "" is Enter, " " only blanks

VARIABLES
    input,   \* the file before
    work,    \* [pc, updated, typed, done]: typed is what the user entered so far
    report   \* the file now, its health check and whether a write was cut short
vars == <<input, work, report>>

Keys(lines) == {l.key : l \in ToSet(lines)} \ {"#"}
(* _read_env_file: comments and lines without "=" are passed over, and a    *)
(* key given twice has its last value.                                      *)
Values(lines) ==
    [k \in Keys(lines) |-> lines[SelectLastInSeq(lines, LAMBDA l : l.key = k)].value]
(* _write_env_file.                                                         *)
Lines(values) ==
    <<[key |-> "#", value |-> "Generated"]>>
    \o SetToSeq({[key |-> k, value |-> values[k]] : k \in DOMAIN values})

Init ==
    /\ input \in EnvFiles
    /\ work = [pc |-> "read", asked |-> 0, updated |-> <<>>, typed |-> <<>>, done |-> FALSE]
    /\ report = [file |-> input, misp |-> "not asked", cut |-> FALSE]

ReadNothing ==   \* mutant: what was there is not carried over
    /\ work.pc = "read"
    /\ work' = [work EXCEPT !.pc = "ask"]
    /\ UNCHANGED <<input, report>>
Read ==
    /\ work.pc = "read"
    /\ work' = [work EXCEPT !.pc = "ask", !.updated = Values(input)]
    /\ UNCHANGED <<input, report>>

Blank == {"", " "}
Ask ==
    /\ work.pc = "ask" /\ work.asked < Len(Configurable)
    /\ \E v \in Entries :
          LET k == Configurable[work.asked + 1]
              Set(f) == [x \in DOMAIN f \cup {k} |-> IF x = k THEN v ELSE f[x]]
          IN  work' = IF v \in Blank THEN [work EXCEPT !.asked = @ + 1]
                      ELSE [work EXCEPT !.asked = @ + 1, !.updated = Set(@), !.typed = Set(@)]
    /\ UNCHANGED <<input, report>>
Interrupt ==
    /\ work.pc = "ask"
    /\ work' = [work EXCEPT !.pc = "interrupted", !.done = TRUE]
    /\ UNCHANGED <<input, report>>

(* write_text opens the file, which empties it, and then writes.            *)
Truncate ==
    /\ work.pc = "ask" /\ work.asked = Len(Configurable)
    /\ work' = [work EXCEPT !.pc = "write"]
    /\ report' = [report EXCEPT !.file = <<>>, !.cut = TRUE]
    /\ UNCHANGED input
Write ==
    /\ work.pc = "write"
    /\ work' = [work EXCEPT !.pc = "ping"]
    /\ report' = [report EXCEPT !.file = Lines(work.updated), !.cut = FALSE]
    /\ UNCHANGED input
DieWriting ==
    /\ work.pc = "write"
    /\ work' = [work EXCEPT !.pc = "dead", !.done = TRUE]
    /\ UNCHANGED <<input, report>>

(* _ping_misp, when URL and key are set; whatever comes of it is printed.   *)
Given(k) == k \in DOMAIN work.updated /\ work.updated[k] \notin Blank
Ping ==
    /\ work.pc = "ping"
    /\ work' = [work EXCEPT !.pc = "finished", !.done = TRUE]
    /\ \E health \in IF Given("MISP_URL") /\ Given("MISP_KEY")
                     THEN {"reachable", "refused", "unreachable"} ELSE {"not asked"} :
          report' = [report EXCEPT !.misp = health]
    /\ UNCHANGED input

Next ==
    /\ ~work.done
    /\ Read \/ Ask \/ Interrupt \/ Truncate \/ Write \/ DieWriting \/ Ping
Spec == Init /\ [][Next]_vars
=============================================================================
