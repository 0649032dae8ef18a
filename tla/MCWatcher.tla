----------------------------- MODULE MCWatcher -----------------------------
(* Three IOCs, batches of two, lines of at most three bytes.                *)
EXTENDS Watcher
CONSTANTS a, b, c
MCIocs == {a, b, c}
=============================================================================
