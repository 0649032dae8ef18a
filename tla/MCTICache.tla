----------------------------- MODULE MCTICache -----------------------------
(* Two keys, two payloads, a clock of two ticks per second over four        *)
(* seconds.                                                                 *)
EXTENDS TICache
CONSTANTS k1, k2, p1, p2
MCKeys == {k1, k2}
MCPayloads == {p1, p2}
=============================================================================
