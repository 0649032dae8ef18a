------------------------------ MODULE MCWebApp ------------------------------
(* Two or three clients, days and limiter windows of two ticks, and tables   *)
(* with room for two.                                                        *)
EXTENDS WebApp, TLC
CONSTANTS alice, bob, carol, q1, q2
TwoClients == {alice, bob}
ThreeClients == {alice, bob, carol}
OneRequest == {q1}
TwoRequests == {q1, q2}
Symmetry == Permutations(Ids) \cup Permutations(Requests)
=============================================================================
