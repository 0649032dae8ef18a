------------------------------ MODULE MCEngine ------------------------------
(* Instances of the engine.  server shares the cache; visitor is the engine *)
(* a bring-your-own-keys request builds for itself, without it; cli is      *)
(* another process on the same database file.                               *)
EXTENDS Engine
CONSTANTS server, visitor, cli, r1, r2, r3, s1, s2, i1, i2

OneSource == {s1}
TwoSources == {s1, s2}
OneIoc == {i1}
TwoIocs == {i1, i2}
MCSupported == [s \in Sources |-> IF s = s1 THEN Iocs ELSE Iocs \ {i2}]
MCConfigured == [e \in Engines |-> IF e = visitor THEN {s1} ELSE Sources]

ServerOnly == {server}
TwoRequests == {r1, r2}
BothOnServer == [r \in Requests |-> server]

ThreeEngines == {server, visitor, cli}
ServerAndCli == {server, cli}
ThreeRequests == {r1, r2, r3}
OneEach == [r \in Requests |-> IF r = r1 THEN server ELSE IF r = r2 THEN cli ELSE visitor]
=============================================================================
