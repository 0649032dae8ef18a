-------------------------- MODULE MCMISPPublisher --------------------------
(* A batch of two addresses and a CVE, which MISP events cannot carry, is   *)
(* pushed up to twice while someone else adds one attribute.                *)
EXTENDS MISPPublisher
CONSTANTS addr, host, cve
MCIocs == {addr, host, cve}
MCMappable == {addr, host}
MCBatch == <<addr, cve, host>>
=============================================================================
