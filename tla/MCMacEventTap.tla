---------------------------- MODULE MCMacEventTap ----------------------------
(* Two threads race to stop the tap, and the sink may stop it too.           *)
EXTENDS MacEventTap
CONSTANTS s1, s2
MCStopper == {s1, s2}
===============================================================================
