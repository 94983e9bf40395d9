---------------------------- MODULE MCX11EventTap ----------------------------
(* The one tap of a process, stopped by two threads.                         *)
EXTENDS X11EventTap
CONSTANTS a, s1, s2
MCTap == {a}
MCStopper == {s1, s2}
===============================================================================
