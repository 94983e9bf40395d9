---------------------------- MODULE MCWinEventTap ----------------------------
(* Two sessions, run by up to two threads, and a thread that stops them.     *)
EXTENDS WinEventTap
CONSTANTS a, b, t1, t2, s1
MCTap == {a, b}
MCThread == {t1, t2}
MCStopper == {s1}
===============================================================================
