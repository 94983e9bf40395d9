----------------------------- MODULE MCRecording -----------------------------
(* A modifier and a button that stays down, two points; replayed at 3/4 of the *)
(* gaps or capped.                                                             *)
EXTENDS Recording
CONSTANTS Shift, Left, here, there
MCKey == {Shift}
MCButton == {Left}
MCPoint == {here, there}
MCEvent == [kind : {"key"}, input : MCKey, down : BOOLEAN]
  \union [kind : {"button"}, input : MCButton, down : {TRUE}, to : MCPoint]
  \union [kind : {"move"}, to : MCPoint]
MCOptions == {[timeScale |-> <<3, 4>>, maxGap |-> 0], [timeScale |-> <<2, 1>>, maxGap |-> 1]}
===============================================================================
