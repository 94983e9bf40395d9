------------------------------- MODULE MCMouse -------------------------------
(* Two buttons, two points, and smooth moves of one or two steps; turns of   *)
(* the wheels both ways, of both and of none.                                *)
EXTENDS MouseBackends, TLC
CONSTANTS Left, Right, here, there
MCButton == {Left, Right}
MCPoint == {here, there}
(* Neither the buttons nor the points are told apart. *)
MCSymmetry == Permutations(MCButton) \union Permutations(MCPoint)
MCSteps == {1, 2}
MCDelta == {[vertical |-> 0, horizontal |-> 0], [vertical |-> 1, horizontal |-> -1]}
===============================================================================
