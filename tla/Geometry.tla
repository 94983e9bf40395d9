------------------------------- MODULE Geometry -------------------------------
(***************************************************************************)
(* The two coordinate spaces (include/robot/Geometry.h).  A point, or a    *)
(* size, has one integer per axis: device pixels in the physical space,    *)
(* and in the logical one quanta, Unit of them to a logical unit, so that  *)
(* what the code holds in a double is exact here.  A display's density is  *)
(* its grain, the quanta one of its pixels takes: its scale factor is      *)
(* Unit / grain, and dividing by the one is multiplying by the other.      *)
(***************************************************************************)
EXTENDS Integers, FiniteSetsExt

CONSTANT Unit
ASSUME UnitAssumption == Unit \in Nat \ {0}

Axis == {"x", "y"}
Vector == [Axis -> Int]
Rect(o, s) == [origin |-> o, size |-> s]

(* std::lround of l / grain: to the nearest, halves away from zero.        *)
lround(l, grain) ==
  IF l >= 0 THEN (2 * l + grain) \div (2 * grain)
            ELSE -((grain - 2 * l) \div (2 * grain))

toPhysical(v, grain) == [a \in Axis |-> lround(v[a], grain)]
toLogical(v, grain) == [a \in Axis |-> v[a] * grain]

RectToPhysical(r, grain) == Rect(toPhysical(r.origin, grain), toPhysical(r.size, grain))
RectToLogical(r, grain) == Rect(toLogical(r.origin, grain), toLogical(r.size, grain))

(* The far edges are outside.                                              *)
contains(r, p) ==
  \A a \in Axis : r.origin[a] <= p[a] /\ p[a] < r.origin[a] + r.size[a]

(* The least rectangle around all of some. *)
Bounds(rects) ==
  LET low == [a \in Axis |-> Min({r.origin[a] : r \in rects})]
      high == [a \in Axis |-> Max({r.origin[a] + r.size[a] : r \in rects})]
  IN Rect(low, [a \in Axis |-> high[a] - low[a]])

(* Rectangle r lies within rectangle s, and shares a point with it. *)
Within(r, s) ==
  \A a \in Axis : /\ s.origin[a] <= r.origin[a]
                  /\ r.origin[a] + r.size[a] <= s.origin[a] + s.size[a]
Touches(r, s) ==
  \A a \in Axis : /\ s.origin[a] < r.origin[a] + r.size[a]
                  /\ r.origin[a] < s.origin[a] + s.size[a]
==============================================================================
