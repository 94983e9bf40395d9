-------------------------------- MODULE Desktop --------------------------------
(***************************************************************************)
(* A session at its desk: it is created, and its caller makes one call at  *)
(* a time to the screen, to the pointer or to another operation, while the *)
(* user replugs displays and changes permissions between any two steps.    *)
(***************************************************************************)
EXTENDS Screen, Pointer

CONSTANTS Desks,    \* host -> the desks its user may plug together
          Calls,    \* bound on the calls of the session
          Replugs   \* bound on the changes of the desk and the permissions

VARIABLES calls, replugs  \* how many there were

vars == <<sessionVars, granted, changed, probe, deskVars, screenVars, pointerVars,
          calls, replugs>>

(* Windows and macOS have a main display, which is at the origin; displays  *)
(* of macOS are a whole number of pixels wide, high and apart.              *)
Arranged(h, d) ==
  /\ d \in Seq(Display) /\ d # <<>>
  /\ \A i, j \in 1..Len(d) : d[i].name = d[j].name \/ (d[i].main /\ d[j].main) => i = j
  /\ h # "linux" => \E i \in 1..Len(d) : d[i].main /\ d[i].bounds.origin = Origin
  /\ h = "macos" =>
       \A i \in 1..Len(d), a \in Axis :
         /\ d[i].bounds.origin[a] % d[i].grain = 0
         /\ d[i].bounds.size[a] % d[i].grain = 0

ASSUME DesktopAssumption ==
  /\ Calls \in Nat /\ Replugs \in Nat
  /\ \A h \in Host : \A d \in Desks[h] : Arranged(h, d)

Init ==
  /\ SessionInit
  /\ desk \in Desks[host] /\ steady = {}
  /\ ScreenInit /\ PointerInit
  /\ calls = 0 /\ replugs = 0

CreateSession == Create /\ UNCHANGED <<deskVars, screenVars, pointerVars, calls, replugs>>

Call ==
  /\ backend # "none" /\ pc = "idle" /\ ppc = "idle"
  /\ calls < Calls /\ calls' = calls + 1
  /\ \/ ScreenCall /\ steady' = steady \union {"screen"}
        /\ UNCHANGED <<probe, pointerVars>>
     \/ PointerCall /\ steady' = steady \union {"pointer"}
        /\ UNCHANGED <<probe, screenVars>>
     \/ \E o \in DOMAIN Probed : Probe(o) /\ UNCHANGED <<steady, screenVars, pointerVars>>
  /\ UNCHANGED <<sessionVars, granted, changed, desk, replugs>>

Step ==
  /\ \/ ScreenStep /\ UNCHANGED pointerVars
     \/ PointerStep /\ UNCHANGED screenVars
  /\ UNCHANGED <<sessionVars, granted, changed, probe, deskVars, calls, replugs>>

(* The displays are rearranged; the system finds the cursor a place. *)
Replug ==
  /\ replugs < Replugs /\ replugs' = replugs + 1
  /\ desk' \in Desks[host] \ {desk}
  /\ steady' = {}
  /\ known' = [known EXCEPT !.fresh = FALSE]
  /\ Settle(cursor, ToSet(desk'))
  /\ UNCHANGED <<sessionVars, granted, changed, probe, pc, op, matching, handles, found,
                 target, answer, ppc, call, metrics, pixel, reply, calls>>

ChangePermission ==
  /\ replugs < Replugs /\ replugs' = replugs + 1
  /\ \E p \in Permission : Toggle(p)
  /\ UNCHANGED <<deskVars, screenVars, pointerVars, calls>>

(* No call in progress: the caller need not make another. *)
AtRest == pc = "idle" /\ ppc = "idle" /\ UNCHANGED vars

Next == CreateSession \/ Call \/ Step \/ Replug \/ ChangePermission \/ AtRest

Spec == Init /\ [][Next]_vars

-----------------------------------------------------------------------------
TypeOK ==
  /\ backend \in Backend \union {"none"}
  /\ desk \in Desks[host]
  /\ pc \in {"idle", "list", "read", "grab", "shoot"}
  /\ ppc \in {"idle", "map", "send", "read"}
  /\ cursor \in Vector /\ pixel \in Vector /\ call.point \in Vector
  /\ \A m \in ToSet(found) : m.id \in Nat /\ m.physicalBounds.size \in Vector
==============================================================================
