-------------------------------- MODULE Screen --------------------------------
(***************************************************************************)
(* The Screen facade (src/common/Screen.cpp) over the screen backends of   *)
(* Windows, macOS, X11 and, for uinput, the null one.  An enumeration asks *)
(* the system for its displays and then reads them one by one, so displays *)
(* may be replugged in the middle of it, or between it and the capture.    *)
(***************************************************************************)
EXTENDS Desk

CONSTANT Regions  \* backend -> the rectangles callers capture
ASSUME RegionsAssumption ==
  \A b \in Backend : Regions[b] \subseteq [origin : Vector, size : Vector]

VARIABLES
  pc,       \* where the call is: "idle", "list", "read", "grab" or "shoot"
  op,       \* the call: its name, the id or region it is about
  matching, \* macOS captureRegion is looking for the monitor to capture
  handles,  \* the displays listed and not yet read
  found,    \* the monitors read
  target,   \* macOS: the id of the display to capture natively, or 0
  answer,   \* what the last call returned
  \* History, read by properties only:
  known     \* the last list of monitors() and whether the desk is still that one

screenVars == <<pc, op, matching, handles, found, target, answer, known>>
callVars == <<op, answer, known>>

NoRect == Rect([a \in Axis |-> 0], [a \in Axis |-> 0])
Answer(error, value) == [error |-> error, value |-> value]

ScreenInit ==
  /\ pc = "idle"
  /\ op = [name |-> "monitors", id |-> 0, region |-> NoRect]
  /\ matching = FALSE
  /\ handles = <<>> /\ found = <<>>
  /\ target = 0
  /\ answer = Answer("ok", <<>>)
  /\ known = [list |-> <<>>, fresh |-> FALSE]

Return(error, value) ==
  /\ pc' = "idle"
  /\ answer' = Answer(error, value)
  /\ matching' = FALSE
  /\ handles' = <<>> /\ found' = <<>> /\ target' = 0

-----------------------------------------------------------------------------
(* A call begins: those that need the monitors enumerate, capture and      *)
(* pixel go straight to the backend, capture if its region has a size.     *)
Enquire(name, id) ==
  /\ op' = [name |-> name, id |-> id, region |-> NoRect]
  /\ pc' = "list"
  /\ UNCHANGED <<answer, matching, handles, found, target, known>>

Capture(name, region) ==
  /\ op' = [name |-> name, id |-> 0, region |-> region]
  /\ IF \E a \in Axis : region.size[a] <= 0
     THEN Return("invalidArgument", <<>>)
     ELSE pc' = "grab" /\ UNCHANGED <<answer, matching, handles, found, target>>
  /\ UNCHANGED known

ScreenCall ==
  /\ pc = "idle"
  /\ \/ \E name \in {"monitors", "primaryMonitor", "virtualBounds"} : Enquire(name, 0)
     \/ \E m \in ToSet(known.list) : Enquire("captureMonitor", m.id)
     \/ \E r \in Regions[backend] : Capture("capture", r)
     \/ \E r \in Regions[backend] :
          Capture("pixel", Rect(r.origin, [a \in Axis |-> 1]))

(* enumerateMonitors asks for the displays; RandR may refuse, and the null *)
(* backend has none to list.                                               *)
List ==
  /\ pc = "list"
  /\ \/ /\ backend # "uinput"
        /\ pc' = "read"
        /\ handles' = Names /\ found' = <<>>
        /\ UNCHANGED <<matching, target, answer>>
     \/ backend = "x11" /\ Return("platformError", <<>>)
     \/ backend = "uinput" /\ Return("unsupported", <<>>)
  /\ UNCHANGED <<op, known>>

(* One display is read.  One that is gone by now is skipped on Windows and *)
(* X11; macOS does not look at what the system answers of it.              *)
Read ==
  /\ pc = "read"
  /\ handles # <<>>
  /\ LET n == Len(found) + 1
         now == {d \in Displays : d.name = Head(handles)}
     IN found' = IF now # {} THEN Append(found, Monitor(CHOOSE d \in now : TRUE, n))
                 ELSE IF backend = "macos" THEN Append(found, Monitor(Gone(Head(handles)), n))
                 ELSE found
  /\ handles' = Tail(handles)
  /\ UNCHANGED <<pc, matching, target, callVars>>

Enumerated == pc = "read" /\ handles = <<>> /\ ~matching

NoMonitors ==
  /\ Enumerated
  /\ found = <<>>
  /\ Return("platformError", <<>>)
  /\ UNCHANGED <<op, known>>

(* monitors(): the primary ones first, otherwise in order, which is what   *)
(* stable_partition promises of the one list there is.                     *)
(* Mutant: the partition is the wrong way round.                           *)
PrecedesLast(ms, i, j) ==
  IF ms[i].isPrimary = ms[j].isPrimary THEN i < j ELSE ms[j].isPrimary
Precedes(ms, i, j) ==
  IF ms[i].isPrimary = ms[j].isPrimary THEN i < j ELSE ms[i].isPrimary

PrimaryFirst(ms) ==
  LET Orders == {f \in Bijection(1..Len(ms), 1..Len(ms)) :
                   \A i, j \in 1..Len(ms) : i < j => Precedes(ms, f[i], f[j])}
  IN {[i \in 1..Len(ms) |-> ms[f[i]]] : f \in Orders}

Monitors ==
  /\ Enumerated /\ op.name = "monitors" /\ found # <<>>
  /\ \E list \in PrimaryFirst(found) :
       /\ Return("ok", list)
       /\ known' = [list |-> list, fresh |-> "screen" \in steady]
  /\ UNCHANGED op

(* primaryMonitor(): the first that says so, else the first.               *)
PrimaryMonitor ==
  /\ Enumerated /\ op.name = "primaryMonitor" /\ found # <<>>
  /\ LET main == {i \in 1..Len(found) : found[i].isPrimary}
     IN Return("ok", found[IF main # {} THEN Min(main) ELSE 1])
  /\ UNCHANGED <<op, known>>

(* virtualBounds(): the least rectangle around all physical bounds.        *)
VirtualBounds ==
  /\ Enumerated /\ op.name = "virtualBounds" /\ found # <<>>
  /\ Return("ok", Bounds({m.physicalBounds : m \in ToSet(found)}))
  /\ UNCHANGED <<op, known>>

(* captureMonitor(id): the physical bounds the new list has for the id.    *)
(* Mutant: the id is taken for a place in the list of monitors().          *)
FoundIdPlace(id) ==
  IF id \in 1..Len(found) THEN {list[id] : list \in PrimaryFirst(found)} ELSE {}
FoundId(id) == {m \in ToSet(found) : m.id = id}

CaptureMonitor ==
  /\ Enumerated /\ op.name = "captureMonitor" /\ found # <<>>
  /\ \/ /\ FoundId(op.id) = {}
        /\ Return("monitorNotFound", <<>>)
        /\ UNCHANGED op
     \/ \E m \in FoundId(op.id) :
          /\ op' = [op EXCEPT !.region = m.physicalBounds]
          /\ pc' = "grab"
          /\ handles' = <<>> /\ found' = <<>>
          /\ UNCHANGED <<matching, target, answer>>
  /\ UNCHANGED known

-----------------------------------------------------------------------------
(* captureRegion.  An image is the area of the desk it shows, in the       *)
(* system's units, and its size in pixels.                                 *)
Image(area, size) == [area |-> area, size |-> size]

Root == Bounds({d.bounds : d \in Displays})

(* Windows copies whatever is there, X11 only from within the root window; *)
(* both may fail for lack of something.                                    *)
GrabPixels ==
  /\ pc = "grab"
  /\ \/ /\ backend = "windows" \/ (backend = "x11" /\ Within(op.region, Root))
        /\ Return("ok", Image(op.region, op.region.size))
     \/ backend \in {"windows", "x11"} /\ Return("captureFailed", <<>>)
     \/ backend = "uinput" /\ Return("unsupported", <<>>)
  /\ UNCHANGED <<op, known>>

(* macOS enumerates the displays again ...                                 *)
GrabMac ==
  /\ pc = "grab" /\ backend = "macos"
  /\ pc' = "list"
  /\ matching' = TRUE
  /\ UNCHANGED <<handles, found, target, callVars>>

(* ... to capture the first whose bounds are just the region natively ...  *)
Match ==
  /\ pc = "read" /\ handles = <<>> /\ matching
  /\ LET exact == {i \in 1..Len(found) : found[i].physicalBounds = op.region}
     IN target' = IF exact # {} THEN found[Min(exact)].id ELSE 0
  /\ pc' = "shoot"
  /\ UNCHANGED <<matching, handles, found, callVars>>

(* Either may fail, or be missing from the system's library altogether.    *)
NoImage ==
  \/ Return(IF granted.screen THEN "captureFailed" ELSE "permissionDenied", <<>>)
  \/ Return("unsupported", <<>>)

ShootDisplay ==
  /\ pc = "shoot" /\ target # 0
  /\ \/ \E d \in Displays :
          /\ d.name = target /\ granted.screen
          /\ Return("ok", Image(d.bounds, toPhysical(d.bounds.size, d.grain)))
     \/ NoImage
  /\ UNCHANGED <<op, known>>

(* ... and any other region by way of points at the primary's density, in  *)
(* an image as fine as the finest display it touches.                      *)
(* Mutant: a pixel is taken for a point.                                   *)
PointRectPlain(region) == RectToLogical(region, Unit)
PointRect(region) ==
  RectToLogical(region, (CHOOSE d \in Displays : d.main).grain)

ShootRegion ==
  /\ pc = "shoot" /\ target = 0
  /\ LET points == PointRect(op.region)
         touched == {d \in Displays : Touches(points, d.bounds)}
     IN \/ /\ touched # {} /\ granted.screen
           /\ Return("ok", Image(points,
                       toPhysical(points.size, Min({d.grain : d \in touched}))))
        \/ NoImage
  /\ UNCHANGED <<op, known>>

ScreenStep ==
  \/ List \/ Read \/ NoMonitors
  \/ Monitors \/ PrimaryMonitor \/ VirtualBounds \/ CaptureMonitor
  \/ GrabPixels \/ GrabMac \/ Match \/ ShootDisplay \/ ShootRegion

-----------------------------------------------------------------------------
(* The bounds of a monitor in the system's units. *)
Native(m) == IF backend = "macos" THEN m.logicalBounds ELSE m.physicalBounds

(* captureMonitor with an id from monitors() captures that very display, at *)
(* its own size, unless a display was replugged since: the enumeration it   *)
(* makes anew, and on macOS a second one inside the backend, come to the    *)
(* same monitor (Screen.cpp:68-77).  On macOS this takes a desk of one      *)
(* density: see NativeCapture.                                              *)
KnownIdCaptures ==
  pc = "idle" /\ op.name = "captureMonitor" /\ known.fresh
  /\ (backend = "macos" => Uniform)
  => /\ answer.error # "monitorNotFound"
     /\ answer.error = "ok" =>
          \E m \in ToSet(known.list) :
            /\ m.id = op.id
            /\ answer.value = Image(Native(m), m.physicalBounds.size)

(* What MacScreenBackend.cpp:151-152 says of it: "capture that display      *)
(* natively so the result is correct for any display density".              *)
NativeCapture ==
  pc = "idle" /\ op.name = "captureMonitor" /\ known.fresh /\ answer.error = "ok"
  => \E m \in ToSet(known.list) :
       m.id = op.id /\ answer.value = Image(Native(m), m.physicalBounds.size)

(* An image has as many pixels as the region asked for, though macOS gets   *)
(* there by way of points (IScreenBackend.h:37-40), on a desk of one        *)
(* density that is not replugged meanwhile.                                 *)
CaptureExact ==
  pc = "idle" /\ op.name \in {"capture", "pixel"} /\ answer.error = "ok"
  /\ "screen" \in steady /\ (backend = "macos" => Uniform)
  => answer.value.size = op.region.size

(* primaryMonitor() is the first of monitors(), on X11 also when no output  *)
(* is the primary one.                                                      *)
PrimaryAgrees ==
  pc = "idle" /\ op.name = "primaryMonitor" /\ answer.error = "ok" /\ known.fresh
  => answer.value = Head(known.list)
==============================================================================
