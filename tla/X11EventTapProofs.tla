--------------------------- MODULE X11EventTapProofs ---------------------------
(***************************************************************************)
(* Proofs about X11EventTap, for any set of taps and of stopping threads.  *)
(***************************************************************************)
EXTENDS X11EventTap, TLAPS

(* What start() has at each of its steps. *)
HasAt(tap) ==
  /\ pc[tap] \in {"idle", "setup"} => control[tap] = "null" /\ ~context[tap]
  /\ pc[tap] = "publish" => control[tap] = "open" /\ ~context[tap]
  /\ pc[tap] \in {"register", "enable", "loop", "free"} => control[tap] = "open"
  /\ pc[tap] = "clear" => control[tap] = "closed"

(* Somebody asked for every end of the loop; and who asks is noted.        *)
Noted(tap) ==
  /\ \A s \in Stopper : InStopOn(s, tap) => requested[tap]
  /\ InLoop(tap) /\ ~recording[tap] => requested[tap]
  /\ pc[tap] \in {"free", "clear"} => requested[tap] \/ outcome[tap] = "error"

(* The first stop() is alone.  It is still to disable the context of a tap *)
(* that records, and finds one that has left the loop only after an error. *)
First(tap) ==
  /\ \A s, u \in Stopper : InStopOn(s, tap) /\ InStopOn(u, tap) => s = u
  /\ \A s \in Stopper : InStopOn(s, tap) =>
       /\ InLoop(tap) => recording[tap]
       /\ pc[tap] \in {"free", "clear"} => outcome[tap] = "error"
       /\ stopPc[s] = "disable" =>
            \/ pc[tap] \in {"register", "enable", "loop", "free", "clear"}
            \/ pc[tap] = "idle" /\ outcome[tap] = "error"

TapInv(tap) == HasAt(tap) /\ Noted(tap) /\ (~repeated[tap] => First(tap))
Inv == TypeOK /\ \A tap \in Tap : TapInv(tap)

LEMMA InitInv == Init => Inv
<1> SUFFICES ASSUME Init PROVE Inv
  OBVIOUS
<1>1. TypeOK
  BY DEF Init, TypeOK
<1>2. ASSUME NEW tap \in Tap PROVE TapInv(tap)
  BY DEF Init, TapInv, HasAt, Noted, First, InStop, InStopOn, InLoop
<1> QED
  BY <1>1, <1>2 DEF Inv

(* A step of start() changes nothing of another tap that its invariant     *)
(* reads.                                                                  *)
LEMMA StartKeepsInv ==
  ASSUME NEW tap \in Tap, Inv, CallStart(tap) \/ StepStart(tap) \/ Intercept(tap)
  PROVE  Inv'
<1> USE DEF TypeOK, Goto, stopVars, stopHistory
<1>1. TypeOK'
  <2>0. TypeOK
    BY DEF Inv
  <2>1. CASE CallStart(tap)
    BY <2>0, <2>1 DEF CallStart
  <2>2. CASE SetUp(tap)
    BY <2>0, <2>2 DEF SetUp
  <2>3. CASE PublishContext(tap)
    BY <2>0, <2>3 DEF PublishContext
  <2>4. CASE Register(tap)
    BY <2>0, <2>4 DEF Register
  <2>5. CASE EnableContext(tap)
    BY <2>0, <2>5 DEF EnableContext
  <2>6. CASE LeaveLoop(tap)
    BY <2>0, <2>6 DEF LeaveLoop
  <2>7. CASE CloseDisplays(tap)
    BY <2>0, <2>7 DEF CloseDisplays
  <2>8. CASE ClearPointers(tap)
    BY <2>0, <2>8 DEF ClearPointers
  <2>9. CASE Intercept(tap)
    BY <2>0, <2>9 DEF Intercept
  <2> QED
    BY <2>1, <2>2, <2>3, <2>4, <2>5, <2>6, <2>7, <2>8, <2>9 DEF StepStart
<1>2. ASSUME NEW other \in Tap, other # tap PROVE TapInv(other)'
  <2>1. /\ pc'[other] = pc[other] /\ control'[other] = control[other]
        /\ context'[other] = context[other] /\ recording'[other] = recording[other]
        /\ requested'[other] = requested[other] /\ repeated'[other] = repeated[other]
        /\ outcome'[other] = outcome[other] /\ UNCHANGED stopVars
    BY <1>2 DEF Inv, StepStart, CallStart, SetUp, PublishContext, Register, EnableContext,
                Intercept, LeaveLoop, CloseDisplays, ClearPointers
  <2>2. TapInv(other)
    BY DEF Inv
  <2> QED BY <2>1, <2>2 DEF TapInv, HasAt, Noted, First, InStop, InStopOn, InLoop
<1>3. TapInv(tap)'
  <2> USE DEF TapInv, HasAt, Noted, First, InStop, InStopOn, InLoop
  <2>0. TypeOK /\ TapInv(tap)
    BY DEF Inv
  <2>1. CASE CallStart(tap)
    BY <2>0, <2>1 DEF CallStart, InStart
  <2>2. CASE SetUp(tap)
    BY <2>0, <2>2 DEF SetUp
  <2>3. CASE PublishContext(tap)
    BY <2>0, <2>3 DEF PublishContext
  <2>4. CASE Register(tap)
    BY <2>0, <2>4 DEF Register
  <2>5. CASE EnableContext(tap)
    BY <2>0, <2>5 DEF EnableContext
  <2>6. CASE LeaveLoop(tap)
    BY <2>0, <2>6 DEF LeaveLoop
  <2>7. CASE CloseDisplays(tap)
    BY <2>0, <2>7 DEF CloseDisplays
  <2>8. CASE ClearPointers(tap)
    BY <2>0, <2>8 DEF ClearPointers
  <2>9. CASE Intercept(tap)
    BY <2>0, <2>9 DEF Intercept
  <2> QED
    BY <2>1, <2>2, <2>3, <2>4, <2>5, <2>6, <2>7, <2>8, <2>9 DEF StepStart
<1> QED
  BY <1>1, <1>2, <1>3 DEF Inv

(* A step of stop(). *)
LEMMA StopKeepsInv ==
  ASSUME NEW s \in Stopper, Inv, StepStop(s) \/ \E tap \in Tap : CallStop(s, tap)
  PROVE  Inv'
<1> USE DEF TypeOK
<1>1. TypeOK'
  <2>0. TypeOK
    BY DEF Inv
  <2>1. ASSUME NEW t \in Tap, CallStop(s, t) PROVE TypeOK'
    BY <2>0, <2>1 DEF CallStop
  <2>2. CASE ClearRunning(s)
    BY <2>0, <2>2 DEF ClearRunning, stopHistory
  <2>3. CASE CheckContext(s)
    BY <2>0, <2>3 DEF CheckContext, stopHistory
  <2>4. CASE DisableContext(s)
    BY <2>0, <2>4 DEF DisableContext, stopHistory
  <2> QED
    BY <2>1, <2>2, <2>3, <2>4 DEF StepStop
<1>2. ASSUME NEW tap \in Tap PROVE TapInv(tap)'
  <2> USE DEF TapInv, HasAt, Noted, First, InStop, InStopOn, InLoop
  <2>0. TypeOK /\ TapInv(tap)
    BY DEF Inv
  <2>1. ASSUME NEW t \in Tap, CallStop(s, t) PROVE TapInv(tap)'
    BY <2>0, <2>1 DEF CallStop
  <2>2. CASE ClearRunning(s)
    BY <2>0, <2>2 DEF ClearRunning, stopHistory
  <2>3. CASE CheckContext(s)
    BY <2>0, <2>3 DEF CheckContext, stopHistory
  <2>4. CASE DisableContext(s)
    BY <2>0, <2>4 DEF DisableContext, stopHistory
  <2> QED
    BY <2>1, <2>2, <2>3, <2>4 DEF StepStop
<1> QED
  BY <1>1, <1>2 DEF Inv

LEMMA NextKeepsInv == Inv /\ [Next]_vars => Inv'
<1> SUFFICES ASSUME Inv, [Next]_vars PROVE Inv'
  OBVIOUS
<1>1. CASE \E tap \in Tap : CallStart(tap) \/ StepStart(tap) \/ Intercept(tap)
  BY <1>1, StartKeepsInv
<1>2. CASE \E s \in Stopper : StepStop(s) \/ \E tap \in Tap : CallStop(s, tap)
  BY <1>2, StopKeepsInv
<1>3. CASE UNCHANGED vars
  BY <1>3 DEF Inv, TypeOK, TapInv, HasAt, Noted, First, InStop, InStopOn, InLoop,
              vars, stopVars, stopHistory
<1> QED
  BY <1>1, <1>2, <1>3 DEF Next

LEMMA Invariant == Spec => []Inv
BY InitInv, NextKeepsInv, PTL DEF Spec

(* The variables of any number of X11 taps, stopped by any number of       *)
(* threads, keep their types.                                              *)
THEOREM X11TapTypeCorrect == Spec => []TypeOK
BY Invariant, PTL DEF Inv

(* The first stop() of a start(), whichever taps there are and whoever     *)
(* else stops them, finds the display open that it disables the context    *)
(* on, unless the server refused to enable it: only a stop() that has      *)
(* disabled it makes start() close the display (X11EventTapBackend.cpp:    *)
(* 151-182).                                                               *)
THEOREM X11FirstStopUsesOpenDisplay == Spec => []FirstStopUsesOpenDisplay
<1>1. Inv => FirstStopUsesOpenDisplay
  <2> SUFFICES ASSUME Inv, NEW s \in Stopper, NEW tap \in Tap, target[s] = tap,
                      stopPc[s] = "disable", ~repeated[tap]
               PROVE  \/ control[tap] = "open"
                      \/ pc[tap] \in {"clear", "idle"} /\ outcome[tap] = "error"
    BY DEF FirstStopUsesOpenDisplay, Inv, TypeOK
  <2>1. InStopOn(s, tap) /\ First(tap) /\ HasAt(tap)
    BY DEF Inv, TapInv, InStop, InStopOn
  <2> QED BY <2>1 DEF First, HasAt
<1> QED BY <1>1, Invariant, PTL
-------------------------------------------------------------------------------
(* Why an error precedes every event: a tap alone in its process gets none *)
(* before its own context is enabled.                                      *)
Silent ==
  \A tap \in Tap :
    pc[tap] \in {"setup", "publish", "register", "enable"} => ~delivered[tap]

ContractInv == Inv /\ Silent

LEMMA StartKeepsSilent ==
  ASSUME NEW a, Tap = {a}, ContractInv, CallStart(a) \/ StepStart(a) \/ Intercept(a)
  PROVE  Silent'
<1> USE DEF ContractInv, Inv, TypeOK, Silent, Goto
<1>1. CASE CallStart(a)
  BY <1>1 DEF CallStart
<1>2. CASE SetUp(a)
  BY <1>2 DEF SetUp
<1>3. CASE PublishContext(a)
  BY <1>3 DEF PublishContext
<1>4. CASE Register(a)
  BY <1>4 DEF Register
<1>5. CASE EnableContext(a)
  BY <1>5 DEF EnableContext
<1>6. CASE LeaveLoop(a)
  BY <1>6 DEF LeaveLoop
<1>7. CASE CloseDisplays(a)
  BY <1>7 DEF CloseDisplays
<1>8. CASE ClearPointers(a)
  BY <1>8 DEF ClearPointers
<1>9. CASE Intercept(a)
  BY <1>9 DEF Intercept, InLoop
<1> QED
  BY <1>1, <1>2, <1>3, <1>4, <1>5, <1>6, <1>7, <1>8, <1>9 DEF StepStart

LEMMA StopKeepsSilent ==
  ASSUME NEW a, Tap = {a}, ContractInv, NEW s \in Stopper, StepStop(s) \/ CallStop(s, a)
  PROVE  Silent'
<1> USE DEF ContractInv, Inv, TypeOK, Silent
<1>1. CASE CallStop(s, a)
  BY <1>1 DEF CallStop
<1>2. CASE ClearRunning(s)
  BY <1>2 DEF ClearRunning
<1>3. CASE CheckContext(s)
  BY <1>3 DEF CheckContext
<1>4. CASE DisableContext(s)
  BY <1>4 DEF DisableContext
<1> QED
  BY <1>1, <1>2, <1>3, <1>4 DEF StepStop

LEMMA ContractInvariant ==
  ASSUME NEW a, Tap = {a}
  PROVE  Spec => []ContractInv
<1>1. Init => ContractInv
  BY InitInv DEF Init, ContractInv, Silent
<1>2. ContractInv /\ [Next]_vars => ContractInv'
  <2> SUFFICES ASSUME ContractInv, [Next]_vars PROVE ContractInv'
    OBVIOUS
  <2>1. Inv'
    BY NextKeepsInv DEF ContractInv
  <2>2. CASE CallStart(a) \/ StepStart(a) \/ Intercept(a)
    BY <2>1, <2>2, StartKeepsSilent DEF ContractInv
  <2>3. CASE \E s \in Stopper : StepStop(s) \/ CallStop(s, a)
    BY <2>1, <2>3, StopKeepsSilent DEF ContractInv
  <2>4. CASE UNCHANGED vars
    BY <2>1, <2>4 DEF ContractInv, Silent, vars
  <2> QED BY <2>2, <2>3, <2>4 DEF Next
<1> QED BY <1>1, <1>2, PTL DEF Spec

(* Every step is one of the contract, or none to it.                       *)
LEMMA StepRefines ==
  ASSUME NEW a, Tap = {a}, ContractInv, [Next]_vars
  PROVE  [Contract!ContractNext]_(Contract!contractVars)
<1>0. Only = a
  BY DEF Only
<1> USE <1>0 DEF ContractInv, Inv, TypeOK, Goto, stopVars, stopHistory,
                 Contract!ContractNext, Contract!contractVars
<1>1. CASE CallStart(a)
  BY <1>1 DEF CallStart, InStart, InStopOn, Contract!Start
<1>2. CASE SetUp(a)
  BY <1>2 DEF SetUp, Silent, Contract!ReturnError
<1>3. CASE EnableContext(a)
  BY <1>3 DEF EnableContext, Silent, Contract!ReturnError
<1>4. CASE LeaveLoop(a)
  BY <1>4 DEF LeaveLoop, InLoop, TapInv, Noted, Contract!ReturnOk
<1>5. CASE PublishContext(a) \/ Register(a) \/ CloseDisplays(a) \/ ClearPointers(a)
  BY <1>5 DEF PublishContext, Register, CloseDisplays, ClearPointers
<1>6. CASE Intercept(a)
  BY <1>6 DEF Intercept, InLoop, Contract!CallSink
<1>7. ASSUME NEW s \in Stopper, CallStop(s, a)
      PROVE  Contract!Stop
  BY <1>7 DEF CallStop, Contract!Stop
<1>8. ASSUME NEW s \in Stopper, StepStop(s)
      PROVE  UNCHANGED Contract!contractVars
  BY <1>8 DEF StepStop, ClearRunning, CheckContext, DisableContext
<1>9. CASE UNCHANGED vars
  BY <1>9 DEF vars
<1> QED
  BY <1>1, <1>2, <1>3, <1>4, <1>5, <1>6, <1>7, <1>8, <1>9 DEF Next, StepStart

(* A tap that is alone in its process returns ok from start() only when    *)
(* asked to, and an error only before an event, whoever stops it: the tap  *)
(* is the contract of IEventTapBackend.h (X11EventTapBackend.cpp:99-182).  *)
THEOREM X11ImplementsContract ==
  ASSUME NEW a, Tap = {a}
  PROVE  Spec => ImplementsContract
<1>1. Init => Contract!ContractInit
  <2>1. Only = a
    BY DEF Only
  <2> QED BY <2>1 DEF Init, Contract!ContractInit
<1>2. ContractInv /\ [Next]_vars => [Contract!ContractNext]_(Contract!contractVars)
  BY StepRefines
<1> QED BY <1>1, <1>2, ContractInvariant, PTL
        DEF Spec, ImplementsContract, Contract!ContractSpec
================================================================================
