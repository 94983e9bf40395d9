--------------------------- MODULE WinEventTapProofs ---------------------------
(***************************************************************************)
(* Proofs about WinEventTap, for any sets of taps and threads and any      *)
(* bound on the queued WM_QUITs.                                           *)
(***************************************************************************)
EXTENDS WinEventTap, TLAPS

(* What the variables of start() say of each other; of the start()s that   *)
(* are past the check there is one, unless two have raced.                 *)
Alone ==
  ~raced => \A t, u \in Thread :
    (pc[t] = "register" \/ Registered(t)) /\ (pc[u] = "register" \/ Registered(u)) => t = u
ActiveInv == ActiveNamesRunner /\ Alone
Inv == TypeOK /\ ActiveInv /\ RunningImpliesInStart

LEMMA InitInv == Init => Inv
<1> SUFFICES ASSUME Init PROVE Inv
  OBVIOUS
<1>1. TypeOK
  <2>1. gActive \in Tap \union {None} /\ raced \in BOOLEAN
    BY DEF Init
  <2>2. quits \in [Thread -> 0..MaxQuits]
    BY TapAssumption DEF Init
  <2> QED BY <2>1, <2>2 DEF Init, TypeOK
<1>2. ActiveInv /\ RunningImpliesInStart
  BY DEF Init, ActiveInv, Alone, ActiveNamesRunner, Registered, RunningImpliesInStart
<1> QED
  BY <1>1, <1>2 DEF Inv

(* No step writes a value of another type.                                 *)
LEMMA StepKeepsTypes == TypeOK /\ [Next]_vars => TypeOK'
<1> SUFFICES ASSUME TypeOK, [Next]_vars PROVE TypeOK'
  OBVIOUS
<1> USE TapAssumption DEF TypeOK, Goto, startVars, stopVars
<1>1. ASSUME NEW t \in Thread, NEW tap \in Tap, CallStart(t, tap) PROVE TypeOK'
  BY <1>1 DEF CallStart
<1>2. ASSUME NEW t \in Thread, CheckActive(t) PROVE TypeOK'
  BY <1>2 DEF CheckActive, PassCheck
<1>3. ASSUME NEW t \in Thread, Register(t) PROVE TypeOK'
  BY <1>3 DEF Register
<1>4. ASSUME NEW t \in Thread, PublishThread(t) PROVE TypeOK'
  BY <1>4 DEF PublishThread
<1>5. ASSUME NEW t \in Thread, InstallHooks(t) PROVE TypeOK'
  BY <1>5 DEF InstallHooks
<1>6. ASSUME NEW t \in Thread, GetQuit(t) PROVE TypeOK'
  BY <1>6 DEF GetQuit
<1>7. ASSUME NEW t \in Thread, Unhook(t) PROVE TypeOK'
  BY <1>7 DEF Unhook
<1>8. ASSUME NEW s \in Stopper, NEW tap \in Tap, CallStop(s, tap) PROVE TypeOK'
  BY <1>8 DEF CallStop
<1>9. ASSUME NEW s \in Stopper, ClearRunning(s) PROVE TypeOK'
  BY <1>9 DEF ClearRunning
<1>10. ASSUME NEW s \in Stopper, PostQuit(s) PROVE TypeOK'
  BY <1>10 DEF PostQuit
<1>11. CASE UNCHANGED vars
  BY <1>11 DEF vars
<1> QED
  BY <1>1, <1>2, <1>3, <1>4, <1>5, <1>6, <1>7, <1>8, <1>9, <1>10, <1>11
  DEF Next, StepStart, StepStop

(* A thread passes the check only while nobody is past its registration,   *)
(* or two have raced; the one that registers sets g_active, and clears it  *)
(* when it leaves, be it its own tap or not.                               *)
LEMMA StepKeepsActive ==
  TypeOK /\ ActiveInv /\ [Next]_vars => ActiveInv'
<1> SUFFICES ASSUME TypeOK, ActiveInv, [Next]_vars
             PROVE  ActiveInv'
  OBVIOUS
<1> USE TapAssumption DEF TypeOK, ActiveInv, Alone, ActiveNamesRunner, Registered, Goto
<1>1. ASSUME NEW t \in Thread, NEW tap \in Tap, CallStart(t, tap) PROVE ActiveInv'
  BY <1>1 DEF CallStart
<1>2. ASSUME NEW t \in Thread, CheckActive(t) PROVE ActiveInv'
  <2>1. CASE gActive # None /\ Goto(t, "idle")
    BY <1>2, <2>1 DEF CheckActive, PassCheck
  <2>2. CASE gActive = None /\ PassCheck(t)
    <3>1. /\ pc' = [pc EXCEPT ![t] = "register"] /\ UNCHANGED <<gActive, cur>>
          /\ pc[t] = "check"
      BY <1>2, <2>2 DEF CheckActive, PassCheck
    <3>2. ~raced => \A u \in Thread : ~Registered(u)
      BY <2>2
    <3>3. ~raced' => \A u \in Thread : pc[u] # "register" /\ ~Registered(u)
      BY <2>2, <3>2 DEF PassCheck
    <3>4. Alone'
      BY <3>1, <3>3
    <3>5. ActiveNamesRunner'
      BY <2>2, <3>1, <3>3
    <3> QED BY <3>4, <3>5
  <2> QED BY <1>2, <2>1, <2>2 DEF CheckActive
<1>3. ASSUME NEW t \in Thread, Register(t) PROVE ActiveInv'
  BY <1>3 DEF Register
<1>4. ASSUME NEW t \in Thread, PublishThread(t) \/ GetQuit(t)
      PROVE  ActiveInv'
  BY <1>4 DEF PublishThread, GetQuit, InLoop
<1>5. ASSUME NEW t \in Thread, InstallHooks(t) PROVE ActiveInv'
  BY <1>5 DEF InstallHooks
<1>6. ASSUME NEW t \in Thread, Unhook(t) PROVE ActiveInv'
  BY <1>6 DEF Unhook
<1>7. ASSUME NEW s \in Stopper, StepStop(s) \/ \E tap \in Tap : CallStop(s, tap)
      PROVE  ActiveInv'
  BY <1>7 DEF StepStop, ClearRunning, PostQuit, CallStop, startVars
<1>8. CASE UNCHANGED vars
  BY <1>8 DEF vars, startVars, stopVars
<1> QED
  BY <1>1, <1>2, <1>3, <1>4, <1>5, <1>6, <1>7, <1>8 DEF Next, StepStart

(* Only InstallHooks sets running_, of the tap its thread then runs, and   *)
(* the thread clears it when it leaves.                                    *)
LEMMA StepKeepsRunning ==
  TypeOK /\ RunningImpliesInStart /\ [Next]_vars => RunningImpliesInStart'
<1> SUFFICES ASSUME TypeOK, RunningImpliesInStart, [Next]_vars,
                    NEW tap \in Tap, running'[tap]
             PROVE  \E t \in Thread : pc'[t] \in {"loop", "unhook"} /\ cur'[t] = tap
  BY DEF RunningImpliesInStart
<1> DEFINE Runs(t) == pc[t] \in {"loop", "unhook"} /\ cur[t] = tap
<1> USE DEF TypeOK, Goto
<1>1. ASSUME NEW t \in Thread, InstallHooks(t) PROVE \E u \in Thread : Runs(u)'
  <2>1. CASE running[tap]
    <3>1. PICK u \in Thread : Runs(u)
      BY <2>1 DEF RunningImpliesInStart
    <3> QED
      BY <1>1, <3>1 DEF InstallHooks
  <2>2. CASE ~running[tap]
    BY <1>1, <2>2 DEF InstallHooks
  <2> QED
    BY <2>1, <2>2
<1>2. ASSUME NEW t \in Thread, Unhook(t) PROVE \E u \in Thread : Runs(u)'
  <2>1. running[tap] /\ cur[t] # tap
    BY <1>2 DEF Unhook
  <2>2. PICK u \in Thread : Runs(u)
    BY <2>1 DEF RunningImpliesInStart
  <2> QED
    BY <1>2, <2>1, <2>2 DEF Unhook
<1>3. ASSUME NEW t \in Thread,
             \/ \E other \in Tap : CallStart(t, other)
             \/ CheckActive(t) \/ Register(t) \/ PublishThread(t) \/ GetQuit(t)
      PROVE  \E u \in Thread : Runs(u)'
  <2>1. running[tap]
    BY <1>3 DEF CallStart, CheckActive, PassCheck, Register, PublishThread, GetQuit
  <2>2. PICK u \in Thread : Runs(u)
    BY <2>1 DEF RunningImpliesInStart
  <2> QED
    BY <1>3, <2>2
    DEF CallStart, CheckActive, PassCheck, Register, PublishThread, GetQuit, InLoop
<1>4. ASSUME NEW s \in Stopper, StepStop(s) \/ \E other \in Tap : CallStop(s, other)
      PROVE  \E u \in Thread : Runs(u)'
  <2>1. running[tap]
    BY <1>4 DEF StepStop, ClearRunning, PostQuit, CallStop
  <2>2. PICK u \in Thread : Runs(u)
    BY <2>1 DEF RunningImpliesInStart
  <2> QED
    BY <1>4, <2>2 DEF StepStop, ClearRunning, PostQuit, CallStop, startVars
<1>5. CASE UNCHANGED vars
  BY <1>5 DEF vars, startVars, stopVars, RunningImpliesInStart
<1> QED
  BY <1>1, <1>2, <1>3, <1>4, <1>5 DEF Next, StepStart

LEMMA Invariant == Spec => []Inv
<1>1. Inv /\ [Next]_vars => Inv'
  BY StepKeepsTypes, StepKeepsActive, StepKeepsRunning DEF Inv
<1> QED
  BY <1>1, InitInv, PTL DEF Spec

(* The variables of any number of Windows taps keep their types, and no    *)
(* more than MaxQuits WM_QUITs are queued.                                 *)
THEOREM WinTapTypeCorrect == Spec => []TypeOK
BY Invariant, PTL DEF Inv

(* However many threads start taps and however their hooks fail, g_active  *)
(* (WinEventTapBackend.cpp:117-155) names a tap only while some start() is *)
(* past its registration, and while any is, it names that one's tap, unless *)
(* two start()s passed the check before either registered: no start() is   *)
(* refused for one that is over, and no end takes the events from another. *)
THEOREM WinActiveNamesRunner == Spec => []ActiveNamesRunner
<1>1. Inv => ActiveNamesRunner
  BY DEF Inv, ActiveInv
<1> QED BY <1>1, Invariant, PTL

(* isRunning() is not true of a tap whose start() has returned.            *)
THEOREM WinRunningImpliesInStart == Spec => []RunningImpliesInStart
BY Invariant, PTL DEF Inv
================================================================================
