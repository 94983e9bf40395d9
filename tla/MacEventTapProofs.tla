-------------------------- MODULE MacEventTapProofs --------------------------
(***************************************************************************)
(* The macOS event tap, for any set of stopping threads: it is never       *)
(* running outside start(), and start() keeps EventTapContract.            *)
(***************************************************************************)
EXTENDS MacEventTap, TLAPS

(* Why a return was asked for: whoever is in stop() has been noted, the    *)
(* stop mark of a run was set by one of them, and no other way leads out   *)
(* of the loop.                                                            *)
Asked ==
  /\ (\E c \in Caller : InStop(c)) => requested
  /\ (InLoop /\ stopped) => requested
  /\ pc \in {"teardown", "unpublish"} => requested

(* Why an error precedes every event: there is no tap yet.                 *)
Silent == pc = "create" => ~delivered

TapInv == TypeOK /\ RunningImpliesInStart /\ Asked /\ Silent

-------------------------------------------------------------------------------
(* The initial state satisfies the invariant.                              *)
LEMMA InitInv == Init => TapInv
BY DEF Init, TapInv, TypeOK, RunningImpliesInStart, Asked, Silent, InStop, InLoop

(* The runner's steps keep it.                                             *)
LEMMA StartInv ==
  ASSUME TapInv, CallStart \/ StepStart \/ HandleEvent
  PROVE  TapInv'
<1> USE DEF TapInv, TypeOK, RunningImpliesInStart, Asked, Silent, InStop, InLoop
<1>1. CASE CallStart
  BY <1>1 DEF CallStart
<1>2. CASE CreateTap
  BY <1>2 DEF CreateTap
<1>3. CASE PublishLoop
  BY <1>3 DEF PublishLoop
<1>4. CASE EnableTap
  BY <1>4 DEF EnableTap
<1>5. CASE EnterLoop
  BY <1>5 DEF EnterLoop
<1>6. CASE HandleEvent
  BY <1>6 DEF HandleEvent
<1>7. CASE SinkReturns
  BY <1>7 DEF SinkReturns
<1>8. CASE HandleNotice
  BY <1>8 DEF HandleNotice
<1>9. CASE LeaveLoop
  BY <1>9 DEF LeaveLoop
<1>10. CASE TearDown
  BY <1>10 DEF TearDown
<1>11. CASE UnpublishLoop
  BY <1>11 DEF UnpublishLoop
<1> QED BY <1>1, <1>2, <1>3, <1>4, <1>5, <1>6, <1>7, <1>8, <1>9, <1>10, <1>11 DEF StepStart

(* The steps of stop() keep it, on whatever thread.                        *)
LEMMA StopInv ==
  ASSUME TapInv, NEW c \in Caller, CallStop(c) \/ StepStop(c)
  PROVE  TapInv'
<1> USE DEF TapInv, TypeOK, RunningImpliesInStart, Asked, Silent, InStop, InLoop
<1>1. CASE CallStop(c)
  BY <1>1 DEF CallStop
<1>2. CASE ClearRunning(c)
  BY <1>2 DEF ClearRunning, runnerVars
<1>3. CASE LoadLoop(c)
  BY <1>3 DEF LoadLoop, runnerVars
<1>4. CASE StopLoop(c)
  BY <1>4 DEF StopLoop, runnerVars
<1> QED BY <1>1, <1>2, <1>3, <1>4 DEF StepStop

(* So do the system's, and those of the rest of the program.               *)
LEMMA SystemInv ==
  ASSUME TapInv, DisableTap \/ UNCHANGED vars
  PROVE  TapInv'
<1>1. CASE DisableTap
  <2>1. TypeOK'
    BY <1>1 DEF TapInv, TypeOK, DisableTap, runnerVars
  <2>2. UNCHANGED <<pc, running, stopped, stopPc, requested, delivered>>
    BY <1>1 DEF DisableTap, runnerVars
  <2> QED BY <2>1, <2>2 DEF TapInv, RunningImpliesInStart, Asked, Silent, InStop, InLoop
<1>2. CASE UNCHANGED vars
  BY <1>2 DEF TapInv, TypeOK, RunningImpliesInStart, Asked, Silent, InStop, InLoop, vars
<1> QED BY <1>1, <1>2

(* The inductive invariant of the tap.                                     *)
LEMMA TapInvariant == Spec => []TapInv
<1>1. TapInv /\ [Next]_vars => TapInv'
  BY StartInv, StopInv, SystemInv DEF Next
<1> QED BY <1>1, InitInv, PTL DEF Spec

-------------------------------------------------------------------------------
(* Every step of the tap is one of the contract, or none to it.            *)
LEMMA StepRefines ==
  ASSUME TapInv, [Next]_vars
  PROVE  [Contract!ContractNext]_(Contract!contractVars)
<1> USE DEF InStart, Contract!ContractNext, Contract!contractVars
<1>1. CASE CallStart
  BY <1>1 DEF CallStart, Contract!Start
<1>2. CASE CreateTap
  BY <1>2 DEF CreateTap, TapInv, Silent, Contract!ReturnError
<1>3. CASE UnpublishLoop
  BY <1>3 DEF UnpublishLoop, TapInv, Asked, Contract!ReturnOk
<1>4. CASE HandleEvent
  BY <1>4 DEF HandleEvent, Contract!CallSink
<1>5. CASE PublishLoop \/ EnableTap \/ EnterLoop \/ SinkReturns \/ HandleNotice
           \/ LeaveLoop \/ TearDown
  BY <1>5 DEF PublishLoop, EnableTap, EnterLoop, SinkReturns, HandleNotice, LeaveLoop, TearDown
<1>6. ASSUME NEW c \in Caller, CallStop(c)
      PROVE  Contract!Stop
  BY <1>6 DEF CallStop, Contract!Stop
<1>7. ASSUME NEW c \in Caller, StepStop(c)
      PROVE  UNCHANGED Contract!contractVars
  BY <1>7 DEF StepStop, ClearRunning, LoadLoop, StopLoop, runnerVars
<1>8. CASE DisableTap \/ UNCHANGED vars
  BY <1>8 DEF DisableTap, runnerVars, vars
<1> QED BY <1>1, <1>2, <1>3, <1>4, <1>5, <1>6, <1>7, <1>8 DEF Next, StepStart

(* Every variable keeps its type.                                          *)
THEOREM TapTypeCorrect == Spec => []TypeOK
<1>1. TapInv => TypeOK
  BY DEF TapInv
<1> QED BY <1>1, TapInvariant, PTL

(* isRunning() is never true once start() has returned, with any number of *)
(* threads calling stop() at any time.                                     *)
THEOREM TapRunningImpliesInStart == Spec => []RunningImpliesInStart
<1>1. TapInv => RunningImpliesInStart
  BY DEF TapInv
<1> QED BY <1>1, TapInvariant, PTL

(* start() returns ok only when asked to, and an error only before an      *)
(* event: the tap is the contract of IEventTapBackend.h.                   *)
THEOREM TapImplementsContract == Spec => ImplementsContract
<1>1. Init => Contract!ContractInit
  BY DEF Init, InStart, Contract!ContractInit
<1> QED BY <1>1, StepRefines, TapInvariant, PTL
        DEF Spec, ImplementsContract, Contract!ContractSpec
===============================================================================
