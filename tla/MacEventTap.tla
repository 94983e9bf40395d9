----------------------------- MODULE MacEventTap -----------------------------
(***************************************************************************)
(* The life of the macOS event tap (MacEventTapBackend.cpp): one thread    *)
(* calls start() and runs the loop, others call stop(), and so may the     *)
(* sink on the loop's own thread.  A step is one access to what another    *)
(* thread or the operating system can see.                                 *)
(***************************************************************************)
CONSTANTS Stopper,   \* the threads, other than the runner's, that call stop()
          Sink       \* the sink calling stop() on the runner's thread

ASSUME StopperAssumption == Sink \notin Stopper

Caller == Stopper \union {Sink}

VARIABLES
  pc,        \* where the runner thread is in start()
  runLoop,   \* runLoop_ holds the runner's loop (else it is null)
  running,   \* running_
  enabled,   \* external: the system forwards events to the tap
  notice,    \* external: a kCGEventTapDisabledBy... event is queued
  stopped,   \* external: the stop mark of the running CFRunLoopRun
  stopPc,    \* where each caller is in stop()
  requested, \* history: a stop() has been in progress since start() began
  delivered, \* history: that start() has called the sink
  outcome    \* what the last start() returned

runnerVars == <<pc, delivered, outcome>>
vars == <<pc, runLoop, running, enabled, notice, stopped, stopPc, requested, delivered, outcome>>

InLoop == pc \in {"loop", "sink", "stopping"}
InStart == pc # "idle"
InStop(c) == stopPc[c] # "out"

TypeOK ==
  /\ pc \in {"idle", "create", "publish", "enable", "enter", "loop", "sink",
             "stopping", "teardown", "unpublish"}
  /\ {runLoop, running, enabled, notice, stopped, requested, delivered} \subseteq BOOLEAN
  /\ stopPc \in [Caller -> {"out", "flag", "load", "signal"}]
  /\ outcome \in {"none", "ok", "permissionDenied"}

Init ==
  /\ pc = "idle" /\ outcome = "none"
  /\ runLoop = FALSE /\ running = FALSE
  /\ enabled = FALSE /\ notice = FALSE /\ stopped = FALSE
  /\ stopPc = [c \in Caller |-> "out"]
  /\ requested = FALSE /\ delivered = FALSE

-------------------------------------------------------------------------------
(* start(), on the runner's thread.                                        *)
CallStart ==
  /\ pc = "idle"
  /\ pc' = "create"
  /\ requested' = (\E c \in Caller : InStop(c))
  /\ delivered' = FALSE
  /\ UNCHANGED <<runLoop, running, enabled, notice, stopped, stopPc, outcome>>

(* CGEventTapCreate returns null when Accessibility is withheld.           *)
CreateTap ==
  /\ pc = "create"
  /\ \/ pc' = "publish" /\ UNCHANGED outcome
     \/ pc' = "idle" /\ outcome' = "permissionDenied"
  /\ UNCHANGED <<runLoop, running, enabled, notice, stopped, stopPc, requested, delivered>>

PublishLoop ==
  /\ pc = "publish"
  /\ pc' = "enable"
  /\ runLoop' = TRUE
  /\ UNCHANGED <<running, enabled, notice, stopped, stopPc, requested, delivered, outcome>>

EnableTap ==
  /\ pc = "enable"
  /\ pc' = "enter"
  /\ enabled' = TRUE
  /\ running' = TRUE
  /\ UNCHANGED <<runLoop, notice, stopped, stopPc, requested, delivered, outcome>>

(* CFRunLoopRun: the stop mark belongs to one run and starts out clear.    *)
(* Mutant: the mark of an earlier run is still set.                        *)
EnterLoopMarked ==
  /\ pc = "enter"
  /\ pc' = "loop"
  /\ UNCHANGED <<runLoop, running, enabled, notice, stopped, stopPc, requested,
                 delivered, outcome>>

EnterLoop ==
  /\ pc = "enter"
  /\ pc' = "loop"
  /\ stopped' = FALSE
  /\ UNCHANGED <<runLoop, running, enabled, notice, stopPc, requested, delivered, outcome>>

(* callback: an event goes to handle, which calls the sink.                *)
HandleEvent ==
  /\ pc = "loop"
  /\ ~stopped /\ enabled
  /\ pc' = "sink"
  /\ delivered' = TRUE
  /\ UNCHANGED <<runLoop, running, enabled, notice, stopped, stopPc, requested, outcome>>

SinkReturns ==
  /\ pc \in {"sink", "stopping"}
  /\ ~InStop(Sink)
  /\ pc' = "loop"
  /\ UNCHANGED <<runLoop, running, enabled, notice, stopped, stopPc, requested, delivered, outcome>>

(* callback: the notice that the system disabled the tap enables it again. *)
(* Mutant: the notice is passed on like any event.                         *)
HandleNoticeOnly ==
  /\ pc = "loop"
  /\ ~stopped /\ notice
  /\ notice' = FALSE
  /\ UNCHANGED <<pc, runLoop, running, enabled, stopped, stopPc, requested, delivered, outcome>>

HandleNotice ==
  /\ pc = "loop"
  /\ ~stopped /\ notice
  /\ notice' = FALSE
  /\ enabled' = TRUE
  /\ UNCHANGED <<pc, runLoop, running, stopped, stopPc, requested, delivered, outcome>>

LeaveLoop ==
  /\ pc = "loop"
  /\ stopped
  /\ pc' = "teardown"
  /\ UNCHANGED <<runLoop, running, enabled, notice, stopped, stopPc, requested, delivered, outcome>>

(* The tap's port is released with whatever it still has queued.           *)
(* Mutant: running_ is left to stop().                                     *)
TearDownPort ==
  /\ pc = "teardown"
  /\ pc' = "unpublish"
  /\ enabled' = FALSE
  /\ notice' = FALSE
  /\ UNCHANGED <<runLoop, running, stopped, stopPc, requested, delivered, outcome>>

TearDown ==
  /\ pc = "teardown"
  /\ pc' = "unpublish"
  /\ running' = FALSE
  /\ enabled' = FALSE
  /\ notice' = FALSE
  /\ UNCHANGED <<runLoop, stopped, stopPc, requested, delivered, outcome>>

UnpublishLoop ==
  /\ pc = "unpublish"
  /\ pc' = "idle"
  /\ runLoop' = FALSE
  /\ outcome' = "ok"
  /\ UNCHANGED <<running, enabled, notice, stopped, stopPc, requested, delivered>>

-------------------------------------------------------------------------------
(* stop(), on any thread; the sink calls it at most once per event.        *)
CallStop(c) ==
  /\ ~InStop(c)
  /\ IF c = Sink THEN pc = "sink" /\ pc' = "stopping" ELSE UNCHANGED pc
  /\ stopPc' = [stopPc EXCEPT ![c] = "flag"]
  /\ requested' = TRUE
  /\ UNCHANGED <<runLoop, running, enabled, notice, stopped, delivered, outcome>>

ClearRunning(c) ==
  /\ stopPc[c] = "flag"
  /\ stopPc' = [stopPc EXCEPT ![c] = "load"]
  /\ running' = FALSE
  /\ UNCHANGED <<runnerVars, runLoop, enabled, notice, stopped, requested>>

(* Mutant: the loop is stopped only while running_ is still set.           *)
LoadRunning(c) ==
  /\ stopPc[c] = "load"
  /\ stopPc' = [stopPc EXCEPT ![c] = IF running THEN "signal" ELSE "out"]
  /\ UNCHANGED <<runnerVars, runLoop, running, enabled, notice, stopped, requested>>

LoadLoop(c) ==
  /\ stopPc[c] = "load"
  /\ stopPc' = [stopPc EXCEPT ![c] = IF runLoop THEN "signal" ELSE "out"]
  /\ UNCHANGED <<runnerVars, runLoop, running, enabled, notice, stopped, requested>>

(* CFRunLoopStop marks the run in progress; without one it marks nothing   *)
(* a later run would see.                                                  *)
StopLoop(c) ==
  /\ stopPc[c] = "signal"
  /\ stopPc' = [stopPc EXCEPT ![c] = "out"]
  /\ stopped' = (stopped \/ InLoop)
  /\ UNCHANGED <<runnerVars, runLoop, running, enabled, notice, requested>>

StepStop(c) == ClearRunning(c) \/ LoadLoop(c) \/ StopLoop(c)

(* The system disables a tap whose callback is slow, or on user input.     *)
DisableTap ==
  /\ InLoop
  /\ enabled
  /\ enabled' = FALSE
  /\ notice' = TRUE
  /\ UNCHANGED <<runnerVars, runLoop, running, stopped, stopPc, requested>>

-------------------------------------------------------------------------------
(* What the runner does of its own accord, an event excepted.              *)
StepStart ==
  \/ CreateTap \/ PublishLoop \/ EnableTap \/ EnterLoop
  \/ SinkReturns \/ HandleNotice \/ LeaveLoop \/ TearDown \/ UnpublishLoop

Next ==
  \/ CallStart \/ StepStart \/ HandleEvent \/ DisableTap
  \/ \E c \in Caller : CallStop(c) \/ StepStop(c)

(* Threads are scheduled, the sink returns, and calls of stop() end; no    *)
(* thread owes a call of start() or stop(), nor the user an event.         *)
Fairness == WF_vars(StepStart) /\ \A c \in Caller : WF_vars(StepStop(c))

Spec == Init /\ [][Next]_vars /\ Fairness

-------------------------------------------------------------------------------
(* isRunning() is never true once start() has returned, however late a     *)
(* stop() arrives and whichever of the two clears the flag.                *)
RunningImpliesInStart == running => InLoop \/ pc \in {"enter", "teardown"}

(* Returning ok, start() was asked to; an error precedes every event.      *)
Contract == INSTANCE EventTapContract WITH
  phase <- IF InStart THEN "in" ELSE "out",
  outcome <- IF outcome = "permissionDenied" THEN "error" ELSE outcome

ImplementsContract == Contract!ContractSpec

(* A stop() called while the loop runs ends it, from another thread or     *)
(* from inside the sink.                                                   *)
StopInLoopEndsIt ==
  \A c \in Caller : (InLoop /\ stopPc[c] = "flag") ~> ~InLoop

(* A tap the system disabled forwards events again, unless the loop ends   *)
(* first: "it must be re-enabled or recording silently stops"              *)
(* (MacEventTapBackend.cpp:29).                                            *)
DisabledTapRecovers == (InLoop /\ ~enabled) ~> (enabled \/ ~InLoop)

(* What IEventTapBackend.h:25 and :29 say without qualification: "block    *)
(* until stop()", "safe to call from another thread": a stop() called      *)
(* while start() is in progress ends it.                                   *)
StopEndsStart ==
  \A c \in Caller : (InStart /\ stopPc[c] = "flag") ~> ~InStart
===============================================================================
