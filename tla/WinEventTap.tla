----------------------------- MODULE WinEventTap -----------------------------
(***************************************************************************)
(* The life of the Windows event taps of a process (WinEventTapBackend.    *)
(* cpp): the backends of several sessions share the pointer g_active, and  *)
(* each is stopped by a WM_QUIT posted to the thread that runs it.         *)
(***************************************************************************)
EXTENDS Naturals

CONSTANTS Tap,       \* the event tap backends, one per session
          Thread,    \* the threads that call start()
          Stopper,   \* the other threads, which call stop()
          None,      \* the null pointer, thread id 0
          MaxQuits   \* bound: WM_QUIT messages queued for one thread

ASSUME TapAssumption ==
  None \notin Tap \union Thread /\ MaxQuits \in Nat \ {0}

VARIABLES
  pc,        \* where each thread is in start()
  cur,       \* the tap it has called start() on
  gActive,   \* g_active, accessed without a lock
  threadId,  \* threadId_ of each tap; start() sets it, nothing clears it
  running,   \* running_ of each tap
  quits,     \* external: WM_QUIT messages queued for each thread
  stopPc,    \* where each stopper is in stop()
  target,    \* the tap it has called stop() on
  requested, \* history: of each tap, a stop() has been in progress since its
             \* last start() began
  raced      \* history: two start()s have passed the check before either had
             \* registered, and one of the two may not be over

startVars == <<pc, cur, gActive>>
stopVars == <<stopPc, target>>
vars == <<startVars, threadId, running, quits, stopVars, requested, raced>>

InStart(tap) == \E t \in Thread : pc[t] # "idle" /\ cur[t] = tap
InLoop(t) == pc[t] = "loop"
Registered(t) == pc[t] \in {"publish", "hook", "loop", "unhook"}
InStop(s) == stopPc[s] # "out"

TypeOK ==
  /\ pc \in [Thread -> {"idle", "check", "register", "publish", "hook", "loop", "unhook"}]
  /\ cur \in [Thread -> Tap]
  /\ gActive \in Tap \union {None}
  /\ threadId \in [Tap -> Thread \union {None}]
  /\ running \in [Tap -> BOOLEAN]
  /\ quits \in [Thread -> 0..MaxQuits]
  /\ stopPc \in [Stopper -> {"out", "flag", "post"}]
  /\ target \in [Stopper -> Tap]
  /\ requested \in [Tap -> BOOLEAN] /\ raced \in BOOLEAN

Init ==
  /\ pc = [t \in Thread |-> "idle"]
  /\ cur \in [Thread -> Tap]
  /\ gActive = None
  /\ threadId = [tap \in Tap |-> None]
  /\ running = [tap \in Tap |-> FALSE]
  /\ quits = [t \in Thread |-> 0]
  /\ stopPc = [s \in Stopper |-> "out"]
  /\ target \in [Stopper -> Tap]
  /\ requested = [tap \in Tap |-> FALSE] /\ raced = FALSE

Goto(t, label) == pc' = [pc EXCEPT ![t] = label]

-------------------------------------------------------------------------------
(* start(), on thread t.  Two threads do not start one tap at a time.      *)
CallStart(t, tap) ==
  /\ pc[t] = "idle"
  /\ ~InStart(tap)
  /\ Goto(t, "check")
  /\ cur' = [cur EXCEPT ![t] = tap]
  /\ requested' =
       [requested EXCEPT ![tap] = \E s \in Stopper : InStop(s) /\ target[s] = tap]
  /\ UNCHANGED <<gActive, threadId, running, quits, stopVars, raced>>

(* The check is passed, alone or beside another start() that has passed it. *)
PassCheck(t) ==
  /\ Goto(t, "register")
  /\ raced' = \/ \E u \in Thread : pc[u] = "register"
              \/ raced /\ \E u \in Thread : Registered(u)

(* Mutant: it is not made.                                                 *)
CheckNothing(t) ==
  /\ pc[t] = "check"
  /\ PassCheck(t)
  /\ UNCHANGED <<cur, gActive, threadId, running, quits, stopVars, requested>>

CheckActive(t) ==
  /\ pc[t] = "check"
  /\ \/ gActive = None /\ PassCheck(t)
     \/ gActive # None /\ Goto(t, "idle") /\ UNCHANGED raced     \* Unsupported
  /\ UNCHANGED <<cur, gActive, threadId, running, quits, stopVars, requested>>

(* sink_, g_active and threadId_ are assigned, in this order and plainly.  *)
Register(t) ==
  /\ pc[t] = "register"
  /\ Goto(t, "publish")
  /\ gActive' = cur[t]
  /\ UNCHANGED <<cur, threadId, running, quits, stopVars, requested, raced>>

(* Mutant: threadId_ is assigned by the first start() only.                *)
PublishFirstThread(t) ==
  /\ pc[t] = "publish"
  /\ Goto(t, "hook")
  /\ threadId' = [threadId EXCEPT ![cur[t]] = IF @ = None THEN t ELSE @]
  /\ UNCHANGED <<cur, gActive, running, quits, stopVars, requested, raced>>

PublishThread(t) ==
  /\ pc[t] = "publish"
  /\ Goto(t, "hook")
  /\ threadId' = [threadId EXCEPT ![cur[t]] = t]
  /\ UNCHANGED <<cur, gActive, running, quits, stopVars, requested, raced>>

(* SetWindowsHookExW, twice; if either fails, what was set up is undone,   *)
(* threadId_ excepted.                                                     *)
InstallHooks(t) ==
  /\ pc[t] = "hook"
  /\ \/ /\ Goto(t, "loop")
        /\ running' = [running EXCEPT ![cur[t]] = TRUE]
        /\ UNCHANGED gActive
     \/ /\ Goto(t, "idle")                     \* PlatformError
        /\ gActive' = None
        /\ UNCHANGED running
  /\ UNCHANGED <<cur, threadId, quits, stopVars, requested, raced>>

(* GetMessageW returns 0 for the first WM_QUIT, whoever it was meant for.  *)
GetQuit(t) ==
  /\ InLoop(t)
  /\ quits[t] > 0
  /\ quits' = [quits EXCEPT ![t] = @ - 1]
  /\ Goto(t, "unhook")
  /\ UNCHANGED <<cur, gActive, threadId, running, stopVars, requested, raced>>

Unhook(t) ==
  /\ pc[t] = "unhook"
  /\ running' = [running EXCEPT ![cur[t]] = FALSE]
  /\ gActive' = None
  /\ Goto(t, "idle")
  /\ UNCHANGED <<cur, threadId, quits, stopVars, requested, raced>>

-------------------------------------------------------------------------------
(* stop(), on stopper s.                                                   *)
CallStop(s, tap) ==
  /\ ~InStop(s)
  /\ stopPc' = [stopPc EXCEPT ![s] = "flag"]
  /\ target' = [target EXCEPT ![s] = tap]
  /\ requested' = [requested EXCEPT ![tap] = TRUE]
  /\ UNCHANGED <<startVars, threadId, running, quits, raced>>

ClearRunning(s) ==
  /\ stopPc[s] = "flag"
  /\ stopPc' = [stopPc EXCEPT ![s] = "post"]
  /\ running' = [running EXCEPT ![target[s]] = FALSE]
  /\ UNCHANGED <<startVars, threadId, quits, target, requested, raced>>

(* PostThreadMessageW queues one more WM_QUIT for the thread that last ran *)
(* the tap.  While that thread installs its hooks it may have no queue yet, *)
(* and the post, whose answer is not looked at, come to nothing.           *)
PostQuit(s) ==
  LET t == threadId[target[s]] IN
  /\ stopPc[s] = "post"
  /\ stopPc' = [stopPc EXCEPT ![s] = "out"]
  /\ IF t = None
     THEN UNCHANGED quits
     ELSE \/ quits[t] < MaxQuits /\ quits' = [quits EXCEPT ![t] = @ + 1]
          \/ (pc[t] = "hook" \/ quits[t] = MaxQuits) /\ UNCHANGED quits
  /\ UNCHANGED <<startVars, threadId, running, target, requested, raced>>

-------------------------------------------------------------------------------
StepStart(t) ==
  \/ CheckActive(t) \/ Register(t) \/ PublishThread(t) \/ InstallHooks(t)
  \/ GetQuit(t) \/ Unhook(t)
StepStop(s) == ClearRunning(s) \/ PostQuit(s)

Next ==
  \/ \E t \in Thread : StepStart(t) \/ \E tap \in Tap : CallStart(t, tap)
  \/ \E s \in Stopper : StepStop(s) \/ \E tap \in Tap : CallStop(s, tap)

(* Threads are scheduled; no thread owes a call of start() or stop().      *)
Fairness ==
  /\ \A t \in Thread : WF_vars(StepStart(t))
  /\ \A s \in Stopper : WF_vars(StepStop(s))

Spec == Init /\ [][Next]_vars /\ Fairness

-------------------------------------------------------------------------------
(* A tap is refused only while some start() is past its registration; and  *)
(* whoever is there is the one that g_active names, so that the hooks reach *)
(* it and the end of one does not clear what another has set; unless two   *)
(* start()s had passed the check, which is not atomic with the             *)
(* registration, before either registered (WinEventTapBackend.cpp:118-124). *)
ActiveNamesRunner ==
  /\ gActive # None => \E t \in Thread : Registered(t)
  /\ ~raced => \A t \in Thread : Registered(t) => gActive = cur[t]

(* isRunning() is never true once start() has returned.                    *)
RunningImpliesInStart ==
  \A tap \in Tap :
    running[tap] => \E t \in Thread : pc[t] \in {"loop", "unhook"} /\ cur[t] = tap

(* A stop() called on a tap whose loop runs ends that loop, also when      *)
(* several taps run or several threads stop it.                            *)
StopInLoopEndsIt ==
  \A s \in Stopper, t \in Thread :
    (InLoop(t) /\ target[s] = cur[t] /\ stopPc[s] = "flag") ~> ~InLoop(t)

-------------------------------------------------------------------------------
(* What IEventTapBackend.h:25 and :30 say: start() blocks "until stop()",  *)
(* and stop() is "Idempotent", so that one stop() more, or one too late,   *)
(* does nothing: no loop ends that was not asked to since its start().     *)
LoopEndsOnlyByStop ==
  \A t \in Thread : pc[t] = "unhook" => requested[cur[t]]
===============================================================================
