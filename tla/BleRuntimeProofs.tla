-------------------------- MODULE BleRuntimeProofs --------------------------
(***************************************************************************)
(* Proofs about BleRuntime, for every retry limit, every number of         *)
(* refusals before a restart, every heap and, where a theorem does not say *)
(* otherwise, a radio of any speed.                                        *)
(*                                                                         *)
(* The argument: a claim of the start (inFlight) is there as long as a     *)
(* start runs (ClaimInv), and suspend() looked at it before it came to the *)
(* stack.  The main task cannot begin a start inside a suspend() of its    *)
(* own (CallInv); the render task is in one only with the render lock      *)
(* (LockInv), which a start has to have had before it reaches the stack.   *)
(* And whatever somebody waits for has an owner (WaitsHaveOwners).         *)
(***************************************************************************)
EXTENDS BleRuntime, TLAPS

-----------------------------------------------------------------------------
(* The inductive invariants, part by part.                                 *)

\* The memo in RTC memory and the restarts it allows.
MemoInv ==
    /\ restarts = 0 \/ (restarts = 1 /\ spent)
    /\ spent \in BOOLEAN
    /\ wanted => ~spent

\* The render task has the lock from the first line of renderBook() to the last.
LockInv == lock \in {"free", "render"} /\ (lock = "render" <=> rpc # "idle")

\* Who is in suspend() is where its program calls it.
CallingPcs == {"visit", "serve", "restart", "switchedOff", "leaving", "sleeping"}
CallInv ==
    /\ sus \in [Tasks -> SuspendPcs]
    /\ sus["main"] # "no" => mpc \in CallingPcs
    /\ sus["render"] # "no" => rpc = "stop"

\* A start runs only under a claim, and the claim is there before the start.
ClaimInv ==
    /\ spc # "none" => inFlight
    /\ mpc \in {"claimed", "hold", "spawn"} => inFlight /\ spc = "none"

\* Past the look at inFlight there is no start that could reach the stack.
StopInv ==
    /\ sus["main"] \in {"look", "end"} => spc = "none"
    /\ sus["render"] \in {"look", "end"} => spc \notin PastLock

\* With a radio that settles within the wait, a paint past settleStart() leaves no start past its lock.
PaintInv == ~SlowRadio /\ rpc \notin {"idle", "settle"} => spc \notin PastLock

\* From status() on, the render task sees the radio as it is.
BuildInv ==
    ~SlowRadio => /\ rpc = "status2" /\ radio # "off" => upSeen
                  /\ rpc = "build" => radio = "off"

\* A suspend() of the main task that goes to sleep and answers true leaves nothing to stop.
SleepInv ==
    /\ mpc = "sleeping" /\ sus["main"] \in {"drop", "stopped"} => radio = "off" /\ spc = "none"
    /\ mpc = "delivering" => radio = "off" /\ spc = "none"

StartInv == LockInv /\ CallInv /\ ClaimInv /\ StopInv /\ PaintInv /\ BuildInv /\ SleepInv

-----------------------------------------------------------------------------
(* The memo: a heap restart spends it, only a radio that came up gives it  *)
(* back.                                                                   *)

\* What a step that has nothing to do with the tracker leaves alone.
LEMMA MemoUntouched ==
    ASSUME [Next]_vars,
           ~Restart, ~Wake, ~CheckHeap, ~EnterStack, ~StackFails, ~CheckCancelled, ~KeepOrRollBack
    PROVE  UNCHANGED <<wanted, spent, restarts>>
  <1> USE DEF heapVars, trackerUnchanged, startUnchanged, susUnchanged, renderUnchanged
  <1>1. CASE Tick
    BY <1>1 DEF Tick, TakeScene, StepVisit, Look, Retry, StartDecision, Claim, Claimed, HoldClock,
           Spawn, SpawnFails, IdleStop, NoIdleStop, serveReader, NoRestart
  <1>2. CASE App
    BY <1>2 DEF App, ReaderLoop, BackgroundBuild, NoInput, AskScreen, TurnOff, SwitchedOff,
           TurnOnInMenu, TurnOnInSettings, startSync, StartedSync, beforeScreenChange, NotYet,
           ChangeScreen, AskSleep, stopNow, Stopped, deliverSleepPluginEvents
  <1>3. CASE Start
    BY <1>3 DEF Start, StartBegins, ReleaseCaches, GiveUpTurn, StackUp, ReportFailure,
           ReportSuccess, FinishDropsClock, FinishAttempt
  <1>4. CASE Render
    BY <1>4 DEF Render, RenderMenu, RenderBook, SettleWaits, SettleForPaint, SettleForBuild,
           Painted, NeedsChapter, MakeRoom, beforeChapterBuild, HoldForBuild, StopAgain, StopDone,
           StatusUp, StatusStarting, AskRoomAgain, RoomRefused, SettledTo
  <1>5. CASE suspend("main") \/ suspend("render")
    BY <1>5 DEF suspend, SuspendCancels, SuspendChecks, SuspendLooks, SuspendEnds, SuspendDrops
  <1>6. CASE StopFinishes \/ Link
    BY <1>6 DEF StopFinishes, Link
  <1>7. CASE UNCHANGED vars
    BY <1>7 DEF vars
  <1> QED BY <1>1, <1>2, <1>3, <1>4, <1>5, <1>6, <1>7 DEF Next

\* A start the heap ended asks for a restart only while none is spent.
LEMMA RefusedKeepsMemo ==
    ASSUME MemoInv, NEW why, refused(why), UNCHANGED restarts
    PROVE  MemoInv'
  <1> USE DEF MemoInv
  <1>1. spent' = spent
    BY DEF refused
  <1>2. wanted' = (shouldRestart(why, StreakAfter(why, inRow), spent) \/ (why = "HeapInPieces" /\ wanted))
    BY DEF refused, WantedAfter
  <1>3. CASE spent
    <2>1. ~shouldRestart(why, StreakAfter(why, inRow), spent) /\ ~wanted
      BY <1>3 DEF shouldRestart
    <2>2. ~wanted'
      BY <1>2, <2>1
    <2>3. restarts' = 0 \/ restarts' = 1
      OBVIOUS
    <2>4. spent'
      BY <1>1, <1>3
    <2> QED BY <1>1, <2>2, <2>3, <2>4
  <1>4. CASE ~spent
    <2>1. restarts' = 0 /\ ~spent'
      BY <1>1, <1>4
    <2> QED BY <1>1, <2>1
  <1> QED BY <1>3, <1>4

\* A restart is spent and counted in one step; a radio that comes up clears both.
LEMMA MemoStep == MemoInv /\ [Next]_vars => MemoInv'
  <1> SUFFICES ASSUME MemoInv, [Next]_vars PROVE MemoInv'
    OBVIOUS
  <1> USE DEF MemoInv
  <1>1. CASE Restart
    BY <1>1 DEF Restart, MayRestart, restarting, Reboot
  <1>2. CASE Wake
    BY <1>2 DEF Wake, Reboot
  <1>3. CASE CheckHeap
    <2>1. \A why : refused(why) /\ UNCHANGED restarts => MemoInv'
      BY RefusedKeepsMemo
    <2>2. UNCHANGED restarts
      BY <1>3 DEF CheckHeap, startUnchanged
    <2>3. UNCHANGED <<wanted, spent>> \/ \E why : refused(why)
      BY <1>3 DEF CheckHeap, trackerUnchanged
    <2> QED BY <2>1, <2>2, <2>3
  <1>4. CASE EnterStack \/ StackFails \/ CheckCancelled
    BY <1>4 DEF EnterStack, StackFails, CheckCancelled, inconclusive, startUnchanged, trackerUnchanged
  <1>5. CASE KeepOrRollBack
    <2>1. \A why : refused(why) /\ UNCHANGED restarts => MemoInv'
      BY RefusedKeepsMemo
    <2>2. \/ radioUp /\ restarts' = 0
          \/ UNCHANGED restarts /\ \E why : refused(why)
      BY <1>5 DEF KeepOrRollBack
    <2> QED BY <2>1, <2>2 DEF radioUp
  <1>6. CASE UNCHANGED <<wanted, spent, restarts>>
    BY <1>6
  <1> QED BY <1>1, <1>2, <1>3, <1>4, <1>5, <1>6, MemoUntouched

\* RadioPolicy.h: the heap restart is allowed once until the radio comes up again, whatever else
\* happens in between: sleeps, restarts, refusals, other books, a switch turned off and on.
THEOREM RestartsOnce == Spec => []OneRestart
  <1>1. Init => MemoInv
    BY DEF Init, MemoInv
  <1>2. MemoInv => OneRestart
    BY DEF MemoInv, OneRestart
  <1> QED BY <1>1, <1>2, MemoStep, PTL DEF Spec

-----------------------------------------------------------------------------
(* Starts, stops and the render lock.                                      *)

\* The lock is taken and given back with the render task's first and last step.
LEMMA LockStep ==
    LockInv /\ [Next]_vars => LockInv'
  <1> SUFFICES ASSUME LockInv, [Next]_vars PROVE LockInv'
    OBVIOUS
  <1> USE DEF hostVars, flagVars, visitVars, heapVars, radioVars, otherTasks, mainUnchanged, startUnchanged,
      susUnchanged, renderUnchanged, flagsButWaiting
  <1>1. CASE Tick
    BY <1>1 DEF LockInv, Tick, TakeScene, StepVisit, Look, Retry, StartDecision, Claim, Claimed,
      HoldClock, Spawn, SpawnFails, IdleStop, NoIdleStop, serveReader, Restart, NoRestart, Reboot,
      MainGoes, Returned, Suspended, Call, SuspendGoes
  <1>2. CASE App
    BY <1>2 DEF LockInv, App, ReaderLoop, BackgroundBuild, NoInput, AskScreen, TurnOff,
      SwitchedOff, TurnOnInMenu, TurnOnInSettings, startSync, StartedSync, beforeScreenChange,
      NotYet, ChangeScreen, AskSleep, stopNow, Stopped, deliverSleepPluginEvents, Wake, Reboot,
      MainGoes, Returned,
      Suspended, Call, SuspendGoes
  <1>3. CASE Start
    BY <1>3 DEF LockInv, Start, StartBegins, ReleaseCaches, GiveUpTurn, CheckHeap, EnterStack,
      StackUp, StackFails, CheckCancelled, KeepOrRollBack, ReportFailure, ReportSuccess,
      FinishDropsClock, FinishAttempt, StartGoes, RollBack
  <1>4. CASE Render
    BY <1>4 DEF LockInv, Render, RenderMenu, RenderBook, SettleWaits, SettleForPaint,
      SettleForBuild, Painted, NeedsChapter, MakeRoom, beforeChapterBuild, HoldForBuild,
      StopAgain, StopDone, StatusUp, StatusStarting, AskRoomAgain, RoomRefused, RenderGoes,
      SettledTo, Call, SuspendGoes
  <1>5. CASE suspend("main") \/ suspend("render")
    BY <1>5 DEF LockInv, suspend, SuspendCancels, SuspendChecks, SuspendLooks, SuspendEnds, SuspendDrops,
      SuspendGoes
  <1>6. CASE StopFinishes \/ Link
    BY <1>6 DEF LockInv, StopFinishes, Link
  <1>7. CASE UNCHANGED vars
    BY <1>7 DEF LockInv, vars
  <1> QED BY <1>1, <1>2, <1>3, <1>4, <1>5, <1>6, <1>7 DEF Next

\* suspend() is called from its callers' lines only, and returns to them.
LEMMA CallStep ==
    CallInv /\ [Next]_vars => CallInv'
  <1> SUFFICES ASSUME CallInv, [Next]_vars PROVE CallInv'
    OBVIOUS
  <1> USE DEF hostVars, flagVars, visitVars, heapVars, radioVars, otherTasks, mainUnchanged, startUnchanged,
      susUnchanged, renderUnchanged, flagsButWaiting, Tasks, SuspendPcs, CallingPcs
  <1>1. CASE Tick
    BY <1>1 DEF CallInv, Tick, TakeScene, StepVisit, Look, Retry, StartDecision, Claim, Claimed,
      HoldClock, Spawn, SpawnFails, IdleStop, NoIdleStop, serveReader, Restart, NoRestart, Reboot,
      MainGoes, Returned, Suspended, Call, SuspendGoes
  <1>2. CASE App
    BY <1>2 DEF CallInv, App, ReaderLoop, BackgroundBuild, NoInput, AskScreen, TurnOff,
      SwitchedOff, TurnOnInMenu, TurnOnInSettings, startSync, StartedSync, beforeScreenChange,
      NotYet, ChangeScreen, AskSleep, stopNow, Stopped, deliverSleepPluginEvents, Wake, Reboot,
      MainGoes, Returned,
      Suspended, Call, SuspendGoes
  <1>3. CASE Start
    BY <1>3 DEF CallInv, Start, StartBegins, ReleaseCaches, GiveUpTurn, CheckHeap, EnterStack,
      StackUp, StackFails, CheckCancelled, KeepOrRollBack, ReportFailure, ReportSuccess,
      FinishDropsClock, FinishAttempt, StartGoes, RollBack
  <1>4. CASE Render
    BY <1>4 DEF CallInv, Render, RenderMenu, RenderBook, SettleWaits, SettleForPaint,
      SettleForBuild, Painted, NeedsChapter, MakeRoom, beforeChapterBuild, HoldForBuild,
      StopAgain, StopDone, StatusUp, StatusStarting, AskRoomAgain, RoomRefused, RenderGoes,
      SettledTo, Call, SuspendGoes
  <1>5. CASE suspend("main") \/ suspend("render")
    BY <1>5 DEF CallInv, suspend, SuspendCancels, SuspendChecks, SuspendLooks, SuspendEnds, SuspendDrops,
      SuspendGoes
  <1>6. CASE StopFinishes \/ Link
    BY <1>6 DEF CallInv, StopFinishes, Link
  <1>7. CASE UNCHANGED vars
    BY <1>7 DEF CallInv, vars
  <1> QED BY <1>1, <1>2, <1>3, <1>4, <1>5, <1>6, <1>7 DEF Next

\* startAsync() and startSync() claim before a start begins; finishAttempt() gives the claim back last.
LEMMA ClaimStep ==
    ClaimInv /\ [Next]_vars => ClaimInv'
  <1> SUFFICES ASSUME ClaimInv, [Next]_vars PROVE ClaimInv'
    OBVIOUS
  <1> USE DEF hostVars, flagVars, visitVars, heapVars, radioVars, otherTasks, mainUnchanged, startUnchanged,
      susUnchanged, renderUnchanged, flagsButWaiting
  <1>1. CASE Tick
    BY <1>1 DEF ClaimInv, Tick, TakeScene, StepVisit, Look, Retry, StartDecision, Claim, Claimed,
      HoldClock, Spawn, SpawnFails, IdleStop, NoIdleStop, serveReader, Restart, NoRestart, Reboot,
      MainGoes, Returned, Suspended, Call, SuspendGoes
  <1>2. CASE App
    BY <1>2 DEF ClaimInv, App, ReaderLoop, BackgroundBuild, NoInput, AskScreen, TurnOff,
      SwitchedOff, TurnOnInMenu, TurnOnInSettings, startSync, StartedSync, beforeScreenChange,
      NotYet, ChangeScreen, AskSleep, stopNow, Stopped, deliverSleepPluginEvents, Wake, Reboot,
      MainGoes, Returned,
      Suspended, Call, SuspendGoes
  <1>3. CASE Start
    BY <1>3 DEF ClaimInv, Start, StartBegins, ReleaseCaches, GiveUpTurn, CheckHeap, EnterStack,
      StackUp, StackFails, CheckCancelled, KeepOrRollBack, ReportFailure, ReportSuccess,
      FinishDropsClock, FinishAttempt, StartGoes, RollBack
  <1>4. CASE Render
    BY <1>4 DEF ClaimInv, Render, RenderMenu, RenderBook, SettleWaits, SettleForPaint,
      SettleForBuild, Painted, NeedsChapter, MakeRoom, beforeChapterBuild, HoldForBuild,
      StopAgain, StopDone, StatusUp, StatusStarting, AskRoomAgain, RoomRefused, RenderGoes,
      SettledTo, Call, SuspendGoes
  <1>5. CASE suspend("main") \/ suspend("render")
    BY <1>5 DEF ClaimInv, suspend, SuspendCancels, SuspendChecks, SuspendLooks, SuspendEnds, SuspendDrops,
      SuspendGoes
  <1>6. CASE StopFinishes \/ Link
    BY <1>6 DEF ClaimInv, StopFinishes, Link
  <1>7. CASE UNCHANGED vars
    BY <1>7 DEF ClaimInv, vars
  <1> QED BY <1>1, <1>2, <1>3, <1>4, <1>5, <1>6, <1>7 DEF Next

\* Nobody begins or goes on with a start behind the back of a suspend() that has seen none.
LEMMA StopStep ==
    LockInv /\ CallInv /\ ClaimInv /\ StopInv /\ [Next]_vars => StopInv'
  <1> SUFFICES ASSUME LockInv, CallInv, ClaimInv, StopInv, [Next]_vars PROVE StopInv'
    OBVIOUS
  <1> USE DEF hostVars, flagVars, visitVars, heapVars, radioVars, otherTasks, mainUnchanged, startUnchanged,
      susUnchanged, renderUnchanged, flagsButWaiting, LockInv, CallInv, ClaimInv, CallingPcs, PastLock, Tasks
  <1>1. CASE Tick
    BY <1>1 DEF StopInv, Tick, TakeScene, StepVisit, Look, Retry, StartDecision, Claim, Claimed,
      HoldClock, Spawn, SpawnFails, IdleStop, NoIdleStop, serveReader, Restart, NoRestart, Reboot,
      MainGoes, Returned, Suspended, Call, SuspendGoes
  <1>2. CASE App
    BY <1>2 DEF StopInv, App, ReaderLoop, BackgroundBuild, NoInput, AskScreen, TurnOff,
      SwitchedOff, TurnOnInMenu, TurnOnInSettings, startSync, StartedSync, beforeScreenChange,
      NotYet, ChangeScreen, AskSleep, stopNow, Stopped, deliverSleepPluginEvents, Wake, Reboot,
      MainGoes, Returned,
      Suspended, Call, SuspendGoes
  <1>3. CASE Start
    BY <1>3 DEF StopInv, Start, StartBegins, ReleaseCaches, GiveUpTurn, CheckHeap, EnterStack,
      StackUp, StackFails, CheckCancelled, KeepOrRollBack, ReportFailure, ReportSuccess,
      FinishDropsClock, FinishAttempt, StartGoes, RollBack
  <1>4. CASE Render
    BY <1>4 DEF StopInv, Render, RenderMenu, RenderBook, SettleWaits, SettleForPaint,
      SettleForBuild, Painted, NeedsChapter, MakeRoom, beforeChapterBuild, HoldForBuild,
      StopAgain, StopDone, StatusUp, StatusStarting, AskRoomAgain, RoomRefused, RenderGoes,
      SettledTo, Call, SuspendGoes
  <1>5. CASE suspend("main") \/ suspend("render")
    BY <1>5 DEF StopInv, suspend, SuspendCancels, SuspendChecks, SuspendLooks, SuspendEnds, SuspendDrops,
      SuspendGoes
  <1>6. CASE StopFinishes \/ Link
    BY <1>6 DEF StopInv, StopFinishes, Link
  <1>7. CASE UNCHANGED vars
    BY <1>7 DEF StopInv, vars
  <1> QED BY <1>1, <1>2, <1>3, <1>4, <1>5, <1>6, <1>7 DEF Next

\* settleStart() leaves no claim, so no start; and one that begins later waits for the lock.
LEMMA PaintStep ==
    LockInv /\ ClaimInv /\ PaintInv /\ [Next]_vars => PaintInv'
  <1> SUFFICES ASSUME LockInv, ClaimInv, PaintInv, [Next]_vars PROVE PaintInv'
    OBVIOUS
  <1> USE DEF hostVars, flagVars, visitVars, heapVars, radioVars, otherTasks, mainUnchanged, startUnchanged,
      susUnchanged, renderUnchanged, flagsButWaiting, LockInv, ClaimInv, PastLock
  <1>1. CASE Tick
    BY <1>1 DEF PaintInv, Tick, TakeScene, StepVisit, Look, Retry, StartDecision, Claim, Claimed,
      HoldClock, Spawn, SpawnFails, IdleStop, NoIdleStop, serveReader, Restart, NoRestart, Reboot,
      MainGoes, Returned, Suspended, Call, SuspendGoes
  <1>2. CASE App
    BY <1>2 DEF PaintInv, App, ReaderLoop, BackgroundBuild, NoInput, AskScreen, TurnOff,
      SwitchedOff, TurnOnInMenu, TurnOnInSettings, startSync, StartedSync, beforeScreenChange,
      NotYet, ChangeScreen, AskSleep, stopNow, Stopped, deliverSleepPluginEvents, Wake, Reboot,
      MainGoes, Returned,
      Suspended, Call, SuspendGoes
  <1>3. CASE Start
    BY <1>3 DEF PaintInv, Start, StartBegins, ReleaseCaches, GiveUpTurn, CheckHeap, EnterStack,
      StackUp, StackFails, CheckCancelled, KeepOrRollBack, ReportFailure, ReportSuccess,
      FinishDropsClock, FinishAttempt, StartGoes, RollBack
  <1>4. CASE Render
    BY <1>4 DEF PaintInv, Render, RenderMenu, RenderBook, SettleWaits, SettleForPaint,
      SettleForBuild, Painted, NeedsChapter, MakeRoom, beforeChapterBuild, HoldForBuild,
      StopAgain, StopDone, StatusUp, StatusStarting, AskRoomAgain, RoomRefused, RenderGoes,
      SettledTo, Call, SuspendGoes
  <1>5. CASE suspend("main") \/ suspend("render")
    BY <1>5 DEF PaintInv, suspend, SuspendCancels, SuspendChecks, SuspendLooks, SuspendEnds, SuspendDrops,
      SuspendGoes
  <1>6. CASE StopFinishes \/ Link
    BY <1>6 DEF PaintInv, StopFinishes, Link
  <1>7. CASE UNCHANGED vars
    BY <1>7 DEF PaintInv, vars
  <1> QED BY <1>1, <1>2, <1>3, <1>4, <1>5, <1>6, <1>7 DEF Next

\* The radio comes up from a start past its lock only, and there is none.
LEMMA BuildStep ==
    LockInv /\ PaintInv /\ BuildInv /\ [Next]_vars => BuildInv'
  <1> SUFFICES ASSUME LockInv, PaintInv, BuildInv, [Next]_vars PROVE BuildInv'
    OBVIOUS
  <1> USE DEF hostVars, flagVars, visitVars, heapVars, radioVars, otherTasks, mainUnchanged, startUnchanged,
      susUnchanged, renderUnchanged, flagsButWaiting, LockInv, PaintInv, PastLock, radioUp, refused, inconclusive, chapterBuildMayRun
  <1>1. CASE Tick
    BY <1>1 DEF BuildInv, Tick, TakeScene, StepVisit, Look, Retry, StartDecision, Claim, Claimed,
      HoldClock, Spawn, SpawnFails, IdleStop, NoIdleStop, serveReader, Restart, NoRestart, Reboot,
      MainGoes, Returned, Suspended, Call, SuspendGoes
  <1>2. CASE App
    BY <1>2 DEF BuildInv, App, ReaderLoop, BackgroundBuild, NoInput, AskScreen, TurnOff,
      SwitchedOff, TurnOnInMenu, TurnOnInSettings, startSync, StartedSync, beforeScreenChange,
      NotYet, ChangeScreen, AskSleep, stopNow, Stopped, deliverSleepPluginEvents, Wake, Reboot,
      MainGoes, Returned,
      Suspended, Call, SuspendGoes
  <1>3. CASE Start
    BY <1>3 DEF BuildInv, Start, StartBegins, ReleaseCaches, GiveUpTurn, CheckHeap, EnterStack,
      StackUp, StackFails, CheckCancelled, KeepOrRollBack, ReportFailure, ReportSuccess,
      FinishDropsClock, FinishAttempt, StartGoes, RollBack
  <1>4. CASE Render
    BY <1>4 DEF BuildInv, Render, RenderMenu, RenderBook, SettleWaits, SettleForPaint,
      SettleForBuild, Painted, NeedsChapter, MakeRoom, beforeChapterBuild, HoldForBuild,
      StopAgain, StopDone, StatusUp, StatusStarting, AskRoomAgain, RoomRefused, RenderGoes,
      SettledTo, Call, SuspendGoes
  <1>5. CASE suspend("main") \/ suspend("render")
    BY <1>5 DEF BuildInv, suspend, SuspendCancels, SuspendChecks, SuspendLooks, SuspendEnds, SuspendDrops,
      SuspendGoes
  <1>6. CASE StopFinishes \/ Link
    BY <1>6 DEF BuildInv, StopFinishes, Link
  <1>7. CASE UNCHANGED vars
    BY <1>7 DEF BuildInv, vars
  <1> QED BY <1>1, <1>2, <1>3, <1>4, <1>5, <1>6, <1>7 DEF Next

\* A start the main task goes to sleep over is one its suspend() has seen.
LEMMA SleepStep ==
    CallInv /\ ClaimInv /\ StopInv /\ SleepInv /\ [Next]_vars => SleepInv'
  <1> SUFFICES ASSUME CallInv, ClaimInv, StopInv, SleepInv, [Next]_vars PROVE SleepInv'
    OBVIOUS
  <1> USE DEF hostVars, flagVars, visitVars, heapVars, radioVars, otherTasks, mainUnchanged, startUnchanged,
      susUnchanged, renderUnchanged, flagsButWaiting, CallInv, ClaimInv, StopInv, CallingPcs, PastLock, Tasks, SuspendPcs
  <1>1. CASE Tick
    BY <1>1 DEF SleepInv, Tick, TakeScene, StepVisit, Look, Retry, StartDecision, Claim, Claimed,
      HoldClock, Spawn, SpawnFails, IdleStop, NoIdleStop, serveReader, Restart, NoRestart, Reboot,
      MainGoes, Returned, Suspended, Call, SuspendGoes
  <1>2. CASE App
    BY <1>2 DEF SleepInv, App, ReaderLoop, BackgroundBuild, NoInput, AskScreen, TurnOff,
      SwitchedOff, TurnOnInMenu, TurnOnInSettings, startSync, StartedSync, beforeScreenChange,
      NotYet, ChangeScreen, AskSleep, stopNow, Stopped, deliverSleepPluginEvents, Wake, Reboot,
      MainGoes, Returned,
      Suspended, Call, SuspendGoes
  <1>3. CASE Start
    BY <1>3 DEF SleepInv, Start, StartBegins, ReleaseCaches, GiveUpTurn, CheckHeap, EnterStack,
      StackUp, StackFails, CheckCancelled, KeepOrRollBack, ReportFailure, ReportSuccess,
      FinishDropsClock, FinishAttempt, StartGoes, RollBack
  <1>4. CASE Render
    BY <1>4 DEF SleepInv, Render, RenderMenu, RenderBook, SettleWaits, SettleForPaint,
      SettleForBuild, Painted, NeedsChapter, MakeRoom, beforeChapterBuild, HoldForBuild,
      StopAgain, StopDone, StatusUp, StatusStarting, AskRoomAgain, RoomRefused, RenderGoes,
      SettledTo, Call, SuspendGoes
  <1>5. CASE suspend("main") \/ suspend("render")
    BY <1>5 DEF SleepInv, suspend, SuspendCancels, SuspendChecks, SuspendLooks, SuspendEnds, SuspendDrops,
      SuspendGoes
  <1>6. CASE StopFinishes \/ Link
    BY <1>6 DEF SleepInv, StopFinishes, Link
  <1>7. CASE UNCHANGED vars
    BY <1>7 DEF SleepInv, vars
  <1> QED BY <1>1, <1>2, <1>3, <1>4, <1>5, <1>6, <1>7 DEF Next

\* The seven parts together are inductive.
LEMMA StartInvariant == Spec => []StartInv
  <1>1. Init => StartInv
    BY DEF Init, StartInv, LockInv, CallInv, ClaimInv, StopInv, PaintInv, BuildInv, SleepInv, Tasks, SuspendPcs,
      PastLock
  <1>2. StartInv /\ [Next]_vars => StartInv'
    BY LockStep, CallStep, ClaimStep, StopStep, PaintStep, BuildStep, SleepStep DEF StartInv
  <1> QED BY <1>1, <1>2, PTL DEF Spec

\* Runtime.cpp:341-344: "Never stop the stack while a start is still in flight", whoever calls suspend()
\* and whenever the claim is made.
THEOREM StartOwnsItsStack == Spec => []NoStopDuringStart
  <1>1. StartInv => NoStopDuringStart
    BY DEF StartInv, StopInv, NoStopDuringStart, Tasks, PastLock
  <1> QED BY <1>1, StartInvariant, PTL

\* EpubReaderActivity.cpp:1624-1625: with a start that settles within settleStart()'s wait, the page
\* waits for it "rather than take the heap beside it".
THEOREM PagesArePaintedAlone == ASSUME ~SlowRadio PROVE Spec => []PaintsAlone
  <1>1. StartInv => PaintsAlone
    BY DEF StartInv, PaintInv, PaintsAlone
  <1> QED BY <1>1, StartInvariant, PTL

\* EpubReaderActivity.cpp:369-376: with a radio that settles within the waits for it, a chapter is built
\* with the radio down.
THEOREM ChaptersAreBuiltAlone == ASSUME ~SlowRadio PROVE Spec => []BuildsAlone
  <1>1. StartInv => BuildsAlone
    BY DEF StartInv, BuildInv, BuildsAlone
  <1> QED BY <1>1, StartInvariant, PTL

\* main.cpp's enterDeepSleep(), with a start or a stop that outlasts its two seconds or does not: the
\* events of a sleep go out over Wi-Fi only with the stack down and no start behind it.
THEOREM DeliversWithTheRadioDown == Spec => []DeliversWithoutBluetooth
  <1>1. StartInv => DeliversWithoutBluetooth
    BY DEF StartInv, SleepInv, DeliversWithoutBluetooth
  <1> QED BY <1>1, StartInvariant, PTL
-----------------------------------------------------------------------------
(* Types, in parts: SMT is at home in numbers and places, Zenon in flags.  *)

\* What is in front, who draws it, and the book visit the radio sees.
ShownTypes ==
    /\ screen \in Screens /\ nav \in Screens \cup {"none"} /\ painted \subseteq {"reader", "menu"}
    /\ lock \in {"free", "render"} /\ scene \in {"reader", "else"}
    /\ mpc = "leaving" => nav # "none"

\* Retries and refusals are counted up to their limits.
Counters ==
    /\ retries \in 0..RetryLimit /\ inRow \in 0..RefusalsBeforeRestart /\ restarts \in Nat

\* The stack and where the three tasks are.
TaskTypes ==
    /\ radio \in {"off", "up", "stopping"} /\ linked \in BOOLEAN
    /\ mpc \in MainPcs /\ rpc \in RenderPcs /\ spc \in StartPcs /\ starter \in {"main", "task"}
    /\ asked \in BOOLEAN /\ upSeen \in BOOLEAN

\* The flags the tasks share.
SharedFlags ==
    /\ inFlight \in BOOLEAN /\ cancelled \in BOOLEAN /\ buildWaiting \in BOOLEAN
    /\ deferred \in BOOLEAN /\ idleStopped \in BOOLEAN /\ rearm \in BOOLEAN
    /\ held \in BOOLEAN /\ connectReq \in BOOLEAN

\* The flags of the host.
HostFlags ==
    /\ enabled \in BOOLEAN /\ parser \in BOOLEAN /\ released \in BOOLEAN /\ fullSpeed \in BOOLEAN

\* The flags of a visit and of the tracker.
VisitFlags ==
    /\ entered \in BOOLEAN /\ fresh \in BOOLEAN /\ attempted \in BOOLEAN /\ manual \in BOOLEAN
    /\ seenHeld \in BOOLEAN /\ wanted \in BOOLEAN /\ spent \in BOOLEAN

\* The screens, the lock and the visit: a screen change enters the screen that was asked for.
LEMMA ShownTypesStep == ShownTypes /\ [Next]_vars => ShownTypes'
  <1> SUFFICES ASSUME ShownTypes, [Next]_vars PROVE ShownTypes'
    OBVIOUS
  <1> USE DEF ShownTypes
  <1>1. CASE Tick
    BY <1>1 DEF Tick, TakeScene, StepVisit, Look, Retry, StartDecision, Claim, Claimed, HoldClock,
       Spawn, SpawnFails, IdleStop, NoIdleStop, serveReader, Restart, NoRestart, hostVars, visitVars,
       mainUnchanged, Reboot, MainGoes, Screens
  <1>2. CASE App
    <2>1. CASE AskScreen
      <3>1. /\ nav' \in NextScreens(screen)
            /\ UNCHANGED <<screen, painted, lock, scene>> /\ mpc' = "manager"
        BY <2>1 DEF AskScreen, visitVars, mainUnchanged, MainGoes
      <3>2. NextScreens(screen) \subseteq Screens
        BY Zenon DEF NextScreens, Screens
      <3> QED BY <3>1, <3>2
    <2>2. CASE ChangeScreen
      BY <2>2 DEF ChangeScreen, hostVars, visitVars, mainUnchanged, Reboot, MainGoes, Screens
    <2>3. CASE ReaderLoop \/ BackgroundBuild \/ NoInput \/ TurnOff \/ SwitchedOff \/ TurnOnInMenu \/
               TurnOnInSettings \/ startSync \/ StartedSync \/ beforeScreenChange \/ NotYet \/ AskSleep
               \/ stopNow \/ Stopped \/ deliverSleepPluginEvents \/ Wake
      BY <2>3 DEF ReaderLoop, BackgroundBuild, NoInput, TurnOff, SwitchedOff, TurnOnInMenu,
         TurnOnInSettings, startSync, StartedSync, beforeScreenChange, NotYet, AskSleep, stopNow,
         Stopped, deliverSleepPluginEvents, Wake, hostVars, visitVars, mainUnchanged, Reboot, MainGoes, Screens
    <2> QED BY <1>2, <2>1, <2>2, <2>3 DEF App
  <1>3. CASE Start
    BY <1>3 DEF Start, StartBegins, ReleaseCaches, GiveUpTurn, CheckHeap, EnterStack, StackUp,
       StackFails, CheckCancelled, KeepOrRollBack, ReportFailure, ReportSuccess, FinishDropsClock,
       FinishAttempt, startUnchanged, hostVars, visitVars
  <1>4. CASE Render
    BY <1>4 DEF Render, RenderMenu, RenderBook, SettleWaits, SettleForPaint, SettleForBuild, Painted,
       NeedsChapter, MakeRoom, beforeChapterBuild, HoldForBuild, StopAgain, StopDone, StatusUp,
       StatusStarting, AskRoomAgain, RoomRefused, hostVars, renderUnchanged, visitVars, SettledTo
  <1>5. CASE suspend("main") \/ suspend("render")
    BY <1>5 DEF suspend, SuspendCancels, SuspendChecks, SuspendLooks, SuspendEnds, SuspendDrops,
       susUnchanged, hostVars, visitVars
  <1>6. CASE StopFinishes \/ Link
    BY <1>6 DEF StopFinishes, Link, hostVars, visitVars
  <1>7. CASE UNCHANGED vars
    BY <1>7 DEF vars, hostVars, visitVars
  <1> QED BY <1>1, <1>2, <1>3, <1>4, <1>5, <1>6, <1>7 DEF Next

\* A retry is counted below the limit, a refusal up to the number the rule asks about.
LEMMA CountersStep == Counters /\ [Next]_vars => Counters'
  <1> SUFFICES ASSUME Counters, [Next]_vars PROVE Counters'
    OBVIOUS
  <1>0. RetryLimit \in Nat /\ RefusalsBeforeRestart \in Nat \ {0}
    BY BleAssumption, RefusalsAssumption
  <1> USE DEF Counters
  <1>1. CASE Tick
    BY <1>1, <1>0 DEF Tick, TakeScene, StepVisit, Look, Retry, StartDecision, Claim, Claimed, HoldClock,
       Spawn, SpawnFails, IdleStop, NoIdleStop, serveReader, Restart, NoRestart, visitVars, heapVars,
       Reboot, RetryEligible
  <1>2. CASE App
    BY <1>2, <1>0 DEF App, ReaderLoop, BackgroundBuild, NoInput, AskScreen, TurnOff, SwitchedOff,
       TurnOnInMenu, TurnOnInSettings, startSync, StartedSync, beforeScreenChange, NotYet, ChangeScreen,
       AskSleep, stopNow, Stopped, deliverSleepPluginEvents, Wake, visitVars, heapVars, Reboot
  <1>3. CASE Start
    BY <1>3, <1>0 DEF Start, StartBegins, ReleaseCaches, GiveUpTurn, CheckHeap, EnterStack, StackUp,
       StackFails, CheckCancelled, KeepOrRollBack, ReportFailure, ReportSuccess, FinishDropsClock,
       FinishAttempt, startUnchanged, trackerUnchanged, visitVars, refused, inconclusive, radioUp,
       StreakAfter
  <1>4. CASE Render
    BY <1>4, <1>0 DEF Render, RenderMenu, RenderBook, SettleWaits, SettleForPaint, SettleForBuild,
       Painted, NeedsChapter, MakeRoom, beforeChapterBuild, HoldForBuild, StopAgain, StopDone, StatusUp,
       StatusStarting, AskRoomAgain, RoomRefused, renderUnchanged, visitVars, heapVars, SettledTo
  <1>5. CASE suspend("main") \/ suspend("render")
    BY <1>5 DEF suspend, SuspendCancels, SuspendChecks, SuspendLooks, SuspendEnds, SuspendDrops,
       susUnchanged, visitVars, heapVars
  <1>6. CASE StopFinishes \/ Link
    BY <1>6 DEF StopFinishes, Link, visitVars, heapVars
  <1>7. CASE UNCHANGED vars
    BY <1>7 DEF vars, visitVars, heapVars
  <1> QED BY <1>1, <1>2, <1>3, <1>4, <1>5, <1>6, <1>7 DEF Next

\* The three tasks go from line to line.
LEMMA TaskTypesStep == TaskTypes /\ [Next]_vars => TaskTypes'
  <1> SUFFICES ASSUME TaskTypes, [Next]_vars PROVE TaskTypes'
    OBVIOUS
  <1> USE DEF TaskTypes
  <1>1. CASE Tick
    BY <1>1 DEF Tick, TakeScene, StepVisit, Look, Retry, StartDecision, Claim, Claimed, HoldClock,
       Spawn, SpawnFails, IdleStop, NoIdleStop, serveReader, Restart, NoRestart, radioVars,
       mainUnchanged, otherTasks, Reboot, MainGoes, MainPcs, RenderPcs, StartPcs
  <1>2. CASE App
    BY <1>2 DEF App, ReaderLoop, BackgroundBuild, NoInput, AskScreen, TurnOff, SwitchedOff,
       TurnOnInMenu, TurnOnInSettings, startSync, StartedSync, beforeScreenChange, NotYet, ChangeScreen,
       AskSleep, stopNow, Stopped, deliverSleepPluginEvents, Wake, radioVars, mainUnchanged, otherTasks, Reboot, MainGoes,
       MainPcs, RenderPcs, StartPcs
  <1>3. CASE Start
    BY <1>3 DEF Start, StartBegins, ReleaseCaches, GiveUpTurn, CheckHeap, EnterStack, StackUp,
       StackFails, CheckCancelled, KeepOrRollBack, ReportFailure, ReportSuccess, FinishDropsClock,
       FinishAttempt, startUnchanged, radioVars, StartGoes, RollBack, StartPcs
  <1>4. CASE Render
    BY <1>4 DEF Render, RenderMenu, RenderBook, SettleWaits, SettleForPaint, SettleForBuild, Painted,
       NeedsChapter, MakeRoom, beforeChapterBuild, HoldForBuild, StopAgain, StopDone, StatusUp,
       StatusStarting, AskRoomAgain, RoomRefused, renderUnchanged, radioVars, RenderGoes, SettledTo,
       RenderPcs
  <1>5. CASE suspend("main") \/ suspend("render")
    BY <1>5 DEF suspend, SuspendCancels, SuspendChecks, SuspendLooks, SuspendEnds, SuspendDrops,
       susUnchanged, radioVars
  <1>6. CASE StopFinishes \/ Link
    BY <1>6 DEF StopFinishes, Link, otherTasks, radioVars
  <1>7. CASE UNCHANGED vars
    BY <1>7 DEF vars, radioVars
  <1> QED BY <1>1, <1>2, <1>3, <1>4, <1>5, <1>6, <1>7 DEF Next

\* A flag is set, cleared or left alone.
LEMMA SharedFlagsStep == SharedFlags /\ [Next]_vars => SharedFlags'
  <1> SUFFICES ASSUME SharedFlags, [Next]_vars PROVE SharedFlags'
    OBVIOUS
  <1> USE DEF SharedFlags
  <1>1. CASE Tick
    BY <1>1 DEF Tick, TakeScene, StepVisit, Look, Retry, StartDecision, Claim, Claimed, HoldClock,
       Spawn, SpawnFails, IdleStop, NoIdleStop, serveReader, Restart, NoRestart, flagVars, Reboot
  <1>2. CASE App
    BY <1>2 DEF App, ReaderLoop, BackgroundBuild, NoInput, AskScreen, TurnOff, SwitchedOff,
       TurnOnInMenu, TurnOnInSettings, startSync, StartedSync, beforeScreenChange, NotYet, ChangeScreen,
       AskSleep, stopNow, Stopped, deliverSleepPluginEvents, Wake, flagVars, Reboot, afterPaint
  <1>3. CASE Start
    BY <1>3 DEF Start, StartBegins, ReleaseCaches, GiveUpTurn, CheckHeap, EnterStack, StackUp,
       StackFails, CheckCancelled, KeepOrRollBack, ReportFailure, ReportSuccess, FinishDropsClock,
       FinishAttempt, flagVars
  <1>4. CASE Render
    BY <1>4 DEF Render, RenderMenu, RenderBook, SettleWaits, SettleForPaint, SettleForBuild, Painted,
       NeedsChapter, MakeRoom, beforeChapterBuild, HoldForBuild, StopAgain, StopDone, StatusUp,
       StatusStarting, AskRoomAgain, RoomRefused, flagVars, flagsButWaiting, SettledTo
  <1>5. CASE suspend("main") \/ suspend("render")
    BY <1>5 DEF suspend, SuspendCancels, SuspendChecks, SuspendLooks, SuspendEnds, SuspendDrops,
       flagVars
  <1>6. CASE StopFinishes \/ Link
    BY <1>6 DEF StopFinishes, Link, flagVars
  <1>7. CASE UNCHANGED vars
    BY <1>7 DEF vars, flagVars
  <1> QED BY <1>1, <1>2, <1>3, <1>4, <1>5, <1>6, <1>7 DEF Next

\* The same for the host's.
LEMMA HostFlagsStep == HostFlags /\ [Next]_vars => HostFlags'
  <1> SUFFICES ASSUME HostFlags, [Next]_vars PROVE HostFlags'
    OBVIOUS
  <1> USE DEF HostFlags
  <1>1. CASE Tick
    BY <1>1 DEF Tick, TakeScene, StepVisit, Look, Retry, StartDecision, Claim, Claimed, HoldClock,
       Spawn, SpawnFails, IdleStop, NoIdleStop, serveReader, Restart, NoRestart, hostVars, Reboot
  <1>2. CASE App
    BY <1>2 DEF App, ReaderLoop, BackgroundBuild, NoInput, AskScreen, TurnOff, SwitchedOff,
       TurnOnInMenu, TurnOnInSettings, startSync, StartedSync, beforeScreenChange, NotYet, ChangeScreen,
       AskSleep, stopNow, Stopped, deliverSleepPluginEvents, Wake, hostVars, Reboot
  <1>3. CASE Start
    BY <1>3 DEF Start, StartBegins, ReleaseCaches, GiveUpTurn, CheckHeap, EnterStack, StackUp,
       StackFails, CheckCancelled, KeepOrRollBack, ReportFailure, ReportSuccess, FinishDropsClock,
       FinishAttempt, startUnchanged, hostVars
  <1>4. CASE Render
    BY <1>4 DEF Render, RenderMenu, RenderBook, SettleWaits, SettleForPaint, SettleForBuild, Painted,
       NeedsChapter, MakeRoom, beforeChapterBuild, HoldForBuild, StopAgain, StopDone, StatusUp,
       StatusStarting, AskRoomAgain, RoomRefused, hostVars, SettledTo
  <1>5. CASE suspend("main") \/ suspend("render")
    BY <1>5 DEF suspend, SuspendCancels, SuspendChecks, SuspendLooks, SuspendEnds, SuspendDrops,
       susUnchanged, hostVars
  <1>6. CASE StopFinishes \/ Link
    BY <1>6 DEF StopFinishes, Link, hostVars
  <1>7. CASE UNCHANGED vars
    BY <1>7 DEF vars, hostVars
  <1> QED BY <1>1, <1>2, <1>3, <1>4, <1>5, <1>6, <1>7 DEF Next

\* tick() reads `held` once into the visit's own copy.
LEMMA VisitFlagsStep == SharedFlags /\ VisitFlags /\ [Next]_vars => VisitFlags'
  <1> SUFFICES ASSUME SharedFlags, VisitFlags, [Next]_vars PROVE VisitFlags'
    OBVIOUS
  <1> USE DEF SharedFlags, VisitFlags
  <1>1. CASE Tick
    <2>1. CASE StepVisit
      BY <2>1 DEF StepVisit, visitVars, heapVars, Reboot, restarting
    <2>2. CASE Retry
      BY <2>2 DEF Retry, visitVars, heapVars, Reboot, restarting
    <2>3. CASE StartDecision
      BY <2>3 DEF StartDecision, visitVars, heapVars, Reboot, restarting
    <2>4. CASE TakeScene
      BY <2>4 DEF TakeScene, visitVars, heapVars, Reboot, restarting
    <2>5. CASE Look
      BY <2>5 DEF Look, visitVars, heapVars, Reboot, restarting
    <2>6. CASE Restart
      BY <2>6 DEF Restart, visitVars, heapVars, Reboot, restarting
    <2>7. CASE Claim \/ Claimed \/ HoldClock \/ Spawn \/ SpawnFails \/ IdleStop \/ NoIdleStop \/
               serveReader \/ NoRestart
      BY <2>7 DEF Claim, Claimed, HoldClock, Spawn, SpawnFails, IdleStop, NoIdleStop, serveReader,
         NoRestart, visitVars, heapVars, Reboot, restarting
    <2> QED BY <1>1, <2>1, <2>2, <2>3, <2>4, <2>5, <2>6, <2>7 DEF Tick
  <1>2. CASE App
    BY <1>2 DEF App, ReaderLoop, BackgroundBuild, NoInput, AskScreen, TurnOff, SwitchedOff,
       TurnOnInMenu, TurnOnInSettings, startSync, StartedSync, beforeScreenChange, NotYet, ChangeScreen,
       AskSleep, stopNow, Stopped, deliverSleepPluginEvents, Wake, visitVars, heapVars, Reboot
  <1>3. CASE Start
    BY <1>3 DEF Start, StartBegins, ReleaseCaches, GiveUpTurn, CheckHeap, EnterStack, StackUp,
       StackFails, CheckCancelled, KeepOrRollBack, ReportFailure, ReportSuccess, FinishDropsClock,
       FinishAttempt, startUnchanged, visitVars, trackerUnchanged, refused, inconclusive, radioUp,
       WantedAfter, shouldRestart
  <1>4. CASE Render
    BY <1>4 DEF Render, RenderMenu, RenderBook, SettleWaits, SettleForPaint, SettleForBuild, Painted,
       NeedsChapter, MakeRoom, beforeChapterBuild, HoldForBuild, StopAgain, StopDone, StatusUp,
       StatusStarting, AskRoomAgain, RoomRefused, renderUnchanged, visitVars, heapVars, SettledTo
  <1>5. CASE suspend("main") \/ suspend("render")
    BY <1>5 DEF suspend, SuspendCancels, SuspendChecks, SuspendLooks, SuspendEnds, SuspendDrops,
       susUnchanged, visitVars, heapVars
  <1>6. CASE StopFinishes \/ Link
    BY <1>6 DEF StopFinishes, Link, visitVars, heapVars
  <1>7. CASE UNCHANGED vars
    BY <1>7 DEF vars, visitVars, heapVars
  <1> QED BY <1>1, <1>2, <1>3, <1>4, <1>5, <1>6, <1>7 DEF Next

TypeInv ==
    ShownTypes /\ Counters /\ TaskTypes /\ SharedFlags /\ HostFlags /\ VisitFlags /\ CallInv

LEMMA TypeParts == TypeInv => TypeOK
  <1> SUFFICES ASSUME TypeInv PROVE TypeOK
    OBVIOUS
  <1> USE DEF TypeInv
  <1>1. <<inFlight, cancelled, buildWaiting, deferred, idleStopped, rearm, held, connectReq>> \in
          BOOLEAN \X BOOLEAN \X BOOLEAN \X BOOLEAN \X BOOLEAN \X BOOLEAN \X BOOLEAN \X BOOLEAN
    BY DEF SharedFlags
  <1>2. /\ screen \in Screens /\ nav \in Screens \cup {"none"} /\ painted \subseteq {"reader", "menu"}
        /\ lock \in {"free", "render"} /\ scene \in {"reader", "else"}
    BY DEF ShownTypes
  <1>3. sus \in [Tasks -> SuspendPcs]
    BY DEF CallInv
  <1> QED BY <1>1, <1>2, <1>3, Zenon DEF TypeOK, Counters, TaskTypes, HostFlags, VisitFlags

\* Every flag, counter and line of the two tasks and the start stays within its range, for every retry
\* limit and every number of refusals: in particular visit retries end (Runtime.cpp:469)
\* and a screen change always has a screen to go to.
THEOREM TypeCorrect == Spec => []TypeOK
  <1>1. Init => TypeInv
    <2> SUFFICES ASSUME Init PROVE TypeInv
      OBVIOUS
    <2> USE DEF Init
    <2>1. ShownTypes
      BY DEF ShownTypes, Screens
    <2>2. Counters
      BY BleAssumption, RefusalsAssumption DEF Counters
    <2>3. TaskTypes
      BY DEF TaskTypes, MainPcs, RenderPcs, StartPcs
    <2>4. SharedFlags
      BY Zenon DEF SharedFlags
    <2>5. HostFlags /\ VisitFlags
      BY Zenon DEF HostFlags, VisitFlags
    <2>6. CallInv
      BY DEF CallInv, Tasks, SuspendPcs
    <2> QED BY <2>1, <2>2, <2>3, <2>4, <2>5, <2>6 DEF TypeInv
  <1>2. TypeInv /\ [Next]_vars => TypeInv'
    BY ShownTypesStep, CountersStep, TaskTypesStep, SharedFlagsStep, HostFlagsStep, VisitFlagsStep, CallStep
       DEF TypeInv
  <1> QED BY <1>1, <1>2, TypeParts, PTL DEF Spec
-----------------------------------------------------------------------------
(* What the waits of the three tasks rest on.                              *)

\* A claim of the start belongs to a start that runs, or to the lines of startAsync() before one: no path
\* leaves inFlight set behind it, which would end the radio for good.
ClaimsHaveOwners == inFlight => spc # "none" \/ mpc \in {"claimed", "hold", "spawn"}

\* A task that waits for suspend() has called it.
CallsAreMade ==
    /\ mpc \in CallingPcs => sus["main"] # "no"
    /\ rpc = "stop" => sus["render"] # "no"

\* The turn of a start is asked for only while the render task waits for it.
TurnsGivenUp == buildWaiting => rpc \in {"settle", "askSettle"}

\* Together: every wait has somebody at work on what it waits for.
WaitsHaveOwners == ClaimsHaveOwners /\ CallsAreMade /\ TurnsGivenUp

\* finishAttempt() gives the claim back with its last line, a start that was not created at once.
LEMMA OwnerStep ==
    ClaimInv /\ ClaimsHaveOwners /\ [Next]_vars => ClaimsHaveOwners'
  <1> SUFFICES ASSUME ClaimInv, ClaimsHaveOwners, [Next]_vars PROVE ClaimsHaveOwners'
    OBVIOUS
  <1> USE DEF hostVars, flagVars, visitVars, heapVars, radioVars, otherTasks, mainUnchanged, startUnchanged,
      susUnchanged, renderUnchanged, flagsButWaiting,
      ClaimInv
  <1>1. CASE Tick
    BY <1>1 DEF ClaimsHaveOwners, Tick, TakeScene, StepVisit, Look, Retry, StartDecision, Claim, Claimed,
      HoldClock, Spawn, SpawnFails, IdleStop, NoIdleStop, serveReader, Restart, NoRestart, Reboot,
      MainGoes, Returned, Suspended, Call, SuspendGoes
  <1>2. CASE App
    BY <1>2 DEF ClaimsHaveOwners, App, ReaderLoop, BackgroundBuild, NoInput, AskScreen, TurnOff,
      SwitchedOff, TurnOnInMenu, TurnOnInSettings, startSync, StartedSync, beforeScreenChange,
      NotYet, ChangeScreen, AskSleep, stopNow, Stopped, deliverSleepPluginEvents, Wake, Reboot,
      MainGoes, Returned,
      Suspended, Call, SuspendGoes
  <1>3. CASE Start
    BY <1>3 DEF ClaimsHaveOwners, Start, StartBegins, ReleaseCaches, GiveUpTurn, CheckHeap, EnterStack,
      StackUp, StackFails, CheckCancelled, KeepOrRollBack, ReportFailure, ReportSuccess,
      FinishDropsClock, FinishAttempt, StartGoes, RollBack
  <1>4. CASE Render
    BY <1>4 DEF ClaimsHaveOwners, Render, RenderMenu, RenderBook, SettleWaits, SettleForPaint,
      SettleForBuild, Painted, NeedsChapter, MakeRoom, beforeChapterBuild, HoldForBuild,
      StopAgain, StopDone, StatusUp, StatusStarting, AskRoomAgain, RoomRefused, RenderGoes,
      SettledTo, Call, SuspendGoes
  <1>5. CASE suspend("main") \/ suspend("render")
    BY <1>5 DEF ClaimsHaveOwners, suspend, SuspendCancels, SuspendChecks, SuspendLooks, SuspendEnds, SuspendDrops,
      SuspendGoes
  <1>6. CASE StopFinishes \/ Link
    BY <1>6 DEF ClaimsHaveOwners, StopFinishes, Link
  <1>7. CASE UNCHANGED vars
    BY <1>7 DEF ClaimsHaveOwners, vars
  <1> QED BY <1>1, <1>2, <1>3, <1>4, <1>5, <1>6, <1>7 DEF Next

\* Whoever takes the answer of suspend() goes on, or calls it again.
LEMMA CalledStep ==
    CallInv /\ CallsAreMade /\ [Next]_vars => CallsAreMade'
  <1> SUFFICES ASSUME CallInv, CallsAreMade, [Next]_vars PROVE CallsAreMade'
    OBVIOUS
  <1> USE DEF hostVars, flagVars, visitVars, heapVars, radioVars, otherTasks, mainUnchanged, startUnchanged,
      susUnchanged, renderUnchanged, flagsButWaiting,
      CallInv, CallingPcs, Tasks, SuspendPcs
  <1>1. CASE Tick
    BY <1>1 DEF CallsAreMade, Tick, TakeScene, StepVisit, Look, Retry, StartDecision, Claim, Claimed,
      HoldClock, Spawn, SpawnFails, IdleStop, NoIdleStop, serveReader, Restart, NoRestart, Reboot,
      MainGoes, Returned, Suspended, Call, SuspendGoes
  <1>2. CASE App
    BY <1>2 DEF CallsAreMade, App, ReaderLoop, BackgroundBuild, NoInput, AskScreen, TurnOff,
      SwitchedOff, TurnOnInMenu, TurnOnInSettings, startSync, StartedSync, beforeScreenChange,
      NotYet, ChangeScreen, AskSleep, stopNow, Stopped, deliverSleepPluginEvents, Wake, Reboot,
      MainGoes, Returned,
      Suspended, Call, SuspendGoes
  <1>3. CASE Start
    BY <1>3 DEF CallsAreMade, Start, StartBegins, ReleaseCaches, GiveUpTurn, CheckHeap, EnterStack,
      StackUp, StackFails, CheckCancelled, KeepOrRollBack, ReportFailure, ReportSuccess,
      FinishDropsClock, FinishAttempt, StartGoes, RollBack
  <1>4. CASE Render
    BY <1>4 DEF CallsAreMade, Render, RenderMenu, RenderBook, SettleWaits, SettleForPaint,
      SettleForBuild, Painted, NeedsChapter, MakeRoom, beforeChapterBuild, HoldForBuild,
      StopAgain, StopDone, StatusUp, StatusStarting, AskRoomAgain, RoomRefused, RenderGoes,
      SettledTo, Call, SuspendGoes
  <1>5. CASE suspend("main") \/ suspend("render")
    BY <1>5 DEF CallsAreMade, suspend, SuspendCancels, SuspendChecks, SuspendLooks, SuspendEnds, SuspendDrops,
      SuspendGoes
  <1>6. CASE StopFinishes \/ Link
    BY <1>6 DEF CallsAreMade, StopFinishes, Link
  <1>7. CASE UNCHANGED vars
    BY <1>7 DEF CallsAreMade, vars
  <1> QED BY <1>1, <1>2, <1>3, <1>4, <1>5, <1>6, <1>7 DEF Next

\* settleStart() takes its request back when it goes on, whether the start gave way or the wait ran out.
LEMMA TurnStep ==
    TurnsGivenUp /\ [Next]_vars => TurnsGivenUp'
  <1> SUFFICES ASSUME TurnsGivenUp, [Next]_vars PROVE TurnsGivenUp'
    OBVIOUS
  <1> USE DEF hostVars, flagVars, visitVars, heapVars, radioVars, otherTasks, mainUnchanged, startUnchanged,
      susUnchanged, renderUnchanged, flagsButWaiting
  <1>1. CASE Tick
    BY <1>1 DEF TurnsGivenUp, Tick, TakeScene, StepVisit, Look, Retry, StartDecision, Claim, Claimed,
      HoldClock, Spawn, SpawnFails, IdleStop, NoIdleStop, serveReader, Restart, NoRestart, Reboot,
      MainGoes, Returned, Suspended, Call, SuspendGoes
  <1>2. CASE App
    BY <1>2 DEF TurnsGivenUp, App, ReaderLoop, BackgroundBuild, NoInput, AskScreen, TurnOff,
      SwitchedOff, TurnOnInMenu, TurnOnInSettings, startSync, StartedSync, beforeScreenChange,
      NotYet, ChangeScreen, AskSleep, stopNow, Stopped, deliverSleepPluginEvents, Wake, Reboot,
      MainGoes, Returned,
      Suspended, Call, SuspendGoes
  <1>3. CASE Start
    BY <1>3 DEF TurnsGivenUp, Start, StartBegins, ReleaseCaches, GiveUpTurn, CheckHeap, EnterStack,
      StackUp, StackFails, CheckCancelled, KeepOrRollBack, ReportFailure, ReportSuccess,
      FinishDropsClock, FinishAttempt, StartGoes, RollBack
  <1>4. CASE Render
    BY <1>4 DEF TurnsGivenUp, Render, RenderMenu, RenderBook, SettleWaits, SettleForPaint,
      SettleForBuild, Painted, NeedsChapter, MakeRoom, beforeChapterBuild, HoldForBuild,
      StopAgain, StopDone, StatusUp, StatusStarting, AskRoomAgain, RoomRefused, RenderGoes,
      SettledTo, Call, SuspendGoes
  <1>5. CASE suspend("main") \/ suspend("render")
    BY <1>5 DEF TurnsGivenUp, suspend, SuspendCancels, SuspendChecks, SuspendLooks, SuspendEnds, SuspendDrops,
      SuspendGoes
  <1>6. CASE StopFinishes \/ Link
    BY <1>6 DEF TurnsGivenUp, StopFinishes, Link
  <1>7. CASE UNCHANGED vars
    BY <1>7 DEF TurnsGivenUp, vars
  <1> QED BY <1>1, <1>2, <1>3, <1>4, <1>5, <1>6, <1>7 DEF Next

\* settleStart(), suspend() and the claim of the start: nobody waits for a start that is not running or for a
\* stop that nobody asked for, and no start gives up its turn for a page nobody is waiting to paint.  With the
\* fairness of the tasks this is what ScreenComes and LockComesBack rest on.
THEOREM NobodyWaitsForNothing == Spec => []WaitsHaveOwners
  <1> DEFINE Inv == CallInv /\ ClaimInv /\ WaitsHaveOwners
  <1>1. Init => Inv
    BY DEF Init, CallInv, ClaimInv, WaitsHaveOwners, ClaimsHaveOwners, CallsAreMade, TurnsGivenUp, CallingPcs,
       Tasks, SuspendPcs
  <1>2. Inv /\ [Next]_vars => Inv'
    BY CallStep, ClaimStep, OwnerStep, CalledStep, TurnStep DEF WaitsHaveOwners
  <1> QED BY <1>1, <1>2, PTL DEF Spec
=============================================================================
