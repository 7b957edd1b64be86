----------------------------- MODULE BleRuntime -----------------------------
(***************************************************************************)
(* The Bluetooth page turner's radio (lib/BlePageTurner), its start task,  *)
(* and the two tasks of the firmware that ask it to start and to stop: the *)
(* main loop (tick(), screen changes, the settings, sleep) and the render  *)
(* task, which paints the book and builds its chapters under the render    *)
(* lock.  Stack, page and chapter do not fit the heap together; nothing    *)
(* but these flags keeps them apart.                                       *)
(*                                                                         *)
(* A step reads or writes what another task can touch once.  suspend() is  *)
(* a procedure of the main and of the render task: its step is sus[task].  *)
(***************************************************************************)
EXTENDS RadioPolicy

CONSTANTS
    RetryLimit,      \* kRetryLimit
    SlowRadio,       \* a start or a stop may outlast the waits for it
    HeapMoods,       \* what the start task may find the heap to be
    MayBuild         \* the pages asked for may lie in chapters not built yet

ASSUME BleAssumption ==
    /\ RetryLimit \in Nat /\ SlowRadio \in BOOLEAN
    /\ HeapMoods \subseteq Heaps /\ MayBuild \in BOOLEAN

VARIABLES
    enabled,         \* Config::enabled
    screen, nav,     \* the screen in front; the one asked for, or "none"
    painted,         \* reader: pageRendered; menu: its first frame is up
    parser,          \* the open section is building: its parser is alive
    released,        \* EpubReaderActivity::radioReleasedForBuild
    lock,            \* holder of the render lock
    fullSpeed,       \* pageturner::holdsCpu
    inFlight, cancelled, buildWaiting, deferred, idleStopped, rearm, held,
    connectReq,      \* connectRequested
    scene, entered, fresh, \* lastScene.where; a book visit starts; the visit changed since tick()
    attempted, retries, manual,  \* Visit
    seenHeld,        \* heldForBuild as this tick() read it
    inRow, wanted, spent,  \* Tracker; `spent` is its memo in RTC memory
    restarts,        \* heap restarts since the radio last came up
    radio, linked,   \* the SDK's host: off, up or stopping
    mpc, rpc, spc, starter, asked, upSeen, sus

hostVars  == <<enabled, screen, nav, painted, parser, released>>
flagVars  == <<inFlight, cancelled, buildWaiting, deferred, idleStopped, rearm, held, connectReq>>
visitVars == <<scene, entered, fresh, attempted, retries, manual, seenHeld>>
heapVars  == <<inRow, wanted, spent, restarts>>
radioVars == <<radio, linked>>
vars == <<hostVars, flagVars, visitVars, heapVars, radioVars, lock, fullSpeed,
          mpc, rpc, spc, starter, asked, upSeen, sus>>

Screens == {"home", "reader", "menu", "settings", "usb"}
Tasks == {"main", "render"}
MainPcs == {"pass", "visit", "look", "retry", "start", "claim", "claimed", "hold", "spawn", "idle",
            "serve", "restart", "loop", "buildTick", "input", "manager", "leaving", "switchOn",
            "switchedOff", "sync", "sleeping", "delivering", "asleep"}
RenderPcs == {"idle", "settle", "page", "room", "ask", "askSettle", "askCheck", "stop",
              "status", "status2", "nap", "build"}
StartPcs == {"none", "begin", "cache", "heap", "init", "stack", "kept", "after", "failed", "reported", "finish", "end"}
SuspendPcs == {"no", "cancel", "inFlight", "look", "end", "drop", "stopped", "pending"}
\* The start routine has taken the render lock and given it back: the stack is coming up.
PastLock == {"heap", "init", "stack", "kept", "after"}

Init ==
    /\ enabled \in BOOLEAN /\ screen = "home" /\ nav = "none" /\ painted = {}
    /\ parser = FALSE /\ released = FALSE
    /\ lock = "free" /\ fullSpeed = FALSE
    /\ inFlight = FALSE /\ cancelled = FALSE /\ buildWaiting = FALSE /\ deferred = FALSE
    /\ idleStopped = FALSE /\ rearm = FALSE /\ held = FALSE /\ connectReq = FALSE
    /\ scene = "else" /\ entered = FALSE /\ fresh = TRUE
    /\ attempted = FALSE /\ retries = 0 /\ manual = FALSE /\ seenHeld = FALSE
    /\ inRow = 0 /\ wanted = FALSE /\ spent = FALSE /\ restarts = 0
    /\ radio = "off" /\ linked = FALSE
    /\ mpc = "pass" /\ rpc = "idle" /\ spc = "none" /\ starter = "task"
    /\ asked = FALSE /\ upSeen = FALSE /\ sus = [t \in Tasks |-> "no"]

busy == inFlight \/ radio # "off"
holdsHeap == enabled /\ (busy \/ deferred)
storageBusy == screen = "usb"
\* ActivityManager::isRemoteReaderContext: the menu over the book is one too.
Reading == nav = "none" /\ screen \in painted

otherTasks == <<rpc, spc, starter, asked, upSeen>>
-----------------------------------------------------------------------------
(* suspend(), called by setting sus[t] to "cancel"; it ends in "stopped"   *)
(* (true) or "pending" (false), and the caller goes on from there.         *)

Call(t) == sus' = [sus EXCEPT ![t] = "cancel"]
SuspendGoes(t, step) == sus' = [sus EXCEPT ![t] = step]
Suspended(t) == sus[t] \in {"stopped", "pending"}
susUnchanged == <<hostVars, visitVars, heapVars, lock, mpc, rpc, spc, starter, asked, upSeen>>

SuspendCancels(t) ==
    /\ sus[t] = "cancel" /\ SuspendGoes(t, "inFlight")
    /\ cancelled' = TRUE
    /\ UNCHANGED <<susUnchanged, inFlight, buildWaiting, deferred, idleStopped, rearm, held, connectReq,
                   radioVars, fullSpeed>>
SuspendChecksAlways(t) ==
    /\ sus[t] = "inFlight" /\ SuspendGoes(t, "look")
    /\ UNCHANGED <<susUnchanged, flagVars, radioVars, fullSpeed>>
SuspendChecks(t) ==
    /\ sus[t] = "inFlight" /\ SuspendGoes(t, IF inFlight THEN "pending" ELSE "look")
    /\ UNCHANGED <<susUnchanged, flagVars, radioVars, fullSpeed>>
SuspendLooks(t) ==
    /\ sus[t] = "look" /\ SuspendGoes(t, IF radio = "off" THEN "drop" ELSE "end")
    /\ fullSpeed' = (fullSpeed \/ radio # "off")
    /\ UNCHANGED <<susUnchanged, flagVars, radioVars>>
SuspendEndsAnyhow(t) ==
    /\ sus[t] = "end" /\ SuspendGoes(t, "drop")
    /\ radio' \in (IF radio = "off" THEN {"off"} ELSE {"off", "stopping"}) /\ linked' = FALSE
    /\ UNCHANGED <<susUnchanged, flagVars, fullSpeed>>
\* port::end(0): the stack is down at once, or keeps stopping in the background.
SuspendEnds(t) ==
    /\ sus[t] = "end"
    /\ \E now \in {"off", "stopping"} :
         /\ (radio = "off" => now = "off") /\ radio' = now
         /\ SuspendGoes(t, IF now = "off" THEN "drop" ELSE "pending")
    /\ linked' = FALSE
    /\ UNCHANGED <<susUnchanged, flagVars, fullSpeed>>
SuspendDrops(t) ==
    /\ sus[t] = "drop" /\ SuspendGoes(t, "stopped")
    /\ fullSpeed' = FALSE
    /\ UNCHANGED <<susUnchanged, flagVars, radioVars>>

suspend(t) ==
    \/ SuspendCancels(t) \/ SuspendChecks(t) \/ SuspendLooks(t) \/ SuspendEnds(t) \/ SuspendDrops(t)

\* The stack finishes stopping, a remote links or goes away.
StopFinishes ==
    /\ radio = "stopping" /\ radio' = "off"
    /\ UNCHANGED <<hostVars, flagVars, visitVars, heapVars, linked, lock, fullSpeed, mpc, otherTasks, sus>>
Link ==
    /\ radio = "up" /\ linked' = ~linked
    /\ UNCHANGED <<hostVars, flagVars, visitVars, heapVars, radio, lock, fullSpeed, mpc, otherTasks, sus>>

-----------------------------------------------------------------------------
(* One start of the radio: beginOwned() and finishAttempt(), on the start  *)
(* task, or on the main task for the settings (starter).                   *)

StartGoes(step) == spc' = step
startUnchanged == <<hostVars, visitVars, restarts, lock, mpc, rpc, starter, asked, upSeen, sus>>
trackerUnchanged == <<inRow, wanted, spent>>

StartBegins ==
    /\ spc = "begin"
    /\ StartGoes(IF cancelled \/ radio = "stopping" THEN "failed"
                 ELSE IF radio = "up" THEN "reported" ELSE "cache")
    /\ UNCHANGED <<startUnchanged, trackerUnchanged, flagVars, radioVars, fullSpeed>>

\* The caches are freed under the render lock, which is only ever tried.
ReleaseCaches ==
    /\ spc = "cache" /\ lock = "free" /\ StartGoes("heap")
    /\ UNCHANGED <<startUnchanged, trackerUnchanged, flagVars, radioVars, fullSpeed>>
GiveUpTurnIfCancelled ==
    /\ spc = "cache" /\ lock # "free" /\ cancelled /\ StartGoes("failed")
    /\ UNCHANGED <<startUnchanged, trackerUnchanged, flagVars, radioVars, fullSpeed>>
GiveUpTurn ==
    /\ spc = "cache" /\ lock # "free" /\ (cancelled \/ buildWaiting) /\ StartGoes("failed")
    /\ UNCHANGED <<startUnchanged, trackerUnchanged, flagVars, radioVars, fullSpeed>>

refused(why) ==
    /\ inRow' = StreakAfter(why, inRow)
    /\ wanted' = WantedAfter(why, inRow, wanted, spent)
    /\ spent' = spent
inconclusive == inRow' = 0 /\ wanted' = FALSE /\ spent' = spent

CheckHeap ==
    /\ spc = "heap"
    /\ \E heap \in HeapMoods : LET why == BeforeStartVerdict(heap) IN
         IF why = "Ok" THEN StartGoes("init") /\ UNCHANGED trackerUnchanged
         ELSE StartGoes("failed") /\ refused(why)
    /\ UNCHANGED <<startUnchanged, flagVars, radioVars, fullSpeed>>
\* port::begin() is entered only if nobody cancelled; it may fail.
EnterStack ==
    /\ spc = "init"
    /\ IF cancelled THEN StartGoes("failed") /\ inconclusive
       ELSE StartGoes("stack") /\ UNCHANGED trackerUnchanged
    /\ UNCHANGED <<startUnchanged, flagVars, radioVars, fullSpeed>>
StackUp ==
    /\ spc = "stack" /\ StartGoes("kept") /\ radio' = "up"
    /\ UNCHANGED <<startUnchanged, trackerUnchanged, flagVars, linked, fullSpeed>>
StackFails ==
    /\ spc = "stack" /\ StartGoes("failed") /\ inconclusive
    /\ UNCHANGED <<startUnchanged, flagVars, radioVars, fullSpeed>>

\* A start that is not to be kept ends the stack without waiting for it.
RollBack == radio' \in {"off", "stopping"} /\ linked' = FALSE /\ StartGoes("failed")
CheckCancelled ==
    /\ spc = "kept"
    /\ IF cancelled THEN RollBack /\ inconclusive
       ELSE StartGoes("after") /\ UNCHANGED <<trackerUnchanged, radioVars>>
    /\ UNCHANGED <<startUnchanged, flagVars, fullSpeed>>
radioUp == inRow' = 0 /\ spent' = FALSE /\ wanted' = FALSE
KeepOrRollBack ==
    /\ spc = "after"
    /\ \E whole \in {h = "fits" : h \in HeapMoods} : LET why == JustStartedVerdict(whole) IN
         IF why = "Ok"
         THEN StartGoes("reported") /\ radioUp /\ restarts' = 0 /\ UNCHANGED radioVars
         ELSE RollBack /\ refused(why) /\ UNCHANGED restarts
    /\ UNCHANGED <<hostVars, visitVars, lock, mpc, rpc, starter, asked, upSeen, sus, flagVars, fullSpeed>>

\* finishAttempt(): only the start task reports a failure to the book.
ReportFailure ==
    /\ spc = "failed" /\ StartGoes("finish")
    /\ deferred' = IF starter = "task" THEN ~cancelled ELSE deferred
    /\ UNCHANGED <<startUnchanged, trackerUnchanged, inFlight, cancelled, buildWaiting, idleStopped,
                   rearm, held, connectReq, radioVars, fullSpeed>>
ReportSuccess ==
    /\ spc = "reported" /\ StartGoes("finish")
    /\ deferred' = (deferred /\ starter = "main")
    /\ UNCHANGED <<startUnchanged, trackerUnchanged, inFlight, cancelled, buildWaiting, idleStopped,
                   rearm, held, connectReq, radioVars, fullSpeed>>
FinishDropsClock ==
    /\ spc = "finish" /\ StartGoes("end")
    /\ fullSpeed' = (fullSpeed /\ radio # "off")
    /\ UNCHANGED <<startUnchanged, trackerUnchanged, flagVars, radioVars>>
FinishAttemptKeepsClaim ==
    /\ spc = "end" /\ StartGoes("none")
    /\ UNCHANGED <<startUnchanged, trackerUnchanged, flagVars, radioVars, fullSpeed>>
FinishAttempt ==
    /\ spc = "end" /\ StartGoes("none")
    /\ inFlight' = FALSE
    /\ UNCHANGED <<startUnchanged, trackerUnchanged, cancelled, buildWaiting, deferred, idleStopped,
                   rearm, held, connectReq, radioVars, fullSpeed>>

Start ==
    \/ StartBegins \/ ReleaseCaches \/ GiveUpTurn \/ CheckHeap \/ EnterStack \/ StackUp \/ StackFails
    \/ CheckCancelled \/ KeepOrRollBack \/ ReportFailure \/ ReportSuccess
    \/ FinishDropsClock \/ FinishAttempt
-----------------------------------------------------------------------------
(* tick(), once per pass of the main loop.                                 *)

MainGoes(step) == mpc' = step
Returned(t) == Suspended(t) /\ SuspendGoes(t, "no")
mainUnchanged == <<lock, otherTasks>>

\* loop(): the scene is taken, then tick() first finishes a stop and lets a taken card have its way.
TakeScene ==
    /\ mpc = "pass" /\ MainGoes("visit")
    /\ scene' = IF Reading THEN "reader" ELSE "else"
    /\ entered' = (Reading /\ (scene # "reader" \/ fresh))
    /\ IF radio = "stopping" \/ storageBusy THEN Call("main") ELSE SuspendGoes("main", "stopped")
    /\ UNCHANGED <<hostVars, flagVars, fresh, attempted, retries, manual, seenHeld, heapVars, radioVars,
                   fullSpeed, mainUnchanged>>

StepVisit ==
    /\ mpc = "visit" /\ Returned("main") /\ MainGoes("look")
    /\ LET reader   == scene = "reader"
           leaves   == ~reader \/ ~enabled \/ fresh
           rearmed  == reader /\ enabled /\ radioRearmWanted(idleStopped, entered, connectReq, rearm)
           again    == rearmed /\ ~inFlight /\ radio # "up"
           wantsNow == connectReq /\ reader /\ enabled /\ ~linked
       IN /\ held' = (held /\ ~fresh)
          /\ idleStopped' = (idleStopped /\ ~rearmed)
          /\ attempted' = (attempted /\ ~leaves /\ ~again)
          /\ retries' = IF leaves \/ again THEN 0 ELSE retries
          /\ manual' = (wantsNow \/ (manual /\ ~leaves))
          /\ deferred' = (deferred /\ ~again)
    /\ rearm' = FALSE /\ connectReq' = FALSE /\ fresh' = FALSE
    /\ UNCHANGED <<hostVars, inFlight, cancelled, buildWaiting, scene, entered, seenHeld, heapVars,
                   radioVars, fullSpeed, mainUnchanged>>

\* The inputs are read here once and used in StartDecision.
MustStop == RunningVerdict(enabled, storageBusy, FALSE) # "Ok"
Look ==
    /\ mpc = "look"
    /\ seenHeld' = held
    /\ IF MustStop THEN MainGoes("restart") /\ Call("main")
       ELSE MainGoes("retry") /\ UNCHANGED sus
    /\ UNCHANGED <<hostVars, flagVars, scene, entered, fresh, attempted, retries, manual, heapVars,
                   radioVars, fullSpeed, mainUnchanged>>

\* A start refused for memory is tried again, at most RetryLimit times, each kRetryMs later.
RetryEligible ==
    /\ scene = "reader" /\ attempted /\ deferred /\ radio # "up" /\ ~inFlight
    /\ ~idleStopped /\ retries < RetryLimit
Retry ==
    /\ mpc = "retry" /\ MainGoes("start")
    /\ \/ RetryEligible /\ retries' = retries + 1 /\ attempted' = FALSE
       \/ RetryEligible /\ UNCHANGED <<retries, attempted>>
       \/ ~RetryEligible /\ retries' = (IF radio = "up" THEN 0 ELSE retries) /\ UNCHANGED attempted
    /\ UNCHANGED <<hostVars, flagVars, scene, entered, fresh, manual, seenHeld, heapVars, radioVars,
                   fullSpeed, mainUnchanged, sus>>

StartDecision ==
    /\ mpc = "start"
    /\ LET may == /\ ~attempted /\ radio # "stopping"
                  /\ IdleVerdict(enabled, storageBusy, scene = "reader", seenHeld, idleStopped) = "Ok"
       IN /\ attempted' = (attempted \/ may)
          /\ MainGoes(IF may /\ radio # "up" THEN "claim" ELSE "idle")
    /\ UNCHANGED <<hostVars, flagVars, scene, entered, fresh, retries, manual, seenHeld, heapVars, radioVars,
                   fullSpeed, mainUnchanged, sus>>

\* startAsync(): one start at a time, across tasks.
Claim ==
    /\ mpc = "claim" /\ idleStopped' = FALSE
    /\ deferred' = inFlight
    /\ inFlight' = TRUE
    /\ MainGoes(IF inFlight THEN "idle" ELSE "claimed")
    /\ UNCHANGED <<hostVars, cancelled, buildWaiting, rearm, held, connectReq, visitVars, heapVars, radioVars,
                   fullSpeed, mainUnchanged, sus>>
Claimed ==
    /\ mpc = "claimed"
    /\ IF radio # "off"
       THEN inFlight' = FALSE /\ deferred' = (radio # "up") /\ UNCHANGED cancelled /\ MainGoes("idle")
       ELSE cancelled' = FALSE /\ MainGoes("hold") /\ UNCHANGED <<inFlight, deferred>>
    /\ UNCHANGED <<hostVars, buildWaiting, idleStopped, rearm, held, connectReq, visitVars, heapVars,
                   radioVars, fullSpeed, mainUnchanged, sus>>
HoldClock ==
    /\ mpc = "hold" /\ MainGoes("spawn") /\ fullSpeed' = TRUE
    /\ UNCHANGED <<hostVars, flagVars, visitVars, heapVars, radioVars, mainUnchanged, sus>>
Spawn ==
    /\ mpc = "spawn" /\ MainGoes("idle")
    /\ spc' = "begin" /\ starter' = "task"
    /\ UNCHANGED <<hostVars, flagVars, visitVars, heapVars, radioVars, fullSpeed, lock, rpc, asked, upSeen, sus>>
SpawnFails ==
    /\ mpc = "spawn" /\ MainGoes("idle")
    /\ deferred' = TRUE /\ inFlight' = FALSE /\ fullSpeed' = FALSE
    /\ UNCHANGED <<hostVars, cancelled, buildWaiting, idleStopped, rearm, held, connectReq, visitVars,
                   heapVars, radioVars, mainUnchanged, sus>>

\* Nothing linked for kIdleOffMs: stopForIdle().
IdleStop ==
    /\ mpc = "idle" /\ ~inFlight /\ radio = "up"
    /\ RunningVerdict(enabled, storageBusy, ~linked) = "IdleNoLink"
    /\ idleStopped' = TRUE /\ deferred' = FALSE
    /\ Call("main") /\ MainGoes("serve")
    /\ UNCHANGED <<hostVars, inFlight, cancelled, buildWaiting, rearm, held, connectReq, visitVars, heapVars,
                   radioVars, fullSpeed, mainUnchanged>>
NoIdleStop ==
    /\ mpc = "idle" /\ SuspendGoes("main", "stopped") /\ MainGoes("serve")
    /\ UNCHANGED <<hostVars, flagVars, visitVars, heapVars, radioVars, fullSpeed, mainUnchanged>>
serveReader ==
    /\ mpc = "serve" /\ Suspended("main") /\ UNCHANGED sus
    /\ MainGoes("restart")
    /\ deferred' = (deferred /\ ~(scene = "reader" /\ ~inFlight /\ radio = "up"))
    /\ UNCHANGED <<hostVars, inFlight, cancelled, buildWaiting, idleStopped, rearm, held, connectReq,
                   visitVars, heapVars, radioVars, fullSpeed, mainUnchanged>>

\* Everything but the memo in RTC memory starts over, in the book.
Reboot(front) ==
    /\ UNCHANGED enabled
    /\ screen' = front /\ nav' = "none" /\ painted' = {} /\ parser' = FALSE /\ released' = FALSE
    /\ lock' = "free" /\ fullSpeed' = FALSE
    /\ inFlight' = FALSE /\ cancelled' = FALSE /\ buildWaiting' = FALSE /\ deferred' = FALSE
    /\ idleStopped' = FALSE /\ rearm' = FALSE /\ held' = FALSE /\ connectReq' = FALSE
    /\ scene' = "else" /\ entered' = FALSE /\ fresh' = TRUE
    /\ attempted' = FALSE /\ retries' = 0 /\ manual' = FALSE /\ seenHeld' = FALSE
    /\ inRow' = 0 /\ wanted' = FALSE
    /\ radio' = "off" /\ linked' = FALSE
    /\ mpc' = "pass" /\ rpc' = "idle" /\ spc' = "none" /\ starter' = "task"
    /\ asked' = FALSE /\ upSeen' = FALSE /\ sus' = [t \in Tasks |-> "no"]

\* The menu is a reader context too, so this may restart from it.
MayRestart == wanted /\ ~manual /\ enabled /\ attempted /\ scene = "reader" /\ ~busy
restartingUnspent == UNCHANGED spent
restarting == spent' = TRUE
Restart ==
    /\ mpc = "restart" /\ Suspended("main") /\ MayRestart
    /\ restarting /\ restarts' = restarts + 1
    /\ Reboot("reader")
NoRestart ==
    /\ mpc = "restart" /\ Returned("main") /\ ~MayRestart
    /\ MainGoes("loop")
    /\ UNCHANGED <<hostVars, flagVars, visitVars, heapVars, radioVars, fullSpeed, mainUnchanged>>

Tick ==
    \/ TakeScene \/ StepVisit \/ Look \/ Retry \/ StartDecision \/ Claim \/ Claimed \/ HoldClock
    \/ Spawn \/ SpawnFails \/ IdleStop \/ NoIdleStop \/ serveReader \/ Restart \/ NoRestart
-----------------------------------------------------------------------------
(* The rest of the pass: the reader's loop(), the user, the screen change. *)

\* The build's page is on screen and no parser is left: the radio may start again.
afterPaint == held' = FALSE /\ rearm' = (rearm \/ held)
BuildPainted == screen = "reader" /\ released /\ lock = "free" /\ ~parser
ReaderLoop ==
    /\ mpc = "loop" /\ MainGoes("buildTick")
    /\ IF BuildPainted THEN released' = FALSE /\ afterPaint ELSE UNCHANGED <<released, held, rearm>>
    /\ UNCHANGED <<enabled, screen, nav, painted, parser, inFlight, cancelled, buildWaiting, deferred,
                   idleStopped, connectReq, visitVars, heapVars, radioVars, fullSpeed, mainUnchanged, sus>>

\* backgroundBuildTick(), and the start of a partial chapter's extension: never next to the radio.
MayTickBuild == screen = "reader" /\ lock = "free" /\ ~holdsHeap
BackgroundBuild ==
    /\ mpc = "buildTick" /\ MainGoes("input")
    /\ \/ MayTickBuild /\ parser /\ parser' = FALSE
       \/ MayTickBuild /\ MayBuild /\ "reader" \in painted /\ parser' = TRUE
       \/ UNCHANGED parser
    /\ UNCHANGED <<enabled, screen, nav, painted, released, flagVars, visitVars, heapVars, radioVars, fullSpeed,
                   mainUnchanged, sus>>

NextScreens(s) ==
    CASE s = "home"   -> {"reader", "settings", "usb"}
      [] s = "reader" -> {"menu", "home"}
      [] s = "menu"   -> {"reader"}
      [] OTHER        -> {"home"}
NoInput ==
    /\ mpc = "input" /\ MainGoes("manager")
    /\ UNCHANGED <<hostVars, flagVars, visitVars, heapVars, radioVars, fullSpeed, mainUnchanged, sus>>
AskScreen ==
    /\ mpc = "input" /\ MainGoes("manager")
    /\ nav = "none" /\ nav' \in NextScreens(screen)
    /\ UNCHANGED <<enabled, screen, painted, parser, released, flagVars, visitVars, heapVars, radioVars, fullSpeed,
                   mainUnchanged, sus>>

\* EpubReaderMenuActivity::toggleBluetooth() and the switch in the settings; switchOff() stops the radio.
TurnOff ==
    /\ mpc = "input" /\ nav = "none" /\ screen \in {"menu", "settings"} /\ enabled
    /\ enabled' = FALSE /\ idleStopped' = FALSE /\ deferred' = FALSE
    /\ Call("main") /\ MainGoes("switchedOff")
    /\ UNCHANGED <<screen, nav, painted, parser, released, inFlight, cancelled, buildWaiting, rearm, held, connectReq,
                   visitVars, heapVars, radioVars, fullSpeed, mainUnchanged>>
SwitchedOff ==
    /\ mpc = "switchedOff" /\ Returned("main") /\ MainGoes("manager")
    /\ UNCHANGED <<hostVars, flagVars, visitVars, heapVars, radioVars, fullSpeed, mainUnchanged>>
TurnOnInMenu ==
    /\ mpc = "input" /\ nav = "none" /\ screen = "menu" /\ ~enabled
    /\ enabled' = TRUE /\ connectReq' = TRUE /\ MainGoes("manager")
    /\ UNCHANGED <<screen, nav, painted, parser, released, inFlight, cancelled, buildWaiting, deferred, idleStopped,
                   rearm, held, visitVars, heapVars, radioVars, fullSpeed, mainUnchanged, sus>>
TurnOnInSettings ==
    /\ mpc = "input" /\ nav = "none" /\ screen = "settings" /\ ~enabled
    /\ enabled' = TRUE /\ MainGoes("switchOn")
    /\ UNCHANGED <<screen, nav, painted, parser, released, flagVars, visitVars, heapVars, radioVars, fullSpeed,
                   mainUnchanged, sus>>
\* switchOn(): one start on the main task, which waits for it.
startSync ==
    /\ mpc = "switchOn"
    /\ idleStopped' = FALSE /\ deferred' = FALSE /\ inFlight' = TRUE
    /\ IF inFlight THEN MainGoes("pass") /\ UNCHANGED <<cancelled, fullSpeed, spc, starter>>
       ELSE /\ cancelled' = FALSE /\ fullSpeed' = TRUE
            /\ spc' = "begin" /\ starter' = "main" /\ MainGoes("sync")
    /\ UNCHANGED <<hostVars, buildWaiting, rearm, held, connectReq, visitVars, heapVars, radioVars, lock, rpc,
                   asked, upSeen, sus>>
StartedSync ==
    /\ mpc = "sync" /\ spc = "none" /\ MainGoes("pass")
    /\ UNCHANGED <<hostVars, flagVars, visitVars, heapVars, radioVars, fullSpeed, mainUnchanged, sus>>

\* ActivityManager::loop(): the radio gives its heap back before the next screen allocates.
beforeScreenChange ==
    /\ mpc = "manager"
    /\ IF nav = "none" THEN MainGoes("pass") /\ UNCHANGED sus ELSE MainGoes("leaving") /\ Call("main")
    /\ UNCHANGED <<hostVars, flagVars, visitVars, heapVars, radioVars, fullSpeed, mainUnchanged>>
NotYet ==
    /\ mpc = "leaving" /\ sus["main"] = "pending" /\ SuspendGoes("main", "no") /\ MainGoes("pass")
    /\ UNCHANGED <<hostVars, flagVars, visitVars, heapVars, radioVars, fullSpeed, mainUnchanged>>
ReaderGone == nav = "home" /\ screen = "reader"
ChangeScreen ==
    /\ mpc = "leaving" /\ sus["main"] = "stopped" /\ lock = "free"
    /\ SuspendGoes("main", "no")
    /\ screen' = nav /\ nav' = "none" /\ fresh' = TRUE
    /\ painted' = IF ReaderGone THEN {} ELSE painted \ {"menu"}
    /\ parser' = (parser /\ ~ReaderGone)
    /\ IF ReaderGone /\ released THEN released' = FALSE /\ afterPaint ELSE UNCHANGED <<released, held, rearm>>
    /\ MainGoes(IF nav = "settings" /\ enabled THEN "switchOn" ELSE "pass")
    /\ UNCHANGED <<enabled, inFlight, cancelled, buildWaiting, deferred, idleStopped, connectReq, scene, entered,
                   attempted, retries, manual, seenHeld, heapVars, radioVars, fullSpeed, mainUnchanged>>

\* enterDeepSleep(): beforeSleep(2000) asks over and over; a start takes longer than that on some
\* devices (2.85 s, RadioPolicy.h), so it may give up on any radio.  The chip sleeps either way.
AskSleep ==
    /\ mpc = "input" /\ MainGoes("sleeping") /\ Call("main")
    /\ UNCHANGED <<hostVars, flagVars, visitVars, heapVars, radioVars, fullSpeed, mainUnchanged>>
stopNow ==
    /\ mpc = "sleeping" /\ sus["main"] = "pending"
    /\ \/ Call("main") /\ UNCHANGED mpc
       \/ SuspendGoes("main", "no") /\ MainGoes("asleep")
    /\ UNCHANGED <<hostVars, flagVars, visitVars, heapVars, radioVars, fullSpeed, mainUnchanged>>
\* The events of the sleep go out over Wi-Fi, unless beforeSleep() gave up.
Stopped ==
    /\ mpc = "sleeping" /\ sus["main"] = "stopped" /\ SuspendGoes("main", "no") /\ MainGoes("delivering")
    /\ UNCHANGED <<hostVars, flagVars, visitVars, heapVars, radioVars, fullSpeed, mainUnchanged>>
deliverSleepPluginEvents ==
    /\ mpc = "delivering" /\ MainGoes("asleep")
    /\ UNCHANGED <<hostVars, flagVars, visitVars, heapVars, radioVars, fullSpeed, mainUnchanged, sus>>
Wake == mpc = "asleep" /\ Reboot("home") /\ UNCHANGED <<spent, restarts>>

App ==
    \/ ReaderLoop \/ BackgroundBuild \/ NoInput \/ AskScreen \/ TurnOff \/ SwitchedOff \/ TurnOnInMenu
    \/ TurnOnInSettings \/ startSync \/ StartedSync \/ beforeScreenChange \/ NotYet \/ ChangeScreen
    \/ AskSleep \/ stopNow \/ Stopped \/ deliverSleepPluginEvents \/ Wake
-----------------------------------------------------------------------------
(* The render task: renderBook() and the chapter build inside it, all of   *)
(* it under the render lock.                                               *)

RenderGoes(step) == rpc' = step
renderUnchanged == <<visitVars, heapVars, radioVars, mpc, spc, starter>>
flagsButWaiting == <<inFlight, cancelled, deferred, idleStopped, rearm, held, connectReq>>

RenderMenu ==
    /\ screen = "menu" /\ rpc = "idle" /\ lock = "free"
    /\ painted' = painted \cup {"menu"}
    /\ UNCHANGED <<enabled, screen, nav, parser, released, flagVars, renderUnchanged, lock, fullSpeed, rpc, asked, upSeen, sus>>
RenderBook ==
    /\ screen = "reader" /\ rpc = "idle" /\ lock = "free"
    /\ lock' = "render" /\ RenderGoes("settle")
    /\ UNCHANGED <<hostVars, flagVars, renderUnchanged, fullSpeed, asked, upSeen, sus>>

\* settleStart(): wait for a start in flight; one that still needs the lock gives up its turn.
SettledTo(step) ==
    /\ inFlight => (buildWaiting /\ SlowRadio)
    /\ buildWaiting' = FALSE /\ RenderGoes(step)
    /\ UNCHANGED <<hostVars, flagsButWaiting, renderUnchanged, lock, fullSpeed, asked, upSeen, sus>>
SettleWaits ==
    /\ rpc \in {"settle", "askSettle"} /\ inFlight /\ ~buildWaiting
    /\ buildWaiting' = TRUE
    /\ UNCHANGED <<hostVars, flagsButWaiting, renderUnchanged, lock, fullSpeed, rpc, asked, upSeen, sus>>
SettleForPaint == rpc = "settle" /\ SettledTo("page")
SettleForBuild == rpc = "askSettle" /\ SettledTo("askCheck")

Painted ==
    /\ rpc \in {"page", "build"} /\ RenderGoes("idle") /\ lock' = "free"
    /\ painted' = painted \cup {"reader"}
    /\ parser' \in (IF rpc = "build" THEN BOOLEAN ELSE {parser})
    /\ UNCHANGED <<enabled, screen, nav, released, flagVars, renderUnchanged, fullSpeed, asked, upSeen, sus>>
NeedsChapter ==
    /\ rpc = "page" /\ MayBuild /\ RenderGoes("room") /\ asked' = FALSE
    /\ parser' \in {parser, FALSE}
    /\ UNCHANGED <<enabled, screen, nav, painted, released, flagVars, renderUnchanged, lock, fullSpeed, upSeen, sus>>

\* makeRoomForChapterBuild(): roomMade.
MakeRoom ==
    /\ rpc = "room" /\ asked' = TRUE
    /\ RenderGoes(IF ~released /\ (~asked \/ ~inFlight) THEN "ask" ELSE "status")
    /\ UNCHANGED <<hostVars, flagVars, renderUnchanged, lock, fullSpeed, upSeen, sus>>
\* beforeChapterBuild()
beforeChapterBuild ==
    /\ rpc = "ask"
    /\ RenderGoes(IF ~enabled \/ idleStopped \/ held THEN "status" ELSE "askSettle")
    /\ UNCHANGED <<hostVars, flagVars, renderUnchanged, lock, fullSpeed, asked, upSeen, sus>>
HoldForBuild ==
    /\ rpc = "askCheck"
    /\ IF inFlight THEN RenderGoes("status") /\ UNCHANGED <<held, deferred, sus>>
       ELSE RenderGoes("stop") /\ held' = TRUE /\ deferred' = FALSE /\ Call("render")
    /\ UNCHANGED <<hostVars, inFlight, cancelled, buildWaiting, idleStopped, rearm, connectReq, renderUnchanged, lock,
                   fullSpeed, asked, upSeen>>
StopAgain ==
    /\ rpc = "stop" /\ sus["render"] = "pending" /\ Call("render")
    /\ UNCHANGED <<hostVars, flagVars, renderUnchanged, lock, fullSpeed, rpc, asked, upSeen>>
StopDone ==
    /\ rpc = "stop" /\ sus["render"] \in {"stopped"} \cup (IF SlowRadio THEN {"pending"} ELSE {})
    /\ SuspendGoes("render", "no")
    /\ released' = TRUE /\ RenderGoes("status")
    /\ UNCHANGED <<enabled, screen, nav, painted, parser, flagVars, renderUnchanged, lock, fullSpeed, asked, upSeen>>

\* chapterBuildMayRun(status()): running and stopping are read first, starting after them.
StatusUp ==
    /\ rpc = "status" /\ RenderGoes("status2") /\ upSeen' = (radio # "off")
    /\ UNCHANGED <<hostVars, flagVars, renderUnchanged, lock, fullSpeed, asked, sus>>
chapterBuildMayRunUp(up, starting) == ~starting
chapterBuildMayRun(up, starting) == ~up /\ ~starting
StatusStarting ==
    /\ rpc = "status2" /\ RenderGoes(IF chapterBuildMayRun(upSeen, inFlight) THEN "build" ELSE "nap")
    /\ upSeen' = FALSE
    /\ UNCHANGED <<hostVars, flagVars, renderUnchanged, lock, fullSpeed, asked, sus>>
AskRoomAgain ==
    /\ rpc = "nap" /\ RenderGoes("room")
    /\ UNCHANGED <<hostVars, flagVars, renderUnchanged, lock, fullSpeed, asked, upSeen, sus>>
\* BUILD_ROOM_WAIT_MS went by.  Only a slow radio lasts that long, a start that waits for the lock, or a
\* radio that came up after it was asked to stop, which `released` says need not be asked again.
WaitsForLock == inFlight /\ spc = "cache"
NotAskedAgain == radio = "up" /\ ~inFlight /\ released
RoomRefused ==
    /\ rpc = "nap" /\ (SlowRadio \/ WaitsForLock \/ NotAskedAgain)
    /\ RenderGoes("idle") /\ lock' = "free" /\ parser' = FALSE
    /\ UNCHANGED <<enabled, screen, nav, painted, released, flagVars, renderUnchanged, fullSpeed, asked, upSeen, sus>>

Render ==
    \/ RenderMenu \/ RenderBook \/ SettleWaits \/ SettleForPaint \/ SettleForBuild \/ Painted \/ NeedsChapter
    \/ MakeRoom \/ beforeChapterBuild \/ HoldForBuild \/ StopAgain \/ StopDone \/ StatusUp \/ StatusStarting
    \/ AskRoomAgain \/ RoomRefused

Next == Tick \/ App \/ Start \/ Render \/ suspend("main") \/ suspend("render") \/ StopFinishes \/ Link
Spec == Init /\ [][Next]_vars

\* The scheduler runs every task; a paint, a start and a stop of the stack end; the main task gets the
\* lock it blocks on; a background build makes progress whenever it is stepped; the wait for room
\* has an end.  Nothing obliges the user to act.
FinishBuild == mpc = "buildTick" /\ parser /\ BackgroundBuild /\ ~parser'
FairSpec ==
    /\ Spec
    /\ WF_vars(Tick \/ App) /\ WF_vars(Start) /\ WF_vars(Render /\ lock = "render")
    /\ WF_vars(suspend("main")) /\ WF_vars(suspend("render")) /\ WF_vars(StopFinishes)
    /\ SF_vars(ChangeScreen) /\ SF_vars(FinishBuild) /\ SF_vars(RoomRefused)
-----------------------------------------------------------------------------
(* Properties.                                                             *)

\* Types.
TypeOK ==
    /\ enabled \in BOOLEAN /\ screen \in Screens /\ nav \in Screens \cup {"none"}
    /\ painted \subseteq {"reader", "menu"} /\ parser \in BOOLEAN /\ released \in BOOLEAN
    /\ lock \in {"free", "render"} /\ fullSpeed \in BOOLEAN
    /\ <<inFlight, cancelled, buildWaiting, deferred, idleStopped, rearm, held, connectReq>> \in
         BOOLEAN \X BOOLEAN \X BOOLEAN \X BOOLEAN \X BOOLEAN \X BOOLEAN \X BOOLEAN \X BOOLEAN
    /\ scene \in {"reader", "else"} /\ entered \in BOOLEAN /\ fresh \in BOOLEAN
    /\ attempted \in BOOLEAN /\ retries \in 0..RetryLimit /\ manual \in BOOLEAN /\ seenHeld \in BOOLEAN
    /\ inRow \in 0..RefusalsBeforeRestart /\ wanted \in BOOLEAN /\ spent \in BOOLEAN /\ restarts \in Nat
    /\ radio \in {"off", "up", "stopping"} /\ linked \in BOOLEAN
    /\ mpc \in MainPcs /\ rpc \in RenderPcs /\ spc \in StartPcs /\ starter \in {"main", "task"}
    /\ asked \in BOOLEAN /\ upSeen \in BOOLEAN /\ sus \in [Tasks -> SuspendPcs]

\* settleStart() and the tried render lock: no page is painted while a stack comes up, so stack and
\* page never take the heap at once.
PaintsAlone == rpc \in {"page", "build"} => spc \notin PastLock

\* chapterBuildMayRun(): a chapter is built only with the radio down.
BuildsAlone == rpc = "build" => radio = "off"

\* suspend() looks at inFlight before it stops the stack: nobody but the start itself ends a stack
\* that a start is bringing up ("the start task owns its allocations").
NoStopDuringStart == \A t \in Tasks : sus[t] \in {"look", "end"} => spc \notin PastLock

\* The memo in RTC memory: at most one heap restart until the radio comes up, sleeps and
\* restarts in between included.
OneRestart == restarts <= 1

\* "Stop Bluetooth before plugin delivery can start WiFi; a timeout defers delivery": while the
\* events of a sleep are delivered no stack is up or stopping and no start is under way, however
\* long a start or a stop took and wherever the start task was when beforeSleep() asked.
DeliversWithoutBluetooth == mpc = "delivering" => radio = "off" /\ spc = "none"

\* beforeScreenChange(): a stop that spans passes, a start in flight or a build delays the next
\* screen, and never for good.
ScreenComes == nav # "none" ~> nav = "none" \/ mpc = "asleep"

\* The render task waits for a start that waits for its lock, the main task waits for the lock: no
\* page and no build keeps it for good.
LockComesBack == lock = "render" ~> lock = "free"

\* A radio stopped for a build is held down only until the page is up or the visit is over: once no
\* more pages are asked for, the hold ends.
HoldEnds == <>[](rpc = "idle") => (held ~> ~held \/ mpc = "asleep")

\* BlePageTurner.h: "Keep the CPU at full speed while the radio is up or changing state."
FullSpeedWhileUp == radio # "off" => fullSpeed

\* main.cpp:360: the radio need not wait for the book, "the reader keeps no parser alive between
\* pages": no stack is brought up beside a chapter's parser.
NoStackBesideParser == spc = "stack" => ~parser

\* BlePageTurner.h:20-23: a build never waits for a start that still needs the render lock it holds; so
\* no chapter is refused on account of one.
NoRefusalForTheLock == [][RoomRefused => ~WaitsForLock]_vars
=============================================================================
