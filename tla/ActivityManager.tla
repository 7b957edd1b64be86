--------------------------- MODULE ActivityManager ---------------------------
(***************************************************************************)
(* Screen navigation and rendering of the firmware: the ActivityManager    *)
(* singleton, driven by the main (Arduino loop) task, and its render task. *)
(*                                                                         *)
(* The main task runs ActivityManager::loop() over and over; loop() calls  *)
(* into the foreground activity, then carries out the navigation request   *)
(* that activity left behind, then wakes the render task.  The two tasks   *)
(* meet at one mutex (RenderLock), two task notifications, the handle of   *)
(* the task blocked in requestUpdateAndWait() and two atomics.  A step     *)
(* here is what one task does between two such meeting points.             *)
(***************************************************************************)
EXTENDS Naturals, Sequences, Functions

CONSTANTS
    Activities,      \* slots for Activity objects; a slot is reused once its object is destroyed
    KindOf,          \* what kind of screen a slot holds
    None,            \* the null pointer
    MaxVisits,       \* bound: screen changes the user asks for
    RadioBuild,      \* the build carries the page turner, whose radio can delay a screen change
    SplashBoot       \* setup() went through BootActivity

\* "menu" stands for every screen an activity starts for a result.
Kinds == {"boot", "home", "reader", "menu", "panel", "sleep", "usb"}

ASSUME ConstantsAssumption ==
    /\ KindOf \in [Activities -> Kinds]
    /\ None \notin Activities
    /\ MaxVisits \in Nat
    /\ RadioBuild \in BOOLEAN
    /\ SplashBoot \in BOOLEAN

VARIABLES
    currentActivity, stackActivities, pendingActivity, pendingAction,
    resultHandler,       \* per activity: the child its handler was registered for, or None
    live,                \* slots holding a constructed object
    requestedUpdate, screenVisit, paintedVisit,
    mutex,               \* holder of renderingMutex
    waitingTask,         \* waitingTaskHandle names the main task
    renderNote, mainNote, \* pending task notifications
    mpc, after,          \* main task: where it is; where the running callback returns to
    navigated,           \* the running callback has already asked for a screen change
    sleeping,            \* loop() was called by goToSleep()
    rpc, rendering, renderingVisit,  \* render task
    shown,               \* the activity whose frame the panel got last
    panelFresh, frameFresh, \* that frame / the one being drawn shows the current state
    owed                 \* a requested render has not begun yet

navVars  == <<currentActivity, stackActivities, pendingActivity, pendingAction,
              resultHandler, live, screenVisit>>
mainVars == <<mpc, after, navigated, sleeping>>
drawVars == <<rpc, rendering, renderingVisit>>
panelVars == <<shown, panelFresh, frameFresh>>
vars == <<navVars, mainVars, drawVars, panelVars, requestedUpdate, paintedVisit,
          mutex, waitingTask, renderNote, mainNote, owed>>

Actions == {"None", "Push", "Pop", "Replace", "ReplaceForSleep"}
MainPcs == {"outside", "entry", "callback", "waitSet", "wait", "while", "lock", "pop",
            "goHome", "swap", "off"}
RenderPcs == {"take", "lock", "draw", "publish", "signal", "notify", "unlock"}
Returns == {"while", "afterHandler", "exclusive"}

StackSet == Range(stackActivities)
Fresh == Activities \ live

\* The foreground activity is one of these kinds.
Front(kinds) == currentActivity # None /\ KindOf[currentActivity] \in kinds

(***************************************************************************)
(* setup(): the first activity is launched at once because there is no     *)
(* current one.  With the splash it is BootActivity, and the home screen   *)
(* that follows is a pending Replace; on a splashless wake it is Home.     *)
(***************************************************************************)
Init ==
    /\ IF SplashBoot
       THEN \E b, h \in Activities :
              /\ KindOf[b] = "boot" /\ KindOf[h] = "home"
              /\ currentActivity = b /\ pendingActivity = h /\ live = {b, h}
              /\ pendingAction = "Replace" /\ requestedUpdate = FALSE
       ELSE \E h \in Activities :
              /\ KindOf[h] = "home"
              /\ currentActivity = h /\ pendingActivity = None /\ live = {h}
              /\ pendingAction = "None" /\ requestedUpdate = TRUE
    /\ stackActivities = <<>>
    /\ resultHandler = [a \in Activities |-> None]
    /\ screenVisit = 0 /\ paintedVisit = 0
    /\ mutex = "free" /\ waitingTask = FALSE /\ renderNote = FALSE /\ mainNote = 0
    /\ mpc = "outside" /\ after = "while" /\ navigated = FALSE /\ sleeping = FALSE
    /\ rpc = "take" /\ rendering = None /\ renderingVisit = 0
    /\ shown = None /\ panelFresh = FALSE /\ frameFresh = FALSE
    /\ owed = requestedUpdate

-----------------------------------------------------------------------------
(* Requests.  Each is the effect of one public method on its variables.    *)

\* The state render() reads changed: neither the panel nor a frame being drawn shows it.
StateChanged == panelFresh' = FALSE /\ frameFresh' = FALSE

\* Objects destroyed: their handlers die with them, their frame is nobody's.
Destroy(gone, base) ==
    /\ live' = base \ gone
    /\ shown' = IF shown \in gone THEN None ELSE shown

\* The object that `pendingActivity` owned, if it is overwritten or reset.
Dropped == IF pendingActivity = None THEN {} ELSE {pendingActivity}

replaceActivity(a) ==
    /\ pendingActivity' = a
    /\ pendingAction' = "Replace"
    /\ Destroy(Dropped, live \cup {a})

pushActivityLeaking(a) ==
    /\ pendingActivity' = a
    /\ pendingAction' = "Push"
    /\ Destroy({}, live \cup {a})
pushActivity(a) ==
    /\ pendingActivity' = a
    /\ pendingAction' = "Push"
    /\ Destroy(Dropped, live \cup {a})

popActivity ==
    /\ pendingActivity' = None
    /\ pendingAction' = "Pop"
    /\ Destroy(Dropped, live)

requestUpdate == requestedUpdate' = TRUE /\ owed' = TRUE

\* RenderLock: a mutex taken without a time limit.
AcquireUnchecked(task) == mutex' = task
Acquire(task) == mutex = "free" /\ mutex' = task

\* A bound on the run, not a guard of the code: the user asks for so many screens.
MayNavigate == screenVisit < MaxVisits

-----------------------------------------------------------------------------
(* The main task between two calls of loop(), in main.cpp.                 *)

\* main.cpp: a USB plug event (not while a book is open), or any other caller.
OutsideRequest ==
    /\ mpc = "outside"
    /\ requestUpdate
    /\ UNCHANGED <<navVars, mainVars, drawVars, panelVars, paintedVisit, mutex,
                   waitingTask, renderNote, mainNote>>

isForegroundReader ==
    pendingAction = "None" /\ Front({"reader"})

isForegroundHomeShown ==
    /\ pendingAction = "None" /\ Front({"home"})
    /\ paintedVisit = screenVisit

\* A page turn from a Bluetooth remote: only onto a page already on the panel,
\* and not while the render mutex is busy (RenderLock::peek).
remoteTurn ==
    /\ mpc = "outside" /\ RadioBuild
    /\ isForegroundReader /\ shown = currentActivity /\ mutex = "free"
    /\ StateChanged /\ requestUpdate
    /\ UNCHANGED <<navVars, mainVars, drawVars, shown, paintedVisit, mutex,
                   waitingTask, renderNote, mainNote>>

CallLoop ==
    /\ mpc = "outside" /\ mpc' = "entry"
    /\ UNCHANGED <<navVars, after, navigated, sleeping, drawVars, panelVars, requestedUpdate,
                   paintedVisit, mutex, waitingTask, renderNote, mainNote, owed>>

\* enterDeepSleep(): unreachable while a screen owns the raw SD card.
goToSleep ==
    /\ mpc = "outside" /\ ~Front({"usb"})
    /\ \E s \in Fresh :
         /\ KindOf[s] = "sleep"
         /\ pendingActivity' = s
         /\ Destroy(Dropped, live \cup {s})
    /\ pendingAction' = "ReplaceForSleep"
    /\ mpc' = "entry" /\ sleeping' = TRUE
    /\ UNCHANGED <<currentActivity, stackActivities, resultHandler, screenVisit, after,
                   navigated, drawVars, panelFresh, frameFresh, requestedUpdate,
                   paintedVisit, mutex, waitingTask, renderNote, mainNote, owed>>

\* loop() returns: to main.cpp's loop, or to enterDeepSleep(), which powers down.
LoopReturns == mpc' = IF sleeping THEN "off" ELSE "outside"

-----------------------------------------------------------------------------
(* loop(), from its entry to the foreground activity's own loop().         *)

\* A suppressed button release ends the pass before anything else.
SuppressedRelease ==
    /\ mpc = "entry" /\ LoopReturns
    /\ UNCHANGED <<navVars, after, navigated, sleeping, drawVars, panelVars, requestedUpdate,
                   paintedVisit, mutex, waitingTask, renderNote, mainNote, owed>>

ExclusiveLoop ==
    /\ mpc = "entry" /\ Front({"usb"})
    /\ mpc' = "callback" /\ after' = "exclusive" /\ navigated' = FALSE
    /\ UNCHANGED <<navVars, sleeping, drawVars, panelVars, requestedUpdate,
                   paintedVisit, mutex, waitingTask, renderNote, mainNote, owed>>

\* handleHomeGesture(): the panel, the reader menu and clip selection close themselves;
\* the others but Home go home.
HomeGesture ==
    /\ mpc = "entry" /\ Front(Kinds \ {"usb", "home"}) /\ MayNavigate
    /\ \/ Front({"panel", "menu"}) /\ popActivity
       \/ \E h \in Fresh : KindOf[h] = "home" /\ replaceActivity(h)
    /\ LoopReturns
    /\ UNCHANGED <<currentActivity, stackActivities, resultHandler, screenVisit, after,
                   navigated, sleeping, drawVars, panelFresh, frameFresh, requestedUpdate,
                   paintedVisit, mutex, waitingTask, renderNote, mainNote, owed>>

LightPanelGesture ==
    /\ mpc = "entry" /\ Front(Kinds \ {"usb", "panel"}) /\ MayNavigate
    /\ \E p \in Fresh : KindOf[p] = "panel" /\ pushActivity(p)
    /\ LoopReturns
    /\ UNCHANGED <<currentActivity, stackActivities, resultHandler, screenVisit, after,
                   navigated, sleeping, drawVars, panelFresh, frameFresh, requestedUpdate,
                   paintedVisit, mutex, waitingTask, renderNote, mainNote, owed>>

ActivityLoop ==
    /\ mpc = "entry" /\ Front(Kinds \ {"usb"})
    /\ mpc' = "callback" /\ after' = "while" /\ navigated' = FALSE
    /\ UNCHANGED <<navVars, sleeping, drawVars, panelVars, requestedUpdate,
                   paintedVisit, mutex, waitingTask, renderNote, mainNote, owed>>

-----------------------------------------------------------------------------
(* What the foreground activity may do inside loop(), onEnter() or a       *)
(* result handler.  Every callback runs on the main task.                  *)

InCallback == mpc = "callback"
\* One screen change per callback; USB Drive leaves by restarting, Boot and Sleep never ask.
CallbackNavigates ==
    InCallback /\ ~navigated /\ MayNavigate /\ Front(Kinds \ {"usb", "boot", "sleep"})

TakeRenderLock ==
    /\ InCallback /\ Acquire("main")
    /\ UNCHANGED <<navVars, mainVars, drawVars, panelVars, requestedUpdate,
                   paintedVisit, waitingTask, renderNote, mainNote, owed>>

DropRenderLock ==
    /\ InCallback /\ mutex = "main" /\ mutex' = "free"
    /\ UNCHANGED <<navVars, mainVars, drawVars, panelVars, requestedUpdate,
                   paintedVisit, waitingTask, renderNote, mainNote, owed>>

\* An activity changes what its render() reads, under a RenderLock or (ChapterTranslationActivity
\* .cpp:210, BookTranslationActivity.cpp:237) without one, also while a frame is being drawn.
ChangeState ==
    /\ InCallback /\ StateChanged
    /\ UNCHANGED <<navVars, mainVars, drawVars, shown, requestedUpdate,
                   paintedVisit, mutex, waitingTask, renderNote, mainNote, owed>>

CallbackRequest ==
    /\ InCallback /\ requestUpdate
    /\ UNCHANGED <<navVars, mainVars, drawVars, panelVars, paintedVisit, mutex,
                   waitingTask, renderNote, mainNote>>

\* requestUpdate(true): no flag, the render task is notified at once.
CallbackRequestNow ==
    /\ InCallback /\ renderNote' = TRUE /\ owed' = TRUE
    /\ UNCHANGED <<navVars, mainVars, drawVars, panelVars, requestedUpdate, paintedVisit,
                   mutex, waitingTask, mainNote>>

startActivityForResult ==
    /\ CallbackNavigates
    /\ \E c \in Fresh :
         /\ KindOf[c] = "menu"
         /\ pushActivity(c)
         /\ resultHandler' = [resultHandler EXCEPT ![currentActivity] = c]
    /\ navigated' = TRUE
    /\ UNCHANGED <<currentActivity, stackActivities, screenVisit, mpc, after, sleeping, drawVars,
                   panelFresh, frameFresh, requestedUpdate, paintedVisit, mutex,
                   waitingTask, renderNote, mainNote, owed>>

finish ==
    /\ CallbackNavigates
    /\ popActivity
    /\ navigated' = TRUE
    /\ UNCHANGED <<currentActivity, stackActivities, resultHandler, screenVisit, mpc, after,
                   sleeping, drawVars, panelFresh, frameFresh, requestedUpdate,
                   paintedVisit, mutex, waitingTask, renderNote, mainNote, owed>>

\* goHome(), goToReader(), goToUsbDrive() and the other goTo... wrappers.
CallbackReplaces ==
    /\ CallbackNavigates
    /\ \E a \in Fresh : KindOf[a] \in {"home", "reader", "usb"} /\ replaceActivity(a)
    /\ navigated' = TRUE
    /\ UNCHANGED <<currentActivity, stackActivities, resultHandler, screenVisit, mpc, after,
                   sleeping, drawVars, panelFresh, frameFresh, requestedUpdate,
                   paintedVisit, mutex, waitingTask, renderNote, mainNote, owed>>

-----------------------------------------------------------------------------
(* requestUpdateAndWait(): register under the spinlock, notify, block.     *)
(* Its documented precondition: not while holding a RenderLock.  Its       *)
(* callers are screens opened for a result and USB Drive.                  *)

WaitRegister ==
    /\ InCallback /\ mutex # "main" /\ Front({"menu", "usb"})
    /\ waitingTask' = TRUE /\ mpc' = "waitSet" /\ owed' = TRUE
    /\ UNCHANGED <<navVars, after, navigated, sleeping, drawVars, panelVars,
                   requestedUpdate, paintedVisit, mutex, renderNote, mainNote>>

WaitNotifyDeferred ==
    /\ mpc = "waitSet" /\ requestedUpdate' = TRUE /\ mpc' = "wait"
    /\ UNCHANGED <<navVars, after, navigated, sleeping, drawVars, panelVars,
                   renderNote, paintedVisit, mutex, waitingTask, mainNote, owed>>
WaitNotify ==
    /\ mpc = "waitSet" /\ renderNote' = TRUE /\ mpc' = "wait"
    /\ UNCHANGED <<navVars, after, navigated, sleeping, drawVars, panelVars,
                   requestedUpdate, paintedVisit, mutex, waitingTask, mainNote, owed>>

WaitReturn ==
    /\ mpc = "wait" /\ mainNote > 0
    /\ mainNote' = 0 /\ mpc' = "callback"
    /\ UNCHANGED <<navVars, after, navigated, sleeping, drawVars, panelVars,
                   requestedUpdate, paintedVisit, mutex, waitingTask, renderNote, owed>>

-----------------------------------------------------------------------------
(* The callback returns, any RenderLock of its own released.               *)

notifyRender ==
    /\ renderNote' = (renderNote \/ requestedUpdate)
    /\ requestedUpdate' = FALSE

ReturnToWhile ==
    /\ InCallback /\ mutex # "main" /\ after = "while"
    /\ mpc' = "while"
    /\ UNCHANGED <<navVars, after, navigated, sleeping, drawVars, panelVars, requestedUpdate,
                   paintedVisit, mutex, waitingTask, renderNote, mainNote, owed>>

\* After a result handler: repaint the parent unless it asked to leave.
ReturnFromHandler ==
    /\ InCallback /\ mutex # "main" /\ after = "afterHandler"
    /\ IF pendingAction = "None" THEN requestUpdate ELSE UNCHANGED <<requestedUpdate, owed>>
    /\ mpc' = "while"
    /\ UNCHANGED <<navVars, after, navigated, sleeping, drawVars, panelVars,
                   paintedVisit, mutex, waitingTask, renderNote, mainNote>>

\* The exclusive-storage pass wakes the render task and ends; pending actions stay put.
ReturnFromExclusiveSilent ==
    /\ InCallback /\ mutex # "main" /\ after = "exclusive"
    /\ LoopReturns
    /\ UNCHANGED <<navVars, after, navigated, sleeping, drawVars, panelVars, requestedUpdate,
                   paintedVisit, mutex, waitingTask, renderNote, mainNote, owed>>
ReturnFromExclusive ==
    /\ InCallback /\ mutex # "main" /\ after = "exclusive"
    /\ notifyRender /\ LoopReturns
    /\ UNCHANGED <<navVars, after, navigated, sleeping, drawVars, panelVars,
                   paintedVisit, mutex, waitingTask, mainNote, owed>>

\* USB Drive restarts the device instead of navigating.
UsbRestart ==
    /\ InCallback /\ mutex # "main" /\ after = "exclusive"
    /\ mpc' = "off"
    /\ UNCHANGED <<navVars, after, navigated, sleeping, drawVars, panelVars, requestedUpdate,
                   paintedVisit, mutex, waitingTask, renderNote, mainNote, owed>>

-----------------------------------------------------------------------------
(* The while loop over the pending action.                                 *)

\* beforeScreenChange() answered false: the radio is still shutting down.
RadioBusy ==
    /\ mpc = "while" /\ RadioBuild /\ pendingAction \notin {"None", "ReplaceForSleep"}
    /\ LoopReturns
    /\ UNCHANGED <<navVars, after, navigated, sleeping, drawVars, panelVars, requestedUpdate,
                   paintedVisit, mutex, waitingTask, renderNote, mainNote, owed>>

\* It answered true, or was not asked (no radio, or going to sleep).
ScreenMayChange ==
    /\ mpc = "while" /\ pendingAction # "None"
    /\ mpc' = "lock"
    /\ UNCHANGED <<navVars, after, navigated, sleeping, drawVars, panelVars, requestedUpdate,
                   paintedVisit, mutex, waitingTask, renderNote, mainNote, owed>>

LockForPending ==
    /\ mpc = "lock" /\ Acquire("main")
    /\ \/ pendingAction = "Pop" /\ mpc' = "pop"
       \/ pendingAction # "Pop" /\ pendingActivity # None /\ mpc' = "swap"
    /\ UNCHANGED <<navVars, after, navigated, sleeping, drawVars, panelVars, requestedUpdate,
                   paintedVisit, waitingTask, renderNote, mainNote, owed>>

LeaveUncounted(gone) == Destroy(gone, live) /\ StateChanged /\ UNCHANGED screenVisit
Leave(gone) ==
    /\ Destroy(gone, live)
    /\ screenVisit' = screenVisit + 1
    /\ StateChanged

\* The last activity of the stack finished: destroy it, release the lock, go home.
PopLast ==
    /\ mpc = "pop" /\ currentActivity # None /\ stackActivities = <<>>
    /\ Leave({currentActivity})
    /\ resultHandler' = [resultHandler EXCEPT ![currentActivity] = None]
    /\ currentActivity' = None /\ pendingAction' = "None"
    /\ mutex' = "free" /\ mpc' = "goHome"
    /\ UNCHANGED <<stackActivities, pendingActivity, after, navigated, sleeping, drawVars,
                   requestedUpdate, paintedVisit, waitingTask, renderNote, mainNote, owed>>

\* goHome() with no current activity launches Home at once, outside the render lock.
goHome ==
    /\ mpc = "goHome"
    /\ \E h \in Fresh :
         KindOf[h] = "home" /\ currentActivity' = h /\ live' = live \cup {h}
    /\ mpc' = "callback" /\ after' = "while" /\ navigated' = FALSE
    /\ UNCHANGED <<stackActivities, pendingActivity, pendingAction, resultHandler, screenVisit,
                   sleeping, drawVars, panelVars, requestedUpdate, paintedVisit, mutex,
                   waitingTask, renderNote, mainNote, owed>>

Top == stackActivities[Len(stackActivities)]
BelowWithTop == stackActivities
Below == SubSeq(stackActivities, 1, Len(stackActivities) - 1)

HandlerCopied == [resultHandler EXCEPT ![currentActivity] = None]
HandlerTaken == [resultHandler EXCEPT ![Top] = None, ![currentActivity] = None]

\* The parent comes back; a handler it left is moved out and run without the lock,
\* with the result of the activity just destroyed.
PopToParent ==
    /\ mpc = "pop" /\ currentActivity # None /\ stackActivities # <<>>
    /\ Leave({currentActivity})
    /\ currentActivity' = Top /\ stackActivities' = Below
    /\ pendingAction' = "None"
    /\ resultHandler' = HandlerTaken
    /\ IF resultHandler[Top] # None
       THEN /\ mpc' = "callback" /\ after' = "afterHandler" /\ navigated' = FALSE
            /\ UNCHANGED <<requestedUpdate, owed>>
       ELSE mpc' = "while" /\ requestUpdate /\ UNCHANGED <<after, navigated>>
    /\ mutex' = "free"
    /\ UNCHANGED <<pendingActivity, sleeping, drawVars, paintedVisit,
                   waitingTask, renderNote, mainNote>>

\* Replace and ReplaceForSleep destroy everything; Push keeps the parent on the stack.
SwapEnds == pendingActivity' = None /\ pendingAction' = "None"

Swap ==
    /\ mpc = "swap"
    /\ IF pendingAction = "Push"
       THEN /\ stackActivities' = Append(stackActivities, currentActivity)
            /\ Leave({}) /\ UNCHANGED resultHandler
       ELSE /\ stackActivities' = <<>>
            /\ Leave(StackSet \cup {currentActivity})
            /\ resultHandler' = [a \in Activities |->
                  IF a \in StackSet \cup {currentActivity} THEN None ELSE resultHandler[a]]
    /\ currentActivity' = pendingActivity /\ SwapEnds
    /\ mutex' = "free" /\ mpc' = "callback" /\ after' = "while" /\ navigated' = FALSE
    /\ UNCHANGED <<sleeping, drawVars, requestedUpdate, paintedVisit,
                   waitingTask, renderNote, mainNote, owed>>

FlushUpdate ==
    /\ mpc = "while" /\ pendingAction = "None"
    /\ notifyRender /\ LoopReturns
    /\ UNCHANGED <<navVars, after, navigated, sleeping, drawVars, panelVars,
                   paintedVisit, mutex, waitingTask, mainNote, owed>>

-----------------------------------------------------------------------------
(* renderTaskLoop().                                                       *)

RenderTake ==
    /\ rpc = "take" /\ renderNote
    /\ renderNote' = FALSE /\ rpc' = "lock"
    /\ UNCHANGED <<navVars, mainVars, rendering, renderingVisit, panelVars, requestedUpdate,
                   paintedVisit, mutex, waitingTask, mainNote, owed>>

\* The lock is taken before currentActivity is read.
RenderLocks ==
    /\ rpc = "lock" /\ Acquire("render")
    /\ IF currentActivity # None
       THEN /\ rpc' = "draw" /\ rendering' = currentActivity /\ renderingVisit' = screenVisit
            /\ frameFresh' = TRUE
       ELSE rpc' = "signal" /\ UNCHANGED <<rendering, renderingVisit, frameFresh>>
    /\ owed' = FALSE
    /\ UNCHANGED <<navVars, mainVars, shown, panelFresh, requestedUpdate,
                   paintedVisit, waitingTask, renderNote, mainNote>>

RenderFrameDropsTheLock ==
    /\ rpc = "draw" /\ rpc' = "publish" /\ mutex' = "free"
    /\ shown' = rendering /\ panelFresh' = frameFresh
    /\ UNCHANGED <<navVars, mainVars, rendering, renderingVisit, frameFresh, requestedUpdate,
                   paintedVisit, waitingTask, renderNote, mainNote, owed>>
RenderFrame ==
    /\ rpc = "draw" /\ rpc' = "publish"
    /\ shown' = rendering /\ panelFresh' = frameFresh
    /\ UNCHANGED <<navVars, mainVars, rendering, renderingVisit, frameFresh, requestedUpdate,
                   paintedVisit, mutex, waitingTask, renderNote, mainNote, owed>>

PublishVisit ==
    /\ rpc = "publish" /\ rpc' = "signal"
    /\ paintedVisit' = renderingVisit /\ rendering' = None
    /\ UNCHANGED <<navVars, mainVars, renderingVisit, panelVars, requestedUpdate,
                   mutex, waitingTask, renderNote, mainNote, owed>>

\* The critical section that fetches and clears the waiter.
FetchWaiter ==
    /\ rpc = "signal"
    /\ rpc' = IF waitingTask THEN "notify" ELSE "unlock"
    /\ waitingTask' = FALSE
    /\ UNCHANGED <<navVars, mainVars, rendering, renderingVisit, panelVars, requestedUpdate,
                   paintedVisit, mutex, renderNote, mainNote, owed>>

NotifyWaiter ==
    /\ rpc = "notify" /\ rpc' = "unlock"
    /\ mainNote' = mainNote + 1
    /\ UNCHANGED <<navVars, mainVars, rendering, renderingVisit, panelVars, requestedUpdate,
                   paintedVisit, mutex, waitingTask, renderNote, owed>>

RenderUnlocks ==
    /\ rpc = "unlock" /\ rpc' = "take"
    /\ mutex' = "free"
    /\ UNCHANGED <<navVars, mainVars, rendering, renderingVisit, panelVars, requestedUpdate,
                   paintedVisit, waitingTask, renderNote, mainNote, owed>>

-----------------------------------------------------------------------------
\* The chip is off or restarting: nothing more happens.
PoweredOff == mpc = "off" /\ UNCHANGED vars

Outside == OutsideRequest \/ remoteTurn \/ CallLoop \/ goToSleep
Entry == SuppressedRelease \/ ExclusiveLoop \/ HomeGesture \/ LightPanelGesture \/ ActivityLoop
Callback ==
    \/ TakeRenderLock \/ DropRenderLock \/ ChangeState
    \/ CallbackRequest \/ CallbackRequestNow
    \/ startActivityForResult \/ finish \/ CallbackReplaces
    \/ WaitRegister
Returning == ReturnToWhile \/ ReturnFromHandler \/ ReturnFromExclusive \/ UsbRestart
Waiting == WaitNotify \/ WaitReturn
Pending ==
    \/ RadioBusy \/ ScreenMayChange \/ LockForPending
    \/ PopLast \/ goHome \/ PopToParent \/ Swap \/ FlushUpdate
Render ==
    /\ mpc # "off"
    /\ \/ RenderTake \/ RenderLocks \/ RenderFrame \/ PublishVisit
       \/ FetchWaiter \/ NotifyWaiter \/ RenderUnlocks

Next ==
    \/ Outside \/ Entry \/ Callback \/ Returning \/ Waiting \/ Pending
    \/ Render \/ PoweredOff

Spec == Init /\ [][Next]_vars

-----------------------------------------------------------------------------
(* Fairness: the FreeRTOS scheduler runs both tasks (equal priority, time  *)
(* slicing); a callback returns and gives back its lock; a pass that ends  *)
(* early is a user's gesture or a radio shutting down, so not every pass   *)
(* does.  Nothing obliges the user or the activities to act.               *)
MainProceeds ==
    \/ CallLoop \/ DropRenderLock \/ Waiting \/ PopLast \/ goHome \/ PopToParent
    \/ Swap \/ FlushUpdate
Fairness ==
    /\ WF_vars(Render)
    /\ WF_vars(MainProceeds)
    /\ SF_vars(ActivityLoop) /\ SF_vars(ExclusiveLoop)
    /\ SF_vars(Returning)
    /\ SF_vars(ScreenMayChange)
    /\ SF_vars(LockForPending)
    /\ SF_vars(RenderLocks)
FairSpec == Spec /\ Fairness

-----------------------------------------------------------------------------
(* Properties.                                                             *)

\* Types; the main task has at most one notification to take.
TypeOK ==
    /\ currentActivity \in Activities \cup {None}
    /\ stackActivities \in Seq(Activities)
    /\ pendingActivity \in Activities \cup {None}
    /\ pendingAction \in Actions
    /\ resultHandler \in [Activities -> Activities \cup {None}]
    /\ live \subseteq Activities
    /\ screenVisit \in Nat /\ paintedVisit \in Nat /\ renderingVisit \in Nat
    /\ requestedUpdate \in BOOLEAN /\ waitingTask \in BOOLEAN
    /\ renderNote \in BOOLEAN /\ mainNote \in {0, 1}
    /\ mutex \in {"free", "main", "render"}
    /\ mpc \in MainPcs /\ after \in Returns
    /\ navigated \in BOOLEAN /\ sleeping \in BOOLEAN
    /\ rpc \in RenderPcs /\ rendering \in Activities \cup {None}
    /\ shown \in Activities \cup {None}
    /\ panelFresh \in BOOLEAN /\ frameFresh \in BOOLEAN /\ owed \in BOOLEAN

\* The render task never draws an activity that the main task destroyed or took out of the
\* foreground: while render() runs, its object is the current one and alive.
DrawsOnlyTheLiveForeground ==
    rpc \in {"draw", "publish"} =>
        rendering # None /\ rendering = currentActivity /\ rendering \in live

\* The owners of activities: current, stack and pending hold distinct objects, and together
\* exactly those alive (no leak, no double owner, no dangling pointer).
EachActivityOwnedOnce ==
    /\ live = StackSet \cup ({currentActivity, pendingActivity} \ {None})
    /\ \A i, j \in 1..Len(stackActivities) :
          i # j => stackActivities[i] # stackActivities[j]
    /\ currentActivity \notin StackSet /\ pendingActivity \notin StackSet
    /\ currentActivity # None => currentActivity # pendingActivity

\* "Pop set but currentActivity is null ... should never happen in practice", and a pending
\* action always has what it needs: the while loop can neither spin nor pop nothing.
PendingActionHasItsActivity ==
    /\ pendingAction \in {"Push", "Replace", "ReplaceForSleep"} <=> pendingActivity # None
    /\ mpc = "pop" => currentActivity # None
    /\ currentActivity = None => mpc = "goHome"

\* The asserts of requestUpdateAndWait() hold: nobody is waiting when the main task registers,
\* and a notification reaches it only while it waits, so none is left over for a later wait.
OneWaiterAtATime ==
    /\ waitingTask \/ mainNote > 0 \/ rpc = "notify" => mpc \in {"waitSet", "wait"}
    /\ ~(waitingTask /\ (mainNote > 0 \/ rpc = "notify"))
    /\ ~(mainNote > 0 /\ rpc = "notify")

\* isForegroundHomeShown(): "Home is in front and has painted a frame of its own (not one left
\* from the screen before)".
HomeShownIsOnPanel == isForegroundHomeShown => shown = currentActivity

\* While a screen owns the raw SD card nothing takes the foreground from it.
ExclusiveScreenIsNeverLeft ==
    [][Front({"usb"}) => currentActivity' = currentActivity]_vars

\* A result handler runs with the result of the child it was registered for.
HandlerGetsItsChild ==
    [][mpc = "pop" /\ mpc' = "callback" => resultHandler[currentActivity'] = currentActivity]_vars

\* pushActivity() and popActivity(): a pending activity "is not expected"; no request for
\* another screen is dropped by one of these two.
NothingPendingIsDropped ==
    [][pendingActivity # None /\ pendingAction' \in {"Push", "Pop"} =>
         pendingActivity' = pendingActivity]_vars

\* A frame of the current state is being drawn, or the render task has yet to begin one for a
\* notification it was given: the main task need not come back to loop() for it.
FrameIsComing ==
    renderNote = TRUE \/ rpc = "lock" \/ (rpc = "draw" /\ frameFresh = TRUE)

\* requestUpdateAndWait() can be ended by a render that was already under way.  Even so the panel
\* shows the caller's own screen when it returns, never the one before, and if it shows that
\* screen in an older state, the frame of the new one is coming while the caller works on.
WaitEndsOnItsScreen ==
    [][mpc = "wait" /\ mpc' = "callback"
         => shown = currentActivity /\ (panelFresh = TRUE \/ FrameIsComing)]_vars

\* "Trigger a render and block until it completes": the state the caller changed before
\* requestUpdateAndWait() is on the panel when it returns.
WaitShowsTheState == [][mpc = "wait" /\ mpc' = "callback" => panelFresh]_vars

\* "sleep screen must be rendered immediately, the caller will go to sleep right after this
\* returns": goToSleep() returns with the sleep screen entered.
SleepScreenEntered == sleeping /\ mpc = "off" => KindOf[currentActivity] = "sleep"

\* requestUpdateAndWait() returns.
WaitReturns == mpc = "wait" ~> mpc # "wait"

\* A requested update is rendered after the request, unless the device sleeps or restarts.
UpdateIsRendered == owed ~> ~owed \/ mpc = "off"

\* A request for another screen is carried out (the radio may hold it back for some passes).
PendingActionEnds == pendingAction # "None" ~> pendingAction = "None" \/ mpc = "off"

\* Neither kind of request is forgotten.
RequestsAreServed == UpdateIsRendered /\ PendingActionEnds

\* The screens behave like the abstract stack.
Screens == INSTANCE NavStack WITH
    Screens <- Activities,
    HomeScreens <- {a \in Activities : KindOf[a] = "home"},
    nav <- IF currentActivity = None THEN stackActivities
           ELSE Append(stackActivities, currentActivity)
ImplementsNavStack == Screens!SafeSpec
=============================================================================
