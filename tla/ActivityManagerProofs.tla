------------------------ MODULE ActivityManagerProofs ------------------------
(***************************************************************************)
(* Proofs about ActivityManager, for every number of activities, every     *)
(* assignment of kinds to them and every bound on screen changes.          *)
(*                                                                         *)
(* The argument: the render mutex separates the two tasks (MutexInv); who  *)
(* holds it decides where both are.  What a pending action promises        *)
(* (PendingInv) makes ownership inductive, and ownership plus the mutex    *)
(* keep the render task on the live foreground activity.  A handler names  *)
(* the activity right above its own (LinkInv), and the notification of a   *)
(* waiter goes with a frame of its own screen (ScreenInv, FrameInv).       *)
(***************************************************************************)
EXTENDS ActivityManager, SequenceTheorems, TLAPS

-----------------------------------------------------------------------------
(* The inductive invariant, part by part.                                  *)

\* The holder of the render mutex is where its program holds it.
MutexInv ==
    /\ mutex = "render" <=> rpc \notin {"take", "lock"}
    /\ mpc \in {"pop", "swap"} => mutex = "main"
    /\ mutex = "main" => mpc \in {"pop", "swap", "callback"}

\* What is pending where in the while loop.
PendingInv ==
    /\ pendingAction \in {"Push", "Replace", "ReplaceForSleep"} <=> pendingActivity # None
    /\ mpc \in {"lock", "pop", "swap"} => pendingAction # "None"
    /\ mpc = "pop" => pendingAction = "Pop"
    /\ mpc = "swap" => pendingAction # "Pop"
    /\ currentActivity = None <=> mpc = "goHome"
    /\ mpc = "goHome" => pendingAction = "None" /\ stackActivities = <<>>

-----------------------------------------------------------------------------
(* Sequences as stacks.                                                    *)

LEMMA AppendElements ==
    ASSUME NEW S, NEW s \in Seq(S), NEW e \in S
    PROVE  /\ Append(s, e) \in Seq(S)
           /\ Range(Append(s, e)) = Range(s) \cup {e}
           /\ Len(Append(s, e)) = Len(s) + 1
           /\ \A i \in 1..Len(s) : Append(s, e)[i] = s[i]
           /\ Append(s, e)[Len(s) + 1] = e
  <1>1. /\ Append(s, e) \in Seq(S) /\ Len(Append(s, e)) = Len(s) + 1
        /\ \A i \in 1..Len(s) : Append(s, e)[i] = s[i]
        /\ Append(s, e)[Len(s) + 1] = e
    BY AppendProperties
  <1>2. /\ Len(s) \in Nat /\ DOMAIN s = 1..Len(s)
        /\ DOMAIN Append(s, e) = 1..(Len(s) + 1)
    BY <1>1, LenProperties
  <1>3. Range(Append(s, e)) = Range(s) \cup {e}
    BY <1>1, <1>2 DEF Range
  <1> QED BY <1>1, <1>3

LEMMA LastAndBelow ==
    ASSUME NEW S, NEW s \in Seq(S), s # <<>>
    PROVE  /\ Len(s) \in Nat /\ Len(s) > 0
           /\ s[Len(s)] \in S
           /\ SubSeq(s, 1, Len(s) - 1) \in Seq(S)
           /\ Len(SubSeq(s, 1, Len(s) - 1)) = Len(s) - 1
           /\ \A i \in 1..(Len(s) - 1) : SubSeq(s, 1, Len(s) - 1)[i] = s[i]
           /\ Range(s) = Range(SubSeq(s, 1, Len(s) - 1)) \cup {s[Len(s)]}
           /\ Append(SubSeq(s, 1, Len(s) - 1), s[Len(s)]) = s
  <1> DEFINE n == Len(s)
             t == SubSeq(s, 1, n - 1)
  <1>1. n \in Nat /\ n > 0 /\ DOMAIN s = 1..n
    BY EmptySeq, LenProperties
  <1>2. \A i \in 1..n : s[i] \in S
    BY <1>1, ElementOfSeq
  <1>3. t \in Seq(S) /\ Len(t) = n - 1 /\ \A i \in 1..(n - 1) : t[i] = s[i]
    <2>1. \A i \in 1..(n - 1) : s[i] \in S
      BY <1>1, <1>2
    <2>2. 1 \in Int /\ n - 1 \in Int
      BY <1>1
    <2>3. /\ t \in Seq(S)
          /\ Len(t) = IF 1 <= n - 1 THEN (n - 1) - 1 + 1 ELSE 0
          /\ \A i \in 1 .. (n - 1) - 1 + 1 : t[i] = s[1 + i - 1]
      BY <2>1, <2>2, SubSeqProperties
    <2>4. \A i \in 1..(n - 1) : t[i] = s[i]
      <3> TAKE i \in 1..(n - 1)
      <3>1. i \in 1 .. (n - 1) - 1 + 1 /\ 1 + i - 1 = i
        BY <1>1
      <3> QED BY <2>3, <3>1
    <2> QED BY <1>1, <2>3, <2>4
  <1>4. DOMAIN t = 1..(n - 1)
    BY <1>3, LenProperties
  <1> HIDE DEF t
  <1>5. Range(s) = Range(t) \cup {s[n]}
    <2>1. 1..n = (1..(n - 1)) \cup {n}
      BY <1>1
    <2> QED BY <1>1, <1>3, <1>4, <2>1 DEF Range
  <1>6. Append(t, s[n]) = s
    <2>1. s[n] \in S
      BY <1>1, <1>2
    <2>2. /\ Append(t, s[n]) \in Seq(S)
          /\ Len(Append(t, s[n])) = Len(t) + 1
          /\ \A i \in 1..Len(t) : Append(t, s[n])[i] = t[i]
          /\ Append(t, s[n])[Len(t) + 1] = s[n]
      BY <1>3, <2>1, AppendProperties
    <2>3. Len(Append(t, s[n])) = n /\ \A i \in 1..n : Append(t, s[n])[i] = s[i]
      BY <1>1, <1>3, <2>2
    <2> QED BY <2>2, <2>3, SeqEqual
  <1> QED BY <1>1, <1>2, <1>3, <1>5, <1>6 DEF t

LEMMA BelowAppend ==
    ASSUME NEW S, NEW s \in Seq(S), NEW e \in S
    PROVE  /\ Append(s, e) # <<>>
           /\ SubSeq(Append(s, e), 1, Len(Append(s, e)) - 1) = s
  <1> DEFINE w == Append(s, e)
             t == SubSeq(w, 1, Len(w) - 1)
  <1>1. w \in Seq(S) /\ w # <<>> /\ Len(w) = Len(s) + 1 /\ \A i \in 1..Len(s) : w[i] = s[i]
    BY AppendProperties
  <1> HIDE DEF w
  <1>2. t \in Seq(S) /\ Len(t) = Len(w) - 1 /\ \A i \in 1..(Len(w) - 1) : t[i] = w[i]
    BY <1>1, LastAndBelow
  <1>3. Len(s) \in Nat
    BY LenProperties
  <1> HIDE DEF t
  <1>4. t = s
    BY <1>1, <1>2, <1>3, SeqEqual
  <1> QED BY <1>1, <1>4 DEF t, w

-----------------------------------------------------------------------------
(* Types and the mutex.                                                    *)

\* The types in two parts, one for each prover: SMT is at home in the first, Zenon in the second.
DataTypes ==
    /\ currentActivity \in Activities \cup {None}
    /\ stackActivities \in Seq(Activities)
    /\ pendingActivity \in Activities \cup {None}
    /\ pendingAction \in Actions
    /\ resultHandler \in [Activities -> Activities \cup {None}]
    /\ live \subseteq Activities
    /\ screenVisit \in Nat /\ paintedVisit \in Nat /\ renderingVisit \in Nat
    /\ mainNote \in {0, 1}
    /\ mutex \in {"free", "main", "render"}
    /\ mpc \in MainPcs /\ after \in Returns
    /\ rpc \in RenderPcs /\ rendering \in Activities \cup {None}
    /\ shown \in Activities \cup {None}
FlagTypes ==
    /\ requestedUpdate \in BOOLEAN /\ waitingTask \in BOOLEAN /\ renderNote \in BOOLEAN
    /\ navigated \in BOOLEAN /\ sleeping \in BOOLEAN
    /\ panelFresh \in BOOLEAN /\ frameFresh \in BOOLEAN /\ owed \in BOOLEAN

LEMMA TypeParts == TypeOK <=> DataTypes /\ FlagTypes
  BY Zenon DEF TypeOK, DataTypes, FlagTypes

\* A flag is set, cleared, copied or left alone.
LEMMA FlagStep == FlagTypes /\ [Next]_vars => FlagTypes'
  <1> SUFFICES ASSUME FlagTypes, [Next]_vars PROVE FlagTypes'
    OBVIOUS
  <1> USE DEF FlagTypes, navVars, mainVars, drawVars, panelVars
  <1>1. CASE Outside
    BY <1>1, Zenon DEF Outside, OutsideRequest, remoteTurn, CallLoop, goToSleep,
       requestUpdate, StateChanged
  <1>2. CASE Entry
    BY <1>2, Zenon DEF Entry, SuppressedRelease, ExclusiveLoop, HomeGesture,
       LightPanelGesture, ActivityLoop
  <1>3. CASE Callback
    BY <1>3, Zenon DEF Callback, TakeRenderLock, DropRenderLock, ChangeState, CallbackRequest,
       CallbackRequestNow, startActivityForResult, finish, CallbackReplaces, WaitRegister,
       requestUpdate, StateChanged
  <1>4. CASE Returning
    BY <1>4, Zenon DEF Returning, ReturnToWhile, ReturnFromHandler, ReturnFromExclusive,
       UsbRestart, notifyRender, requestUpdate
  <1>5. CASE Waiting
    BY <1>5, Zenon DEF Waiting, WaitNotify, WaitReturn
  <1>6. CASE Pending
    <2>1. CASE RadioBusy \/ ScreenMayChange \/ LockForPending \/ FlushUpdate
      BY <2>1, Zenon DEF RadioBusy, ScreenMayChange, LockForPending, FlushUpdate, notifyRender
    <2>2. CASE PopLast \/ goHome \/ PopToParent \/ Swap
      BY <2>2, Zenon DEF PopLast, goHome, PopToParent, Swap, Leave, StateChanged, requestUpdate
    <2> QED BY <1>6, <2>1, <2>2, Zenon DEF Pending
  <1>7. CASE Render
    BY <1>7, Zenon DEF Render, RenderTake, RenderLocks, RenderFrame, PublishVisit, FetchWaiter,
       NotifyWaiter, RenderUnlocks
  <1>8. CASE UNCHANGED vars
    BY <1>8, Zenon DEF vars
  <1> QED BY <1>1, <1>2, <1>3, <1>4, <1>5, <1>6, <1>7, <1>8, Zenon DEF Next, PoweredOff

\* PendingInv: the pending activity is there when it is entered.  OneWaiterAtATime: the
\* notification that is sent is the only one.
LEMMA DataStep == DataTypes /\ PendingInv /\ OneWaiterAtATime /\ [Next]_vars => DataTypes'
  <1> SUFFICES ASSUME DataTypes, PendingInv, OneWaiterAtATime, [Next]_vars PROVE DataTypes'
    OBVIOUS
  <1> USE DEF DataTypes, Actions, MainPcs, RenderPcs, Returns
  <1>1. CASE Outside
    BY <1>1 DEF Outside, OutsideRequest, remoteTurn, CallLoop, goToSleep,
       StateChanged, Fresh, Destroy, Dropped, navVars, mainVars, drawVars, panelVars
  <1>2. CASE Entry
    BY <1>2 DEF Entry, SuppressedRelease, ExclusiveLoop, HomeGesture, LightPanelGesture,
       ActivityLoop, LoopReturns, Fresh, Destroy, Dropped, popActivity, pushActivity,
       replaceActivity, navVars, mainVars, drawVars, panelVars
  <1>3. CASE Callback
    <2>1. CASE TakeRenderLock \/ DropRenderLock \/ ChangeState \/ CallbackRequest
                 \/ CallbackRequestNow \/ WaitRegister
      BY <2>1 DEF TakeRenderLock, DropRenderLock, ChangeState, CallbackRequest,
         CallbackRequestNow, WaitRegister, Acquire, navVars, mainVars, drawVars, panelVars
    <2>2. CASE startActivityForResult
      BY <2>2 DEF startActivityForResult, CallbackNavigates, Front, Fresh, Destroy, Dropped,
         pushActivity, drawVars
    <2>3. CASE finish \/ CallbackReplaces
      BY <2>3 DEF finish, CallbackReplaces, Fresh, Destroy, Dropped, popActivity,
         replaceActivity, drawVars
    <2> QED BY <1>3, <2>1, <2>2, <2>3 DEF Callback
  <1>4. CASE Returning
    BY <1>4 DEF Returning, ReturnToWhile, ReturnFromHandler, ReturnFromExclusive, UsbRestart,
       LoopReturns, navVars, mainVars, drawVars, panelVars
  <1>5. CASE Waiting
    BY <1>5 DEF Waiting, WaitNotify, WaitReturn, navVars, mainVars, drawVars, panelVars
  <1>6. CASE Pending
    <2>1. CASE RadioBusy \/ ScreenMayChange \/ LockForPending \/ FlushUpdate
      BY <2>1 DEF RadioBusy, ScreenMayChange, LockForPending, FlushUpdate, Acquire,
         LoopReturns, navVars, mainVars, drawVars, panelVars
    <2>2. CASE PopLast
      BY <2>2 DEF PopLast, Leave, Destroy, drawVars
    <2>3. CASE goHome
      BY <2>3 DEF goHome, Fresh, drawVars, panelVars
    <2>4. CASE PopToParent
      <3>1. Top \in Activities /\ Below \in Seq(Activities)
        BY <2>4, LastAndBelow DEF PopToParent, Top, Below
      <3> QED BY <2>4, <3>1 DEF PopToParent, Leave, Destroy, HandlerTaken, drawVars
    <2>5. CASE Swap
      <3>1. currentActivity \in Activities /\ pendingActivity \in Activities
        BY <2>5 DEF Swap, PendingInv
      <3>2. stackActivities' \in Seq(Activities)
        <4>1. Append(stackActivities, currentActivity) \in Seq(Activities)
          BY <3>1, AppendProperties
        <4>2. <<>> \in Seq(Activities)
          OBVIOUS
        <4> QED BY <2>5, <4>1, <4>2 DEF Swap
      <3>3. resultHandler' \in [Activities -> Activities \cup {None}]
        BY <2>5 DEF Swap
      <3>4. \E gone : Leave(gone)
        BY <2>5 DEF Swap
      <3>5. /\ live' \subseteq Activities /\ shown' \in Activities \cup {None}
            /\ screenVisit' \in Nat
        BY <3>4 DEF Leave, Destroy
      <3>6. /\ currentActivity' = pendingActivity /\ pendingActivity' = None
            /\ pendingAction' = "None" /\ mutex' = "free" /\ mpc' = "callback" /\ after' = "while"
            /\ UNCHANGED <<drawVars, paintedVisit, mainNote>>
        BY <2>5 DEF Swap, SwapEnds
      <3> QED BY <3>1, <3>2, <3>3, <3>5, <3>6 DEF drawVars
    <2> QED BY <1>6, <2>1, <2>2, <2>3, <2>4, <2>5 DEF Pending
  <1>7. CASE Render
    BY <1>7 DEF Render, RenderTake, RenderLocks, RenderFrame, PublishVisit, FetchWaiter,
       NotifyWaiter, RenderUnlocks, Acquire, OneWaiterAtATime,
       navVars, mainVars, drawVars, panelVars
  <1>8. CASE UNCHANGED vars
    BY <1>8 DEF vars, navVars, mainVars, drawVars, panelVars
  <1> QED BY <1>1, <1>2, <1>3, <1>4, <1>5, <1>6, <1>7, <1>8 DEF Next, PoweredOff

\* Only the two lock operations of each task move the mutex, so its holder stays in place.
LEMMA MutexStep == DataTypes /\ MutexInv /\ [Next]_vars => MutexInv'
  <1> SUFFICES ASSUME DataTypes, MutexInv, [Next]_vars PROVE MutexInv'
    OBVIOUS
  <1> USE DEF DataTypes, MutexInv, MainPcs, RenderPcs
  <1>1. CASE Outside \/ Entry
    BY <1>1 DEF Outside, OutsideRequest, remoteTurn, CallLoop, goToSleep, Entry,
       SuppressedRelease, ExclusiveLoop, HomeGesture, LightPanelGesture, ActivityLoop,
       LoopReturns, mainVars, drawVars
  <1>2. CASE Callback
    BY <1>2 DEF Callback, TakeRenderLock, DropRenderLock, ChangeState, CallbackRequest,
       CallbackRequestNow, startActivityForResult, finish, CallbackReplaces, WaitRegister,
       CallbackNavigates, InCallback, Acquire, mainVars, drawVars
  <1>3. CASE Returning \/ Waiting
    BY <1>3 DEF Returning, ReturnToWhile, ReturnFromHandler, ReturnFromExclusive, UsbRestart,
       LoopReturns, Waiting, WaitNotify, WaitReturn, InCallback, mainVars, drawVars
  <1>4. CASE Pending
    BY <1>4 DEF Pending, RadioBusy, ScreenMayChange, LockForPending, PopLast, goHome,
       PopToParent, Swap, FlushUpdate, LoopReturns, Acquire, mainVars, drawVars
  <1>5. CASE Render
    BY <1>5 DEF Render, RenderTake, RenderLocks, RenderFrame, PublishVisit, FetchWaiter,
       NotifyWaiter, RenderUnlocks, Acquire, mainVars, drawVars
  <1>6. CASE UNCHANGED vars
    BY <1>6 DEF vars, mainVars, drawVars
  <1> QED BY <1>1, <1>2, <1>3, <1>4, <1>5, <1>6 DEF Next, PoweredOff

-----------------------------------------------------------------------------
(* Pending actions, ownership, drawing and waiting.                        *)

\* EachActivityOwnedOnce without its quantifier over stack positions.
Owned ==
    /\ live = StackSet \cup ({currentActivity, pendingActivity} \ {None})
    /\ currentActivity \notin StackSet /\ pendingActivity \notin StackSet
    /\ currentActivity # None => currentActivity # pendingActivity
Distinct ==
    \A i, j \in 1..Len(stackActivities) :
        i # j => stackActivities[i] # stackActivities[j]

LEMMA OwnedParts == EachActivityOwnedOnce <=> Owned /\ Distinct
  BY DEF EachActivityOwnedOnce, Owned, Distinct

LEMMA PendingStep == DataTypes /\ PendingInv /\ [Next]_vars => PendingInv'
  <1> SUFFICES ASSUME DataTypes, PendingInv, [Next]_vars PROVE PendingInv'
    OBVIOUS
  <1> USE ConstantsAssumption DEF DataTypes, PendingInv, Actions, MainPcs
  <1>1. CASE Outside
    BY <1>1 DEF Outside, OutsideRequest, remoteTurn, CallLoop, goToSleep, Fresh,
       navVars, mainVars
  <1>2. CASE Entry
    BY <1>2 DEF Entry, SuppressedRelease, ExclusiveLoop, HomeGesture, LightPanelGesture,
       ActivityLoop, LoopReturns, Fresh, popActivity, pushActivity, replaceActivity,
       navVars, mainVars
  <1>3. CASE Callback
    BY <1>3 DEF Callback, TakeRenderLock, DropRenderLock, ChangeState, CallbackRequest,
       CallbackRequestNow, startActivityForResult, finish, CallbackReplaces, WaitRegister,
       CallbackNavigates, InCallback, Fresh, popActivity, pushActivity, replaceActivity,
       navVars, mainVars
  <1>4. CASE Returning \/ Waiting
    BY <1>4 DEF Returning, ReturnToWhile, ReturnFromHandler, ReturnFromExclusive, UsbRestart,
       InCallback, LoopReturns, Waiting, WaitNotify, WaitReturn, navVars, mainVars
  <1>5. CASE Pending
    <2>1. CASE RadioBusy \/ ScreenMayChange \/ LockForPending \/ FlushUpdate \/ PopLast
      BY <2>1 DEF RadioBusy, ScreenMayChange, LockForPending, FlushUpdate, PopLast,
         LoopReturns, navVars, mainVars
    <2>2. CASE goHome \/ Swap
      BY <2>2 DEF goHome, Swap, SwapEnds, Fresh
    <2>3. CASE PopToParent
      <3>1. currentActivity' \in Activities
        BY <2>3, LastAndBelow DEF PopToParent, Top
      <3> QED BY <2>3, <3>1 DEF PopToParent
    <2> QED BY <1>5, <2>1, <2>2, <2>3 DEF Pending
  <1>6. CASE Render \/ UNCHANGED vars
    BY <1>6 DEF Render, RenderTake, RenderLocks, RenderFrame, PublishVisit, FetchWaiter,
       NotifyWaiter, RenderUnlocks, vars, navVars, mainVars
  <1> QED BY <1>1, <1>2, <1>3, <1>4, <1>5, <1>6 DEF Next, PoweredOff

LEMMA OwnedStep ==
    DataTypes /\ PendingInv /\ Owned /\ Distinct /\ [Next]_vars => Owned' /\ Distinct'
  <1> SUFFICES ASSUME DataTypes, PendingInv, Owned, Distinct, [Next]_vars
               PROVE  Owned' /\ Distinct'
    OBVIOUS
  <1> USE ConstantsAssumption DEF DataTypes
  <1>0. None \notin StackSet /\ StackSet \subseteq Activities
    BY LenProperties DEF StackSet, Range
  <1>1. ASSUME UNCHANGED <<currentActivity, stackActivities, pendingActivity, live>>
        PROVE  Owned' /\ Distinct'
    BY <1>1 DEF Owned, Distinct, StackSet, Range
  <1>2. ASSUME UNCHANGED <<currentActivity, stackActivities>>, currentActivity # None,
               \/ \E a \in Fresh : pendingActivity' = a /\ live' = (live \cup {a}) \ Dropped
               \/ pendingActivity' = None /\ live' = live \ Dropped
        PROVE  Owned' /\ Distinct'
    <2>1. StackSet' = StackSet /\ Distinct'
      BY <1>2 DEF StackSet, Range, Distinct
    <2> QED BY <1>0, <1>2, <2>1 DEF Owned, Dropped, Fresh
  <1>3. CASE OutsideRequest \/ remoteTurn \/ CallLoop \/ SuppressedRelease \/ ExclusiveLoop
             \/ ActivityLoop \/ TakeRenderLock \/ DropRenderLock \/ ChangeState
             \/ CallbackRequest \/ CallbackRequestNow \/ WaitRegister \/ Returning \/ Waiting
             \/ RadioBusy \/ ScreenMayChange \/ LockForPending \/ FlushUpdate \/ Render
             \/ UNCHANGED vars
    <2>1. UNCHANGED <<currentActivity, stackActivities, pendingActivity, live>>
      BY <1>3 DEF OutsideRequest, remoteTurn, CallLoop, SuppressedRelease, ExclusiveLoop,
         ActivityLoop, TakeRenderLock, DropRenderLock, ChangeState, CallbackRequest,
         CallbackRequestNow, WaitRegister, Returning, ReturnToWhile, ReturnFromHandler,
         ReturnFromExclusive, UsbRestart, Waiting, WaitNotify, WaitReturn, RadioBusy,
         ScreenMayChange, LockForPending, FlushUpdate, Render, RenderTake, RenderLocks,
         RenderFrame, PublishVisit, FetchWaiter, NotifyWaiter, RenderUnlocks, vars, navVars
    <2> QED BY <1>1, <2>1
  <1>4. CASE goToSleep \/ HomeGesture \/ LightPanelGesture \/ startActivityForResult
             \/ finish \/ CallbackReplaces
    <2>1. UNCHANGED <<currentActivity, stackActivities>> /\ currentActivity # None
      BY <1>4 DEF goToSleep, HomeGesture, LightPanelGesture, startActivityForResult, finish,
         CallbackReplaces, CallbackNavigates, Front, PendingInv
    <2>2. \/ \E a \in Fresh : pendingActivity' = a /\ live' = (live \cup {a}) \ Dropped
          \/ pendingActivity' = None /\ live' = live \ Dropped
      BY <1>4 DEF goToSleep, HomeGesture, LightPanelGesture, startActivityForResult, finish,
         CallbackReplaces, popActivity, pushActivity, replaceActivity, Destroy
    <2> QED BY <1>2, <2>1, <2>2
  <1>5. CASE PopLast
    <2>1. StackSet = {} /\ StackSet' = {} /\ pendingActivity = None /\ Distinct'
      BY <1>5 DEF PopLast, StackSet, Range, PendingInv, Distinct
    <2> QED BY <1>5, <2>1 DEF PopLast, Leave, Destroy, Owned
  <1>6. CASE goHome
    <2>1. /\ StackSet' = StackSet /\ Distinct'
          /\ pendingActivity = None /\ currentActivity = None
      BY <1>6 DEF goHome, StackSet, Range, Distinct, PendingInv
    <2> QED BY <1>0, <1>6, <2>1 DEF goHome, Fresh, Owned
  <1>7. CASE PopToParent
    <2>1. /\ StackSet = Range(Below) \cup {Top}
          /\ Below \in Seq(Activities) /\ Len(Below) = Len(stackActivities) - 1
          /\ Len(stackActivities) \in Nat /\ Len(stackActivities) > 0
          /\ \A i \in 1..Len(Below) : Below[i] = stackActivities[i]
      BY <1>7, LastAndBelow DEF PopToParent, StackSet, Top, Below
    <2>2. stackActivities' = Below /\ currentActivity' = Top /\ UNCHANGED pendingActivity
          /\ live' = live \ {currentActivity} /\ pendingActivity = None
      BY <1>7 DEF PopToParent, Leave, Destroy, PendingInv
    <2>3. Top \notin Range(Below)
      <3>1. DOMAIN Below = 1..Len(Below)
        BY <2>1, LenProperties
      <3> QED BY <2>1, <3>1 DEF Range, Top, Distinct
    <2>4. Distinct'
      BY <2>1, <2>2 DEF Distinct
    <2> QED BY <1>0, <1>7, <2>1, <2>2, <2>3, <2>4 DEF Owned, StackSet, PopToParent
  <1>8. CASE Swap
    <2>1. /\ currentActivity \in Activities /\ pendingActivity \in Activities
          /\ currentActivity' = pendingActivity /\ pendingActivity' = None
      BY <1>8 DEF Swap, SwapEnds, PendingInv, Actions
    <2>2. CASE pendingAction = "Push"
      <3>1. stackActivities' = Append(stackActivities, currentActivity) /\ live' = live
        BY <1>8, <2>2 DEF Swap, Leave, Destroy
      <3>2. /\ StackSet' = StackSet \cup {currentActivity}
            /\ Len(stackActivities') = Len(stackActivities) + 1
            /\ \A i \in 1..Len(stackActivities) : stackActivities'[i] = stackActivities[i]
            /\ stackActivities'[Len(stackActivities) + 1] = currentActivity
        BY <2>1, <3>1, AppendElements DEF StackSet
      <3>3. \A i \in 1..Len(stackActivities) : stackActivities[i] # currentActivity
        BY LenProperties DEF Owned, StackSet, Range
      <3>4. Distinct'
        <4>1. Len(stackActivities) \in Nat
          BY LenProperties
        <4> QED BY <3>2, <3>3, <4>1 DEF Distinct
      <3> QED BY <1>0, <2>1, <3>1, <3>2, <3>4 DEF Owned
    <2>3. CASE pendingAction # "Push"
      <3>1. stackActivities' = <<>> /\ live' = live \ (StackSet \cup {currentActivity})
        BY <1>8, <2>3 DEF Swap, Leave, Destroy
      <3>2. StackSet' = {} /\ Distinct'
        BY <3>1 DEF StackSet, Range, Distinct
      <3> QED BY <1>0, <2>1, <3>1, <3>2 DEF Owned
    <2> QED BY <2>2, <2>3
  <1> QED BY <1>3, <1>4, <1>5, <1>6, <1>7, <1>8
      DEF Next, Outside, Entry, Callback, Pending, PoweredOff

\* The steps of the main task that leave every activity, screenVisit and the panel alone.
Quiet ==
    \/ OutsideRequest \/ remoteTurn \/ CallLoop \/ SuppressedRelease \/ ExclusiveLoop
    \/ ActivityLoop \/ TakeRenderLock \/ DropRenderLock \/ ChangeState
    \/ CallbackRequest \/ CallbackRequestNow \/ WaitRegister \/ Returning \/ Waiting
    \/ RadioBusy \/ ScreenMayChange \/ LockForPending \/ FlushUpdate
\* The steps that ask for another screen.
Asks ==
    \/ goToSleep \/ HomeGesture \/ LightPanelGesture
    \/ startActivityForResult \/ finish \/ CallbackReplaces
\* The steps that change the screen.
Moves == PopLast \/ PopToParent \/ Swap

LEMMA Steps ==
    [Next]_vars => Quiet \/ Asks \/ Moves \/ goHome \/ Render \/ UNCHANGED vars
  BY DEF Next, Outside, Entry, Callback, Pending, PoweredOff, Quiet, Asks, Moves

LEMMA QuietChanges ==
    ASSUME Quiet
    PROVE  UNCHANGED <<navVars, drawVars, shown, paintedVisit>>
  BY DEF Quiet, OutsideRequest, remoteTurn, CallLoop, SuppressedRelease, ExclusiveLoop,
       ActivityLoop, TakeRenderLock, DropRenderLock, ChangeState, CallbackRequest,
       CallbackRequestNow, WaitRegister, Returning, ReturnToWhile, ReturnFromHandler,
       ReturnFromExclusive, UsbRestart, Waiting, WaitNotify, WaitReturn, RadioBusy,
       ScreenMayChange, LockForPending, FlushUpdate, navVars, drawVars, panelVars

LEMMA AskChanges ==
    ASSUME DataTypes, PendingInv, Owned, Asks
    PROVE  /\ UNCHANGED <<currentActivity, stackActivities, screenVisit, drawVars, paintedVisit>>
           /\ currentActivity \in live => currentActivity \in live'
           /\ shown = currentActivity => shown' = shown
           /\ ~Front({"usb"})
  <1>1. /\ UNCHANGED <<currentActivity, stackActivities, screenVisit, drawVars, paintedVisit>>
        /\ \E base \in {live} \cup {live \cup {a} : a \in Fresh} : Destroy(Dropped, base)
    BY DEF Asks, goToSleep, HomeGesture, LightPanelGesture, startActivityForResult, finish,
       CallbackReplaces, pushActivity, popActivity, replaceActivity
  <1>2. currentActivity # None /\ ~Front({"usb"})
    BY ConstantsAssumption DEF Asks, goToSleep, HomeGesture, LightPanelGesture,
       startActivityForResult, finish, CallbackReplaces, CallbackNavigates, Front, Kinds,
       PendingInv
  <1>3. currentActivity \notin Dropped
    BY <1>2 DEF Dropped, Owned
  <1> QED BY <1>1, <1>2, <1>3 DEF Destroy

LEMMA DrawStep ==
    DataTypes /\ MutexInv /\ PendingInv /\ Owned /\ DrawsOnlyTheLiveForeground /\ [Next]_vars
      => DrawsOnlyTheLiveForeground'
  <1> SUFFICES ASSUME DataTypes, MutexInv, PendingInv, Owned, DrawsOnlyTheLiveForeground,
                      [Next]_vars
               PROVE  DrawsOnlyTheLiveForeground'
    OBVIOUS
  <1> USE DEF DrawsOnlyTheLiveForeground
  <1>1. CASE Quiet
    BY <1>1, QuietChanges DEF navVars, drawVars
  <1>2. CASE Asks
    BY <1>2, AskChanges DEF drawVars
  <1>3. CASE Moves
    BY <1>3 DEF Moves, PopLast, PopToParent, Swap, MutexInv, drawVars
  <1>4. CASE goHome
    BY <1>4 DEF goHome, PendingInv, drawVars
  <1>5. CASE Render
    BY <1>5 DEF Render, RenderTake, RenderLocks, RenderFrame, PublishVisit, FetchWaiter,
       NotifyWaiter, RenderUnlocks, Owned, navVars
  <1>6. CASE UNCHANGED vars
    BY <1>6 DEF vars, navVars, drawVars
  <1> QED BY <1>1, <1>2, <1>3, <1>4, <1>5, <1>6, Steps

LEMMA WaiterStep == DataTypes /\ OneWaiterAtATime /\ [Next]_vars => OneWaiterAtATime'
  <1> SUFFICES ASSUME DataTypes, OneWaiterAtATime, [Next]_vars PROVE OneWaiterAtATime'
    OBVIOUS
  <1> USE DEF DataTypes, OneWaiterAtATime
  <1>1. CASE Outside \/ Entry
    BY <1>1 DEF Outside, OutsideRequest, remoteTurn, CallLoop, goToSleep, Entry,
       SuppressedRelease, ExclusiveLoop, HomeGesture, LightPanelGesture, ActivityLoop,
       mainVars, drawVars
  <1>2. CASE Callback
    BY <1>2 DEF Callback, TakeRenderLock, DropRenderLock, ChangeState, CallbackRequest,
       CallbackRequestNow, startActivityForResult, finish, CallbackReplaces, WaitRegister,
       CallbackNavigates, InCallback, mainVars, drawVars
  <1>3. CASE Returning \/ Waiting
    BY <1>3 DEF Returning, ReturnToWhile, ReturnFromHandler, ReturnFromExclusive, UsbRestart,
       Waiting, WaitNotify, WaitReturn, InCallback, mainVars, drawVars
  <1>4. CASE Pending
    BY <1>4 DEF Pending, RadioBusy, ScreenMayChange, LockForPending, PopLast, goHome,
       PopToParent, Swap, FlushUpdate, mainVars, drawVars
  <1>5. CASE Render \/ UNCHANGED vars
    BY <1>5 DEF Render, RenderTake, RenderLocks, RenderFrame, PublishVisit, FetchWaiter,
       NotifyWaiter, RenderUnlocks, vars, mainVars, drawVars
  <1> QED BY <1>1, <1>2, <1>3, <1>4, <1>5 DEF Next, PoweredOff

-----------------------------------------------------------------------------
(* What the panel shows, and the screen that owns the SD card.             *)

\* A visit counts as painted only from the frame its own activity drew; with the splash the
\* count has left zero before any screen but Boot is in front.
PaintedInv ==
    /\ paintedVisit <= screenVisit
    /\ currentActivity = None => paintedVisit < screenVisit
    /\ rpc \in {"draw", "publish"} => renderingVisit = screenVisit
    /\ rpc = "publish" => shown = currentActivity
    /\ paintedVisit = screenVisit /\ screenVisit > 0 => shown = currentActivity
    /\ SplashBoot /\ screenVisit = 0 => Front({"boot"})

\* No screen change is ever pending over a screen that owns the raw SD card.
ExclusiveInv == Front({"usb"}) => pendingAction = "None"

LEMMA MoveChanges ==
    ASSUME DataTypes, MutexInv, Moves
    PROVE  screenVisit' = screenVisit + 1 /\ UNCHANGED <<rpc, paintedVisit>>
           /\ rpc \notin {"draw", "publish"}
  BY DEF Moves, PopLast, PopToParent, Swap, Leave, MutexInv, drawVars

LEMMA PaintedStep ==
    DataTypes /\ MutexInv /\ PendingInv /\ Owned /\ DrawsOnlyTheLiveForeground /\ PaintedInv
      /\ [Next]_vars => PaintedInv'
  <1> SUFFICES ASSUME DataTypes, MutexInv, PendingInv, Owned, DrawsOnlyTheLiveForeground,
                      PaintedInv, [Next]_vars
               PROVE  PaintedInv'
    OBVIOUS
  <1> USE DEF DataTypes, PaintedInv, Front
  <1>1. CASE Quiet
    BY <1>1, QuietChanges DEF navVars, drawVars
  <1>2. CASE Asks
    <2>1. /\ UNCHANGED <<currentActivity, screenVisit, drawVars, paintedVisit>>
          /\ shown = currentActivity => shown' = shown
      BY <1>2, AskChanges
    <2> QED BY <2>1 DEF drawVars
  <1>3. CASE Moves
    BY <1>3, MoveChanges
  <1>4. CASE goHome
    BY <1>4, ConstantsAssumption DEF goHome, PendingInv, DrawsOnlyTheLiveForeground, Fresh,
       drawVars, panelVars
  <1>5. CASE Render
    BY <1>5 DEF Render, RenderTake, RenderLocks, RenderFrame, PublishVisit, FetchWaiter,
       NotifyWaiter, RenderUnlocks, DrawsOnlyTheLiveForeground, navVars, panelVars
  <1>6. CASE UNCHANGED vars
    BY <1>6 DEF vars, navVars, drawVars, panelVars
  <1> QED BY <1>1, <1>2, <1>3, <1>4, <1>5, <1>6, Steps

LEMMA ExclusiveStep ==
    DataTypes /\ PendingInv /\ Owned /\ ExclusiveInv /\ [Next]_vars
      => ExclusiveInv' /\ (Front({"usb"}) => currentActivity' = currentActivity)
  <1> SUFFICES ASSUME DataTypes, PendingInv, Owned, ExclusiveInv, [Next]_vars
               PROVE  ExclusiveInv' /\ (Front({"usb"}) => currentActivity' = currentActivity)
    OBVIOUS
  <1> USE DEF ExclusiveInv, Front
  <1>1. CASE Quiet
    BY <1>1, QuietChanges DEF navVars
  <1>2. CASE Asks
    BY <1>2, AskChanges
  <1>3. CASE Moves
    BY <1>3 DEF Moves, PopLast, PopToParent, Swap, SwapEnds, PendingInv
  <1>4. CASE goHome
    BY <1>4 DEF goHome, PendingInv
  <1>5. CASE Render \/ UNCHANGED vars
    BY <1>5 DEF Render, RenderTake, RenderLocks, RenderFrame, PublishVisit, FetchWaiter,
       NotifyWaiter, RenderUnlocks, vars, navVars
  <1> QED BY <1>1, <1>2, <1>3, <1>4, <1>5, Steps

-----------------------------------------------------------------------------
(* The theorems.                                                           *)

IInv ==
    /\ DataTypes /\ FlagTypes
    /\ MutexInv /\ PendingInv
    /\ Owned /\ Distinct
    /\ DrawsOnlyTheLiveForeground
    /\ OneWaiterAtATime
    /\ PaintedInv /\ ExclusiveInv

LEMMA InitIInv == Init => IInv
  <1> SUFFICES ASSUME Init PROVE IInv
    OBVIOUS
  <1>1. FlagTypes
    BY Zenon DEF Init, FlagTypes
  <1>2. /\ stackActivities = <<>> /\ StackSet = {}
        /\ stackActivities \in Seq(Activities) /\ Len(stackActivities) = 0
    BY DEF Init, StackSet, Range
  <1>3. DataTypes
    BY <1>2, ConstantsAssumption DEF Init, DataTypes, Actions, MainPcs, RenderPcs, Returns
  <1>4. MutexInv /\ PendingInv /\ DrawsOnlyTheLiveForeground /\ OneWaiterAtATime
    BY ConstantsAssumption DEF Init, MutexInv, PendingInv, DrawsOnlyTheLiveForeground,
       OneWaiterAtATime
  <1>5. Owned /\ Distinct
    BY <1>2, ConstantsAssumption DEF Init, Owned, Distinct
  <1>6. PaintedInv /\ ExclusiveInv
    BY ConstantsAssumption DEF Init, PaintedInv, ExclusiveInv, Front
  <1> QED BY <1>1, <1>3, <1>4, <1>5, <1>6 DEF IInv

LEMMA NextIInv == IInv /\ [Next]_vars => IInv'
  BY FlagStep, DataStep, MutexStep, PendingStep, OwnedStep, DrawStep, WaiterStep,
     PaintedStep, ExclusiveStep DEF IInv

LEMMA Invariance == Spec => []IInv
  BY InitIInv, NextIInv, PTL DEF Spec

\* Every variable keeps its type, and the main task never has two notifications to take.
THEOREM TypeCorrect == Spec => []TypeOK
  <1>1. IInv => TypeOK
    BY TypeParts DEF IInv
  <1> QED BY <1>1, Invariance, PTL

\* The render task never draws a destroyed or backgrounded activity: the mutex held across
\* renderTaskLoop()'s read of currentActivity and its render() is enough.
THEOREM RenderSafe == Spec => []DrawsOnlyTheLiveForeground
  <1>1. IInv => DrawsOnlyTheLiveForeground
    BY DEF IInv
  <1> QED BY <1>1, Invariance, PTL

\* No activity is leaked, owned twice or reachable after its destruction.
THEOREM Ownership == Spec => []EachActivityOwnedOnce
  <1>1. IInv => EachActivityOwnedOnce
    BY OwnedParts DEF IInv
  <1> QED BY <1>1, Invariance, PTL

\* "Should never happen in practice": the pop without a current activity never happens, and the
\* while loop over the pending action always finds what it needs to make progress.
THEOREM PendingSafe == Spec => []PendingActionHasItsActivity
  <1>1. IInv => PendingActionHasItsActivity
    BY DEF IInv, PendingInv, PendingActionHasItsActivity
  <1> QED BY <1>1, Invariance, PTL

\* The asserts of requestUpdateAndWait() never fail.
THEOREM SingleWaiter == Spec => []OneWaiterAtATime
  <1>1. IInv => OneWaiterAtATime
    BY DEF IInv
  <1> QED BY <1>1, Invariance, PTL

\* After a boot with the splash, a Home that counts as shown is what the panel shows.
THEOREM HomeShown == ASSUME SplashBoot PROVE Spec => []HomeShownIsOnPanel
  <1>1. IInv => HomeShownIsOnPanel
    BY ConstantsAssumption DEF IInv, DataTypes, PaintedInv, HomeShownIsOnPanel,
       isForegroundHomeShown, Front
  <1> QED BY <1>1, Invariance, PTL

\* Nothing takes the foreground from a screen that owns the raw SD card.
THEOREM ExclusiveKept == Spec => ExclusiveScreenIsNeverLeft
  <1>1. IInv /\ [Next]_vars => [Front({"usb"}) => currentActivity' = currentActivity]_vars
    BY ExclusiveStep DEF IInv
  <1> QED BY <1>1, Invariance, PTL DEF Spec, ExclusiveScreenIsNeverLeft

-----------------------------------------------------------------------------
(* Result handlers, on a build without the radio: a handler is registered  *)
(* together with its child, and nothing parts the two before the child is  *)
(* in front.                                                               *)

CallbackPcs == {"callback", "waitSet", "wait"}

\* Who is above position i of the stack: the child a handler there waits for.
ChildAbove(i) ==
    IF i = Len(stackActivities) THEN currentActivity ELSE stackActivities[i + 1]

\* Below the foreground a handler names the activity right above its own.
LinkInv ==
    /\ \A a \in Activities : resultHandler[a] # None => a \in StackSet \cup {currentActivity}
    /\ \A i \in 1..Len(stackActivities) :
          resultHandler[stackActivities[i]] \in {None, ChildAbove(i)}

\* The foreground has a handler only on the way from asking for its child to opening it.
ChildInv ==
    /\ currentActivity # None /\ resultHandler[currentActivity] # None =>
         /\ pendingAction = "Push" /\ pendingActivity = resultHandler[currentActivity]
         /\ after # "exclusive"
         /\ mpc \in CallbackPcs \cup {"while", "lock", "swap"}
         /\ mpc \in CallbackPcs => navigated = TRUE
    /\ after = "exclusive" /\ mpc \in CallbackPcs => Front({"usb"})

\* Positions below the top of a stack.
LEMMA Positions ==
    ASSUME NEW n \in Nat
    PROVE  /\ \A i \in 1..n : i # n => i \in 1..(n - 1) /\ i + 1 \in 1..n
           /\ \A i \in 1..n : i \in 1..(n + 1) /\ i + 1 \in 1..(n + 1) /\ i # n + 1
           /\ \A i \in 1..(n - 1) : i \in 1..n /\ i # n
           /\ \A i \in 1..(n + 1) : i # n + 1 => i \in 1..n
  OBVIOUS

\* A step that leaves the screens and the handlers alone leaves their links alone.
LEMMA LinksKept ==
    ASSUME LinkInv, UNCHANGED <<currentActivity, stackActivities, resultHandler>>
    PROVE  LinkInv'
  BY DEF LinkInv, StackSet, Range, ChildAbove

LEMMA LinkStep ==
    DataTypes /\ PendingInv /\ Owned /\ Distinct /\ LinkInv /\ ChildInv /\ [Next]_vars => LinkInv'
  <1> SUFFICES ASSUME DataTypes, PendingInv, Owned, Distinct, LinkInv, ChildInv, [Next]_vars
               PROVE  LinkInv'
    OBVIOUS
  <1>0. /\ None \notin Activities /\ stackActivities \in Seq(Activities)
        /\ Len(stackActivities) \in Nat /\ DOMAIN stackActivities = 1..Len(stackActivities)
        /\ StackSet = {stackActivities[i] : i \in 1..Len(stackActivities)}
        /\ resultHandler \in [Activities -> Activities \cup {None}]
    BY ConstantsAssumption, LenProperties DEF DataTypes, StackSet, Range
  <1>1. CASE Quiet \/ Render \/ UNCHANGED vars
    <2>1. UNCHANGED <<currentActivity, stackActivities, resultHandler>>
      BY <1>1, QuietChanges DEF Render, RenderTake, RenderLocks, RenderFrame, PublishVisit,
         FetchWaiter, NotifyWaiter, RenderUnlocks, vars, navVars
    <2> QED BY <2>1, LinksKept
  <1>2. CASE Asks
    <2>1. CASE startActivityForResult
      <3>1. PICK c \in Fresh : resultHandler' = [resultHandler EXCEPT ![currentActivity] = c]
        BY <2>1 DEF startActivityForResult
      <3>2. UNCHANGED <<currentActivity, stackActivities>> /\ currentActivity \notin StackSet
        BY <2>1 DEF startActivityForResult, Owned
      <3>3. /\ StackSet' = StackSet
            /\ \A i \in 1..Len(stackActivities) : stackActivities[i] # currentActivity
        BY <1>0, <3>2 DEF StackSet, Range
      <3>4. \A a \in Activities \ {currentActivity} : resultHandler'[a] = resultHandler[a]
        BY <1>0, <3>1
      <3>5. \A i \in 1..Len(stackActivities) :
               stackActivities[i] \in Activities /\ ChildAbove(i)' = ChildAbove(i)
        BY <1>0, <3>2, ElementOfSeq DEF ChildAbove
      <3> QED BY <3>2, <3>3, <3>4, <3>5 DEF LinkInv
    <2>2. CASE goToSleep \/ HomeGesture \/ LightPanelGesture \/ finish \/ CallbackReplaces
      <3>1. UNCHANGED <<currentActivity, stackActivities, resultHandler>>
        BY <2>2 DEF goToSleep, HomeGesture, LightPanelGesture, finish, CallbackReplaces
      <3> QED BY <3>1, LinksKept
    <2> QED BY <1>2, <2>1, <2>2 DEF Asks
  <1>3. CASE PopLast
    <2>1. /\ stackActivities = <<>> /\ stackActivities' = stackActivities
          /\ resultHandler' = [resultHandler EXCEPT ![currentActivity] = None]
      BY <1>3 DEF PopLast
    <2>2. \A a \in Activities : resultHandler'[a] = None
      BY <1>0, <2>1 DEF LinkInv
    <2> QED BY <2>1, <2>2 DEF LinkInv
  <1>4. CASE goHome
    <2>1. /\ currentActivity = None /\ stackActivities = <<>>
          /\ stackActivities' = stackActivities /\ resultHandler' = resultHandler
      BY <1>4 DEF goHome, PendingInv
    <2>2. \A a \in Activities : resultHandler'[a] = None
      BY <1>0, <2>1 DEF LinkInv
    <2> QED BY <2>1, <2>2 DEF LinkInv
  <1>5. CASE PopToParent
    <2> DEFINE n == Len(stackActivities)
    <2>1. /\ stackActivities # <<>> /\ stackActivities' = Below /\ currentActivity' = Top
          /\ resultHandler' = HandlerTaken /\ currentActivity \in Activities
      BY <1>5 DEF PopToParent, DataTypes
    <2>2. /\ n > 0 /\ Len(Below) = n - 1 /\ Top = stackActivities[n] /\ Top \in Activities
          /\ \A i \in 1..(n - 1) : Below[i] = stackActivities[i]
          /\ StackSet = Range(Below) \cup {Top}
      BY <1>0, <2>1, LastAndBelow DEF Top, Below, StackSet
    <2>3. /\ resultHandler'[Top] = None /\ resultHandler'[currentActivity] = None
          /\ \A a \in Activities \ {Top, currentActivity} : resultHandler'[a] = resultHandler[a]
      BY <1>0, <2>1, <2>2 DEF HandlerTaken
    <2>4. \A a \in Activities : resultHandler'[a] # None => a \in StackSet' \cup {currentActivity'}
      BY <2>1, <2>2, <2>3 DEF LinkInv, StackSet
    <2>5. ASSUME NEW i \in 1..(n - 1)
          PROVE  resultHandler'[stackActivities'[i]] \in {None, ChildAbove(i)'}
      <3>1. stackActivities'[i] = stackActivities[i] /\ stackActivities[i] \in Activities
        BY <1>0, <2>1, <2>2, ElementOfSeq
      <3>2. ChildAbove(i)' = stackActivities[i + 1] /\ ChildAbove(i) = stackActivities[i + 1]
        <4>0. n - 1 \in Nat /\ (n - 1) + 1 = n
          BY <1>0, <2>2
        <4>1. i \in 1..n /\ i + 1 \in 1..n /\ i # n
          BY <1>0, <2>5, Positions
        <4>2. CASE i = n - 1
          <5>1. Len(stackActivities') = i /\ i + 1 = n
            BY <2>1, <2>2, <4>0, <4>2
          <5> QED BY <2>1, <2>2, <4>1, <5>1 DEF ChildAbove
        <4>3. CASE i # n - 1
          <5>1. i + 1 \in 1..(n - 1)
            BY <2>5, <4>0, <4>3, Positions
          <5> QED BY <1>0, <2>1, <2>2, <4>1, <4>3, <5>1 DEF ChildAbove
        <4> QED BY <4>2, <4>3
      <3>3. resultHandler[stackActivities[i]] \in {None, stackActivities[i + 1]}
        BY <1>0, <3>2 DEF LinkInv
      <3> QED BY <2>3, <3>1, <3>2, <3>3
    <2> QED BY <2>1, <2>2, <2>4, <2>5 DEF LinkInv
  <1>6. CASE Swap
    <2>1. /\ currentActivity \in Activities /\ pendingActivity \in Activities
          /\ currentActivity' = pendingActivity
      BY <1>6 DEF Swap, PendingInv, DataTypes, Actions
    <2>2. CASE pendingAction = "Push"
      <3> DEFINE n == Len(stackActivities)
      <3>1. stackActivities' = Append(stackActivities, currentActivity)
            /\ resultHandler' = resultHandler
        BY <1>6, <2>2 DEF Swap
      <3>2. /\ StackSet' = StackSet \cup {currentActivity} /\ Len(stackActivities') = n + 1
            /\ \A i \in 1..n : stackActivities'[i] = stackActivities[i]
            /\ stackActivities'[n + 1] = currentActivity
        BY <1>0, <2>1, <3>1, AppendElements DEF StackSet
      <3>3. resultHandler[currentActivity] \in {None, pendingActivity}
        BY <1>0, <2>1 DEF ChildInv
      <3>4. ASSUME NEW i \in 1..(n + 1)
            PROVE  resultHandler'[stackActivities'[i]] \in {None, ChildAbove(i)'}
        <4>1. CASE i = n + 1
          BY <2>1, <3>1, <3>2, <3>3, <4>1 DEF ChildAbove
        <4>2. CASE i # n + 1
          <5>1. i \in 1..n /\ i + 1 \in 1..(n + 1)
            BY <1>0, <3>4, <4>2, Positions
          <5>2. ChildAbove(i)' = ChildAbove(i)
            <6>1. CASE i = n
              BY <3>2, <4>2, <5>1, <6>1 DEF ChildAbove
            <6>2. CASE i # n
              <7>1. i + 1 \in 1..n
                BY <1>0, <5>1, <6>2, Positions
              <7> QED BY <1>0, <3>2, <4>2, <5>1, <6>2, <7>1 DEF ChildAbove
            <6> QED BY <6>1, <6>2
          <5> QED BY <3>1, <3>2, <5>1, <5>2 DEF LinkInv
        <4> QED BY <4>1, <4>2
      <3> QED BY <1>0, <3>1, <3>2, <3>4 DEF LinkInv
    <2>3. CASE pendingAction # "Push"
      <3>1. /\ stackActivities' = <<>>
            /\ resultHandler' = [a \in Activities |->
                  IF a \in StackSet \cup {currentActivity} THEN None ELSE resultHandler[a]]
        BY <1>6, <2>3 DEF Swap
      <3>2. \A a \in Activities : resultHandler'[a] = None
        BY <3>1 DEF LinkInv
      <3> QED BY <3>1, <3>2 DEF LinkInv
    <2> QED BY <2>2, <2>3
  <1> QED BY <1>1, <1>2, <1>3, <1>4, <1>5, <1>6, Steps DEF Moves

\* Without the radio nothing interrupts the loop between the request and the screen change.
LEMMA ChildStep ==
    ASSUME ~RadioBuild
    PROVE  DataTypes /\ PendingInv /\ Owned /\ LinkInv /\ ChildInv /\ [Next]_vars => ChildInv'
  <1> SUFFICES ASSUME DataTypes, PendingInv, Owned, LinkInv, ChildInv, [Next]_vars
               PROVE  ChildInv'
    OBVIOUS
  <1>0. None \notin Activities /\ resultHandler \in [Activities -> Activities \cup {None}]
    BY ConstantsAssumption DEF DataTypes
  <1> USE DEF ChildInv, CallbackPcs
  <1>1. CASE Quiet
    <2>1. UNCHANGED navVars
      BY <1>1, QuietChanges
    <2> QED BY <1>1, <2>1, ~RadioBuild DEF Quiet, OutsideRequest, remoteTurn, CallLoop,
       SuppressedRelease, ExclusiveLoop, ActivityLoop, TakeRenderLock, DropRenderLock,
       ChangeState, CallbackRequest, CallbackRequestNow, WaitRegister, Returning,
       ReturnToWhile, ReturnFromHandler, ReturnFromExclusive, UsbRestart, LoopReturns,
       Waiting, WaitNotify, WaitReturn, RadioBusy, ScreenMayChange, LockForPending,
       FlushUpdate, InCallback, Front, navVars, mainVars
  <1>2. CASE Asks
    <2>1. CASE goToSleep \/ HomeGesture \/ LightPanelGesture
      <3>1. /\ UNCHANGED <<currentActivity, resultHandler, after>>
            /\ mpc \in {"outside", "entry"} /\ mpc' \in {"outside", "entry", "off"}
        BY <2>1 DEF goToSleep, HomeGesture, LightPanelGesture, LoopReturns
      <3> QED BY <3>1
    <2>2. CASE startActivityForResult
      <3>1. PICK c \in Fresh :
              /\ pendingActivity' = c /\ pendingAction' = "Push"
              /\ resultHandler' = [resultHandler EXCEPT ![currentActivity] = c]
        BY <2>2 DEF startActivityForResult, pushActivity
      <3>2. /\ UNCHANGED <<currentActivity, mpc, after>> /\ navigated' = TRUE
            /\ mpc = "callback" /\ ~Front({"usb"}) /\ currentActivity \in Activities
        BY <2>2 DEF startActivityForResult, CallbackNavigates, InCallback, Front, DataTypes
      <3>3. resultHandler'[currentActivity] = c /\ after # "exclusive"
        BY <1>0, <3>1, <3>2
      <3> QED BY <3>1, <3>2, <3>3
    <2>3. CASE finish \/ CallbackReplaces
      <3>1. /\ UNCHANGED <<currentActivity, resultHandler, mpc, after>>
            /\ mpc = "callback" /\ navigated # TRUE /\ ~Front({"usb"})
        BY <2>3 DEF finish, CallbackReplaces, CallbackNavigates, InCallback, Front
      <3> QED BY <3>1
    <2> QED BY <1>2, <2>1, <2>2, <2>3 DEF Asks
  <1>3. CASE PopLast
    BY <1>3 DEF PopLast
  <1>4. CASE goHome
    <2>1. currentActivity = None /\ stackActivities = <<>> /\ after' = "while"
      BY <1>4 DEF goHome, PendingInv
    <2>2. UNCHANGED resultHandler /\ currentActivity' \in Activities
      BY <1>4 DEF goHome, Fresh
    <2>3. StackSet = {}
      BY <2>1 DEF StackSet, Range
    <2>4. resultHandler'[currentActivity'] = None
      BY <1>0, <2>1, <2>2, <2>3 DEF LinkInv
    <2> QED BY <2>1, <2>4
  <1>5. CASE PopToParent
    <2>1. Top \in Activities /\ stackActivities \in Seq(Activities)
      BY <1>5, LastAndBelow DEF PopToParent, Top, DataTypes
    <2>2. /\ currentActivity' = Top /\ resultHandler' = HandlerTaken
          /\ mpc' = "callback" => after' = "afterHandler"
          /\ mpc' \in {"callback", "while"}
      BY <1>5 DEF PopToParent
    <2>3. resultHandler'[Top] = None
      BY <1>0, <2>1, <2>2 DEF HandlerTaken
    <2> QED BY <2>2, <2>3
  <1>6. CASE Swap
    <2>1. /\ currentActivity' = pendingActivity /\ pendingActivity \in Activities
          /\ after' = "while"
      BY <1>6 DEF Swap, PendingInv, DataTypes, Actions
    <2>2. resultHandler[pendingActivity] = None
      BY <1>0, <2>1 DEF LinkInv, Owned
    <2>3. resultHandler'[pendingActivity] = None
      BY <1>6, <2>1, <2>2 DEF Swap
    <2> QED BY <2>1, <2>3
  <1>7. CASE Render \/ UNCHANGED vars
    BY <1>7 DEF Render, RenderTake, RenderLocks, RenderFrame, PublishVisit, FetchWaiter,
       NotifyWaiter, RenderUnlocks, Front, vars, navVars, mainVars
  <1> QED BY <1>1, <1>2, <1>3, <1>4, <1>5, <1>6, <1>7, Steps DEF Moves

\* How the main task comes back to a callback.
LEMMA BackToCallback ==
    ASSUME [Next]_vars, mpc' = "callback", mpc \in {"pop", "wait"}
    PROVE  IF mpc = "pop" THEN PopToParent ELSE WaitReturn
  <1>1. CASE Quiet
    BY <1>1 DEF Quiet, OutsideRequest, remoteTurn, CallLoop, SuppressedRelease, ExclusiveLoop,
       ActivityLoop, TakeRenderLock, DropRenderLock, ChangeState, CallbackRequest,
       CallbackRequestNow, WaitRegister, Returning, ReturnToWhile, ReturnFromHandler,
       ReturnFromExclusive, UsbRestart, Waiting, WaitNotify, RadioBusy, WaitReturn,
       ScreenMayChange, LockForPending, FlushUpdate, InCallback
  <1>2. CASE Asks
    BY <1>2 DEF Asks, goToSleep, HomeGesture, LightPanelGesture, startActivityForResult,
       finish, CallbackReplaces, CallbackNavigates, InCallback
  <1>3. CASE Moves \/ goHome
    BY <1>3 DEF Moves, PopLast, PopToParent, Swap, goHome
  <1>4. CASE Render \/ UNCHANGED vars
    BY <1>4 DEF Render, RenderTake, RenderLocks, RenderFrame, PublishVisit, FetchWaiter,
       NotifyWaiter, RenderUnlocks, vars, mainVars
  <1> QED BY <1>1, <1>2, <1>3, <1>4, Steps

\* The only step from the pop to a callback runs the parent's handler.
LEMMA HandlerRuns ==
    DataTypes /\ LinkInv /\ [Next]_vars
      => (mpc = "pop" /\ mpc' = "callback" => resultHandler[currentActivity'] = currentActivity)
  <1> SUFFICES ASSUME DataTypes, LinkInv, [Next]_vars, mpc = "pop", mpc' = "callback"
               PROVE  resultHandler[currentActivity'] = currentActivity
    OBVIOUS
  <1>1. PopToParent
    BY BackToCallback
  <1>2. currentActivity' = Top /\ resultHandler[Top] # None /\ stackActivities # <<>>
    BY <1>1 DEF PopToParent
  <1>3. Len(stackActivities) \in 1..Len(stackActivities)
    BY <1>2, LastAndBelow DEF DataTypes
  <1> QED BY <1>2, <1>3 DEF LinkInv, ChildAbove, Top

LEMMA InitLinks == Init => LinkInv /\ ChildInv
  BY ConstantsAssumption DEF Init, LinkInv, ChildInv

\* A result handler runs with the result of the child it was registered for.
THEOREM HandlersGetTheirChildren == ASSUME ~RadioBuild PROVE Spec => HandlerGetsItsChild
  <1>1. IInv /\ LinkInv /\ ChildInv /\ [Next]_vars => LinkInv' /\ ChildInv'
    BY LinkStep, ChildStep DEF IInv
  <1>2. Spec => [](LinkInv /\ ChildInv)
    BY <1>1, InitLinks, Invariance, PTL DEF Spec
  <1>3. IInv /\ LinkInv /\ [Next]_vars
          => [mpc = "pop" /\ mpc' = "callback"
                => resultHandler[currentActivity'] = currentActivity]_vars
    BY HandlerRuns DEF IInv
  <1> QED BY <1>2, <1>3, Invariance, PTL DEF Spec, HandlerGetsItsChild

-----------------------------------------------------------------------------
(* requestUpdateAndWait(): what is on the panel when it returns, and why   *)
(* it returns.                                                             *)

\* The frame whose waiter is about to be told is of the screen in front; a frame of no activity
\* has no waiter, because only an activity in front waits.
ScreenInv ==
    /\ rpc \in {"publish", "notify"} => shown = currentActivity
    /\ rpc = "signal" => shown = currentActivity \/ ~Front({"menu", "usb"})
    /\ mpc \in {"waitSet", "wait"} => Front({"menu", "usb"})
    /\ mainNote > 0 => shown = currentActivity

\* The panel is never newer than the frame drawn last, and while the main task waits before a
\* panel that is behind, a frame of the current state is coming.
FrameInv ==
    /\ panelFresh = TRUE => frameFresh = TRUE
    /\ mpc = "wait" => panelFresh = TRUE \/ FrameIsComing

LEMMA QuietScreenStep == DataTypes /\ ScreenInv /\ Quiet => ScreenInv'
  <1> SUFFICES ASSUME DataTypes, ScreenInv, Quiet PROVE ScreenInv'
    OBVIOUS
  <1> USE DEF ScreenInv, DataTypes
  <1>1. UNCHANGED <<navVars, drawVars, shown>>
    BY QuietChanges
  <1>2. mainNote' > 0 => mainNote > 0
    BY DEF Quiet, OutsideRequest, remoteTurn, CallLoop, SuppressedRelease,
       ExclusiveLoop, ActivityLoop, TakeRenderLock, DropRenderLock, ChangeState,
       CallbackRequest, CallbackRequestNow, WaitRegister, Returning, ReturnToWhile,
       ReturnFromHandler, ReturnFromExclusive, UsbRestart, Waiting, WaitNotify, WaitReturn,
       RadioBusy, ScreenMayChange, LockForPending, FlushUpdate
  <1>3. mpc' \in {"waitSet", "wait"} => Front({"menu", "usb"})
    BY DEF Quiet, OutsideRequest, remoteTurn, CallLoop, SuppressedRelease,
       ExclusiveLoop, ActivityLoop, TakeRenderLock, DropRenderLock, ChangeState,
       CallbackRequest, CallbackRequestNow, WaitRegister, Returning, ReturnToWhile,
       ReturnFromHandler, ReturnFromExclusive, UsbRestart, LoopReturns, Waiting, WaitNotify,
       WaitReturn, RadioBusy, ScreenMayChange, LockForPending, FlushUpdate, InCallback,
       mainVars
  <1> QED BY <1>1, <1>2, <1>3 DEF Front, navVars, drawVars

\* A screen changes only under the render mutex, which the render task holds from the frame to
\* the notification, or where no frame was drawn and nobody waits.
LEMMA ScreenStep ==
    DataTypes /\ MutexInv /\ PendingInv /\ Owned /\ OneWaiterAtATime
      /\ DrawsOnlyTheLiveForeground /\ ScreenInv /\ [Next]_vars => ScreenInv'
  <1> SUFFICES ASSUME DataTypes, MutexInv, PendingInv, Owned, OneWaiterAtATime,
                      DrawsOnlyTheLiveForeground, ScreenInv, [Next]_vars
               PROVE  ScreenInv'
    OBVIOUS
  <1> USE DEF ScreenInv, DataTypes
  <1>1. CASE Quiet
    BY <1>1, QuietScreenStep
  <1>2. CASE Asks
    <2>1. mpc' \notin {"waitSet", "wait"} /\ UNCHANGED mainNote
      BY <1>2 DEF Asks, goToSleep, HomeGesture, LightPanelGesture, startActivityForResult,
         finish, CallbackReplaces, CallbackNavigates, InCallback, LoopReturns
    <2> QED BY <1>2, <2>1, AskChanges DEF Front, drawVars
  <1>3. CASE Moves
    <2>1. rpc \in {"take", "lock"} /\ mainNote = 0 /\ UNCHANGED <<rpc, mainNote>>
      BY <1>3 DEF Moves, PopLast, PopToParent, Swap, MutexInv, OneWaiterAtATime, RenderPcs,
         drawVars
    <2>2. mpc' \notin {"waitSet", "wait"}
      BY <1>3 DEF Moves, PopLast, PopToParent, Swap
    <2> QED BY <2>1, <2>2
  <1>4. CASE goHome
    BY <1>4 DEF goHome, Front, PendingInv, OneWaiterAtATime, DrawsOnlyTheLiveForeground,
       drawVars, panelVars
  <1>5. CASE Render
    BY <1>5 DEF Render, RenderTake, RenderLocks, RenderFrame, PublishVisit, FetchWaiter,
       NotifyWaiter, RenderUnlocks, Front, OneWaiterAtATime, DrawsOnlyTheLiveForeground,
       navVars, mainVars, panelVars
  <1>6. CASE UNCHANGED vars
    BY <1>6 DEF vars, navVars, mainVars, drawVars, panelVars, Front
  <1> QED BY <1>1, <1>2, <1>3, <1>4, <1>5, <1>6, Steps

\* Only the main task changes a state, and not while it waits; the notification it gave before
\* waiting stands until the render task takes it and draws.
LEMMA FrameStep ==
    DataTypes /\ FlagTypes /\ MutexInv /\ ScreenInv /\ FrameInv /\ [Next]_vars => FrameInv'
  <1> SUFFICES ASSUME DataTypes, FlagTypes, MutexInv, ScreenInv, FrameInv, [Next]_vars
               PROVE  FrameInv'
    OBVIOUS
  <1> USE DEF FrameInv, FrameIsComing, FlagTypes
  <1>1. CASE WaitNotify
    BY <1>1, Zenon DEF WaitNotify, panelVars
  <1>2. CASE Quiet /\ ~WaitNotify
    <2>1. mpc' # "wait"
      BY <1>2 DEF Quiet, OutsideRequest, remoteTurn, CallLoop, SuppressedRelease,
         ExclusiveLoop, ActivityLoop, TakeRenderLock, DropRenderLock, ChangeState,
         CallbackRequest, CallbackRequestNow, WaitRegister, Returning, ReturnToWhile,
         ReturnFromHandler, ReturnFromExclusive, UsbRestart, LoopReturns, Waiting,
         WaitReturn, RadioBusy, ScreenMayChange, LockForPending, FlushUpdate, InCallback,
         mainVars
    <2>2. UNCHANGED <<panelFresh, frameFresh>> \/ StateChanged
      BY <1>2, Zenon DEF Quiet, OutsideRequest, remoteTurn, CallLoop, SuppressedRelease,
         ExclusiveLoop, ActivityLoop, TakeRenderLock, DropRenderLock, ChangeState,
         CallbackRequest, CallbackRequestNow, WaitRegister, Returning, ReturnToWhile,
         ReturnFromHandler, ReturnFromExclusive, UsbRestart, Waiting,
         WaitReturn, RadioBusy, ScreenMayChange, LockForPending, FlushUpdate, panelVars
    <2> QED BY <2>1, <2>2, Zenon DEF StateChanged
  <1>3. CASE Asks
    <2>1. mpc' # "wait" /\ UNCHANGED <<panelFresh, frameFresh>>
      BY <1>3 DEF Asks, goToSleep, HomeGesture, LightPanelGesture, startActivityForResult,
         finish, CallbackReplaces, CallbackNavigates, InCallback, LoopReturns
    <2> QED BY <2>1, Zenon
  <1>4. CASE Moves \/ goHome
    <2>1. mpc' # "wait" /\ (UNCHANGED <<panelFresh, frameFresh>> \/ StateChanged)
      BY <1>4 DEF Moves, PopLast, PopToParent, Swap, Leave, goHome, panelVars
    <2> QED BY <2>1, Zenon DEF StateChanged
  <1>5. CASE RenderTake \/ RenderLocks
    <2>1. mpc = "wait" => currentActivity # None
      BY DEF ScreenInv, Front
    <2> QED BY <1>5, <2>1, Zenon DEF RenderTake, RenderLocks, mainVars, panelVars
  <1>6. CASE RenderFrame
    BY <1>6, Zenon DEF RenderFrame, mainVars
  <1>7. CASE PublishVisit \/ FetchWaiter \/ NotifyWaiter \/ RenderUnlocks
    <2>1. UNCHANGED <<mpc, panelFresh, frameFresh, renderNote>> /\ rpc \notin {"lock", "draw"}
      BY <1>7 DEF PublishVisit, FetchWaiter, NotifyWaiter, RenderUnlocks, mainVars, panelVars
    <2> QED BY <2>1, Zenon
  <1>8. CASE UNCHANGED vars
    BY <1>8, Zenon DEF vars, mainVars, drawVars, panelVars
  <1> QED BY <1>1, <1>2, <1>3, <1>4, <1>5, <1>6, <1>7, <1>8, Steps DEF Render

\* Whatever render was under way, and though activities change what they draw without a lock:
\* requestUpdateAndWait() returns on the caller's own screen, with its state on the panel or in
\* a frame that is coming.
THEOREM WaitsEndOnTheirScreen == Spec => WaitEndsOnItsScreen
  <1>1. Init => ScreenInv /\ FrameInv
    BY DEF Init, ScreenInv, FrameInv
  <1>2. IInv /\ ScreenInv /\ FrameInv /\ [Next]_vars => ScreenInv' /\ FrameInv'
    BY ScreenStep, FrameStep DEF IInv
  <1>3. Spec => [](ScreenInv /\ FrameInv)
    BY <1>1, <1>2, Invariance, PTL DEF Spec
  <1>4. ScreenInv /\ FrameInv /\ [Next]_vars
          => [mpc = "wait" /\ mpc' = "callback"
                => shown = currentActivity /\ (panelFresh = TRUE \/ FrameIsComing)]_vars
    <2> SUFFICES ASSUME ScreenInv, FrameInv, [Next]_vars, mpc = "wait", mpc' = "callback"
                 PROVE  shown = currentActivity /\ (panelFresh = TRUE \/ FrameIsComing)
      OBVIOUS
    <2>1. mainNote > 0
      BY BackToCallback DEF WaitReturn
    <2> QED BY <2>1 DEF ScreenInv, FrameInv
  <1> QED BY <1>3, <1>4, Invariance, PTL DEF Spec, WaitEndsOnItsScreen

\* The counterpart in a state: a task blocked in requestUpdateAndWait() does not hold the mutex
\* the frame needs, and either has its notification, or is named as the waiter of a frame that
\* the render task will draw or is drawing.  Nothing it waits for waits for it.
NoWakeUpIsLost ==
    mpc = "wait" =>
      /\ mutex # "main"
      /\ \/ mainNote > 0 \/ rpc = "notify"
         \/ waitingTask = TRUE
              /\ (renderNote = TRUE \/ rpc \in {"lock", "draw", "publish", "signal"})

\* A request whose frame has not begun is still written down: in the flag, in the notification,
\* in a render task past its notification, or by the main task about to notify.
NoRequestIsLost ==
    owed = TRUE => requestedUpdate = TRUE \/ renderNote = TRUE \/ rpc = "lock" \/ mpc = "waitSet"

\* Registered, not yet notified: the render task may already have answered an older request.
Registered ==
    mpc = "waitSet" => mutex # "main" /\ (waitingTask = TRUE \/ rpc = "notify" \/ mainNote > 0)

LEMMA WakeUpStep ==
    DataTypes /\ FlagTypes /\ MutexInv /\ OneWaiterAtATime /\ NoWakeUpIsLost /\ Registered
      /\ [Next]_vars => NoWakeUpIsLost' /\ Registered'
  <1> SUFFICES ASSUME DataTypes, FlagTypes, MutexInv, OneWaiterAtATime, NoWakeUpIsLost,
                      Registered, [Next]_vars
               PROVE  NoWakeUpIsLost' /\ Registered'
    OBVIOUS
  <1> USE DEF NoWakeUpIsLost, Registered, DataTypes
  <1>1. CASE Quiet
    <2>1. UNCHANGED rpc
      BY <1>1, QuietChanges DEF drawVars
    <2>2. CASE WaitRegister \/ WaitNotify
      BY <2>1, <2>2 DEF WaitRegister, WaitNotify, InCallback
    <2>3. CASE ~(WaitRegister \/ WaitNotify)
      BY <1>1, <2>3 DEF Quiet, OutsideRequest, remoteTurn, CallLoop, SuppressedRelease,
         ExclusiveLoop, ActivityLoop, TakeRenderLock, DropRenderLock, ChangeState,
         CallbackRequest, CallbackRequestNow, Returning, ReturnToWhile, ReturnFromHandler,
         ReturnFromExclusive, UsbRestart, LoopReturns, Waiting, WaitReturn, RadioBusy,
         ScreenMayChange, LockForPending, FlushUpdate, InCallback, mainVars
    <2> QED BY <2>2, <2>3
  <1>2. CASE Asks
    BY <1>2 DEF Asks, goToSleep, HomeGesture, LightPanelGesture, startActivityForResult,
       finish, CallbackReplaces, CallbackNavigates, InCallback, LoopReturns
  <1>3. CASE Moves \/ goHome
    BY <1>3 DEF Moves, PopLast, PopToParent, Swap, goHome
  <1>4. CASE Render
    BY <1>4 DEF Render, RenderTake, RenderLocks, RenderFrame, PublishVisit, FetchWaiter,
       NotifyWaiter, RenderUnlocks, Acquire, MutexInv, OneWaiterAtATime, mainVars
  <1>5. CASE UNCHANGED vars
    BY <1>5 DEF vars, mainVars, drawVars
  <1> QED BY <1>1, <1>2, <1>3, <1>4, <1>5, Steps

LEMMA RequestStep == FlagTypes /\ NoRequestIsLost /\ [Next]_vars => NoRequestIsLost'
  <1> SUFFICES ASSUME FlagTypes, NoRequestIsLost, [Next]_vars PROVE NoRequestIsLost'
    OBVIOUS
  <1> USE DEF NoRequestIsLost, FlagTypes
  <1>1. CASE Quiet
    <2>1. UNCHANGED rpc
      BY <1>1, QuietChanges DEF drawVars
    <2> QED BY <1>1, <2>1 DEF Quiet, OutsideRequest, remoteTurn, CallLoop, SuppressedRelease,
       ExclusiveLoop, ActivityLoop, TakeRenderLock, DropRenderLock, ChangeState,
       CallbackRequest, CallbackRequestNow, WaitRegister, Returning, ReturnToWhile,
       ReturnFromHandler, ReturnFromExclusive, UsbRestart, LoopReturns, Waiting, WaitNotify,
       WaitReturn, RadioBusy, ScreenMayChange, LockForPending, FlushUpdate, InCallback,
       notifyRender, requestUpdate, mainVars
  <1>2. CASE Asks
    BY <1>2 DEF Asks, goToSleep, HomeGesture, LightPanelGesture, startActivityForResult,
       finish, CallbackReplaces, CallbackNavigates, InCallback, LoopReturns, drawVars
  <1>3. CASE Moves \/ goHome
    BY <1>3 DEF Moves, PopLast, PopToParent, Swap, goHome, requestUpdate, drawVars
  <1>4. CASE Render
    BY <1>4 DEF Render, RenderTake, RenderLocks, RenderFrame, PublishVisit, FetchWaiter,
       NotifyWaiter, RenderUnlocks, mainVars
  <1>5. CASE UNCHANGED vars
    BY <1>5 DEF vars, mainVars, drawVars
  <1> QED BY <1>1, <1>2, <1>3, <1>4, <1>5, Steps

\* requestUpdateAndWait() registers under the spinlock before it notifies: no interleaving with
\* a frame already under way loses its wake-up, and it never holds the mutex the frame needs.
THEOREM WakeUpsAreNeverLost == Spec => []NoWakeUpIsLost
  <1>1. Init => NoWakeUpIsLost /\ Registered
    BY DEF Init, NoWakeUpIsLost, Registered
  <1>2. IInv /\ NoWakeUpIsLost /\ Registered /\ [Next]_vars => NoWakeUpIsLost' /\ Registered'
    BY WakeUpStep DEF IInv
  <1> QED BY <1>1, <1>2, Invariance, PTL DEF Spec

\* Requests from three places and two ways to pass them on: none is dropped between the flag,
\* the notification and the frame.
THEOREM RequestsAreNeverLost == Spec => []NoRequestIsLost
  <1>1. Init => NoRequestIsLost
    BY Zenon DEF Init, NoRequestIsLost
  <1>2. IInv /\ NoRequestIsLost /\ [Next]_vars => NoRequestIsLost'
    BY RequestStep DEF IInv
  <1> QED BY <1>1, <1>2, Invariance, PTL DEF Spec

-----------------------------------------------------------------------------
(* Refinement: every step of the code is a step of the stack or invisible. *)

nav == IF currentActivity = None THEN stackActivities
       ELSE Append(stackActivities, currentActivity)
homes == {a \in Activities : KindOf[a] = "home"}

LEMMA NavInit == Init => Screens!Init
  <1> SUFFICES ASSUME Init PROVE nav \in {<<a>> : a \in Activities}
    BY DEF Screens!Init, nav
  <1>1. stackActivities = <<>> /\ currentActivity \in Activities
    BY DEF Init
  <1>2. nav = <<currentActivity>>
    BY <1>1, ConstantsAssumption DEF nav
  <1> QED BY <1>1, <1>2

LEMMA NavStep == IInv /\ [Next]_vars => Screens!Next \/ UNCHANGED nav
  <1> SUFFICES ASSUME IInv, [Next]_vars PROVE Screens!Next \/ UNCHANGED nav
    OBVIOUS
  <1>0. DataTypes /\ PendingInv /\ Owned /\ None \notin Activities
    BY ConstantsAssumption DEF IInv
  <1>1. CASE Quiet \/ Asks \/ Render \/ UNCHANGED vars
    <2>1. UNCHANGED <<currentActivity, stackActivities>>
      <3>1. CASE Quiet
        BY <3>1, QuietChanges DEF navVars
      <3>2. CASE Asks
        BY <3>2, <1>0, AskChanges
      <3>3. CASE Render \/ UNCHANGED vars
        BY <3>3 DEF Render, RenderTake, RenderLocks, RenderFrame, PublishVisit, FetchWaiter,
           NotifyWaiter, RenderUnlocks, vars, navVars
      <3> QED BY <1>1, <3>1, <3>2, <3>3
    <2> QED BY <2>1 DEF nav
  <1>2. CASE PopLast
    <2>1. /\ currentActivity \in Activities /\ stackActivities \in Seq(Activities)
          /\ nav = Append(stackActivities, currentActivity) /\ nav' = stackActivities
      BY <1>0, <1>2 DEF DataTypes, PopLast, nav
    <2>2. Screens!Close
      <3>1. nav # <<>> /\ SubSeq(nav, 1, Len(nav) - 1) = stackActivities
        BY <2>1, BelowAppend
      <3> QED BY <2>1, <3>1 DEF Screens!Close, nav
    <2> QED BY <2>2 DEF Screens!Next
  <1>3. CASE goHome
    <2>1. PICK h \in homes : currentActivity' = h
      BY <1>3 DEF goHome, Fresh, homes
    <2>2. nav = <<>> /\ nav' = <<h>>
      BY <1>0, <1>3, <2>1 DEF goHome, PendingInv, nav, homes
    <2>3. Screens!Home(h)
      BY <2>2 DEF Screens!Home, nav
    <2> QED BY <2>1, <2>3 DEF Screens!Next, homes
  <1>4. CASE PopToParent
    <2>1. /\ Top \in Activities /\ Below \in Seq(Activities)
          /\ Append(Below, Top) = stackActivities /\ stackActivities \in Seq(Activities)
      BY <1>0, <1>4, LastAndBelow DEF DataTypes, PopToParent, Top, Below
    <2>2. currentActivity \in Activities
      BY <1>0, <1>4 DEF DataTypes, PopToParent
    <2>3. nav = Append(stackActivities, currentActivity) /\ nav' = stackActivities
      BY <1>0, <1>4, <2>1, <2>2 DEF PopToParent, nav
    <2>4. nav # <<>> /\ SubSeq(nav, 1, Len(nav) - 1) = stackActivities
      BY <2>1, <2>2, <2>3, BelowAppend
    <2>5. Screens!Close
      BY <2>3, <2>4 DEF Screens!Close, nav
    <2> QED BY <2>5 DEF Screens!Next
  <1>5. CASE Swap
    <2> DEFINE q == pendingActivity
    <2>1. /\ currentActivity \in Activities /\ q \in Activities /\ currentActivity' = q
          /\ stackActivities \in Seq(Activities)
      BY <1>0, <1>5 DEF DataTypes, Swap, PendingInv, Actions
    <2>2. /\ nav = Append(stackActivities, currentActivity)
          /\ nav \in Seq(Activities) /\ nav # <<>>
          /\ Range(nav) = StackSet \cup {currentActivity}
      BY <1>0, <2>1, AppendElements, AppendProperties DEF nav, StackSet
    <2>3. q \notin Screens!Open
      <3>1. q \notin Range(nav)
        BY <1>0, <2>1, <2>2 DEF Owned
      <3>2. Screens!Open = Range(nav)
        BY <2>2, LenProperties DEF Screens!Open, Range, nav
      <3> QED BY <3>1, <3>2
    <2>4. CASE pendingAction = "Push"
      <3>1. nav' = Append(nav, q)
        BY <1>0, <1>5, <2>1, <2>2, <2>4 DEF Swap, nav
      <3>2. Screens!Push(q)
        BY <2>2, <2>3, <3>1 DEF Screens!Push, nav
      <3> QED BY <2>1, <3>2 DEF Screens!Next
    <2>5. CASE pendingAction # "Push"
      <3>1. nav' = <<q>>
        BY <1>0, <1>5, <2>1, <2>5 DEF Swap, nav
      <3>2. Screens!Replace(q)
        BY <2>2, <2>3, <3>1 DEF Screens!Replace, nav
      <3> QED BY <2>1, <3>2 DEF Screens!Next
    <2> QED BY <2>4, <2>5
  <1> QED BY <1>1, <1>2, <1>3, <1>4, <1>5, Steps DEF Moves

\* ActivityManager implements the abstract stack: a screen opens above the one in front, closes
\* to the one below it or takes the place of all, and the emptied stack is left to Home.
THEOREM Refinement == Spec => ImplementsNavStack
  <1>1. IInv /\ [Next]_vars => [Screens!Next]_nav
    BY NavStep
  <1>2. Spec => [][Screens!Next]_nav
    BY <1>1, Invariance, PTL DEF Spec
  <1>3. Spec => Screens!Init
    BY NavInit DEF Spec
  <1> QED BY <1>2, <1>3 DEF ImplementsNavStack, Screens!SafeSpec, nav

=============================================================================
