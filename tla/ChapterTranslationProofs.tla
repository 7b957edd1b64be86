---------------------- MODULE ChapterTranslationProofs ----------------------
(***************************************************************************)
(* Proofs about ChapterTranslation, for any number of runs and power       *)
(* losses.  Each theorem names the faults of the environment it excludes;  *)
(* those it does not name may happen.                                      *)
(*                                                                         *)
(* The argument: a worker lives inside its run and sets taskDone or        *)
(* taskFailed as it ends (WorkerInv), so the framebuffer is away only      *)
(* during a run (BufferInv), onExit() outlives a worker that answers in    *)
(* time (ExitInv), and the files can be followed from the rewrite to the   *)
(* commit (OutputInv, WholeInv, KeepInv) and to the caches (CacheInv).     *)
(* Whoever waits is answered, because a boundary is pending, served or     *)
(* acknowledged, one at a time (HandInv), and a worker that ends says so   *)
(* (StartedInv).                                                           *)
(***************************************************************************)
EXTENDS ChapterTranslation, TLAPS

-----------------------------------------------------------------------------
(* The inductive invariant, part by part.                                  *)

\* The main task is inside the run, or inside onExit().
BusyPcs == {"statusWait", "release", "repaint", "repaintWait", "rerelease", "ack"}
ExitPcs == {"exit", "exitWait", "exitRestore"}
Prepared == {"CONFIRM_RETRANSLATE"} \cup PickerStates

\* Only a run is served and waited for, and only an activity that was entered is left.
PlaceInv ==
    /\ mpc \in BusyPcs => screen = "translation" /\ state = "TRANSLATING"
    /\ mpc \in ExitPcs => screen # "reader"
    /\ screen = "panel" => LightPanel

\* A worker runs only inside its run, and says so when it ends.
WorkerInv ==
    /\ wpc # "none" => /\ workerStarted /\ ~taskDone /\ ~taskFailed
                       /\ screen \in {"translation", "panel"} /\ state = "TRANSLATING"
    /\ mpc \in {"statusWait", "release"} => wpc = "none" /\ ~taskDone /\ ~taskFailed

\* The render lock is with the task that is between taking it and giving it back.
LockInv ==
    /\ lock = "render" <=> rpc # "take"
    /\ lock = "main" <=> mpc \in {"exitWait", "exitRestore"}

\* The framebuffer is away only during a run, and never from under a frame.
BufferInv ==
    /\ ~fb => screen \in {"translation", "panel"} /\ state = "TRANSLATING"
    /\ rpc = "draw" /\ ~LightPanel => fb

\* A worker that answers within the wait is waited for.
ExitInv == ~SlowNetwork => ~stray /\ (mpc = "exitRestore" => wpc = "none")

\* Runs are numbered from one.
RunInv ==
    /\ run \in 0..MaxRuns /\ crashes \in 0..MaxCrashes
    /\ screen # "reader" /\ state \in Prepared => run < MaxRuns
    /\ wpc # "none" \/ mpc \in {"statusWait", "release"} => run > 0

\* Until the rename nobody but the run removes its output.
OutputInv ==
    ~SlowNetwork /\ wpc \in {"rewrite", "boundary", "close", "check", "removeFinal", "rename"}
        => part # Absent

\* The output of this run's rewriter once it has come to its end.
Ended == {Output("whole"), Output("damaged")}

\* An output that may be committed is of a rewriter that came to its end, from there to the result screen.
WholeInv ==
    /\ wpc \in {"close", "check"} /\ lastResult \in {"translated", "passthrough"} =>
         part \in {Absent} \cup Ended
    /\ wpc \in {"removeFinal", "rename"} => part \in {Absent} \cup Ended
    /\ wpc \in {"removePairs", "removeBin"} => final \in Ended
    /\ screen # "reader" /\ state = "TRANSLATING" /\ taskDone /\ ~cancelFlag /\ lastResult # "cancelled" =>
         final \in Ended
    /\ screen # "reader" /\ state \in {"DONE", "CHOOSE_DISPLAY_MODE"} => final \in Ended
    /\ CommittedRanToItsEnd

\* The translation a run started from is untouched until its commit.
KeepInv ==
    ~SlowNetwork /\ ~StorageFaults =>
      /\ UnfinishedKeepsPrior
      /\ mpc \in {"statusWait", "release"} => final = prior

\* Outside the last steps of a commit the caches are those of the translation that is there.
CacheInv ==
    ~SlowNetwork /\ MaxCrashes = 0 =>
      /\ wpc \notin {"removePairs", "removeBin"} /\ final # Absent /\ bin # Absent /\ bin # Original => bin = final
      /\ wpc # "removePairs" /\ final # Absent /\ pairs # Absent => pairs = final
      /\ wpc = "rename" => final = Absent
      /\ shown # Absent => screen = "reader" /\ shown = Source

\* Types, in parts.
PlaceTypes ==
    /\ screen \in {"reader", "translation", "picker", "panel"} /\ state \in States
    /\ mpc \in MainPcs /\ wpc \in WorkerPcs /\ lastResult \in Results
    /\ lock \in {"free", "main", "render"} /\ rpc \in {"take", "draw", "skip"}
SharedFlags ==
    /\ cancelFlag \in BOOLEAN /\ taskDone \in BOOLEAN /\ taskFailed \in BOOLEAN
    /\ boundaryPending \in BOOLEAN /\ boundaryAck \in BOOLEAN
OwnFlags ==
    /\ workerStarted \in BOOLEAN /\ stray \in BOOLEAN /\ fb \in BOOLEAN
    /\ renderNote \in BOOLEAN /\ waiting \in BOOLEAN /\ tmp \in BOOLEAN
FileTypes ==
    /\ prior \in Content /\ part \in Content /\ final \in Content
    /\ pairs \in Content /\ bin \in Content /\ shown \in Content

IInv ==
    /\ PlaceTypes /\ SharedFlags /\ OwnFlags /\ FileTypes
    /\ PlaceInv /\ WorkerInv /\ LockInv /\ BufferInv /\ ExitInv
    /\ RunInv /\ OutputInv /\ WholeInv /\ KeepInv /\ CacheInv

-----------------------------------------------------------------------------
(* Each part is kept by every step, from the parts it rests on.            *)


\* startTranslation() enters a run from the Wi-Fi picker; only loop() of this activity goes on in it.
LEMMA PlaceInvStep ==
  ASSUME PlaceInv, [Next]_vars
  PROVE  PlaceInv'
  <1> USE DEF PlaceInv, BusyPcs, ExitPcs, PickerStates
  <1>1. CASE Reader
    BY <1>1 DEF Reader, OpenChapter, Reading, buildPairCacheIfNeeded, DeleteTranslations,
       launchTranslation, Source, CacheHit, Absent, Original, vars
  <1>2. CASE Before
    BY <1>2 DEF Before, ConfirmRetranslate, Picked, WifiFailed, startTranslation, Looping
  <1>3. CASE During
    BY <1>3 DEF During, Waited, CreateWorker, ClaimBoundary, tryRestoreFramebuffer, Rerelease,
       AckBoundary, FinishDone, FinishFailed, Looping, releaseFramebuffer, restoreFramebuffer,
       ResultState
  <1>4. CASE User
    BY <1>4 DEF User, RepaintProgress, BackCancels, OpenPanel, ClosePanel, Leave, Looping
  <1>5. CASE Leaving
    BY <1>5 DEF Leaving, onExit, ExitWaited, ExitRestore, ExitWaitEnds, HandBack
  <1>6. CASE Render
    BY <1>6 DEF Render, RenderBegins, RenderEnds, DrawsNow
  <1>7. CASE Worker
    BY <1>7 DEF Worker, ExtractFails, Extract, OpenPartFails, OpenPart, serviceBatchBoundary,
       ResumeRewrite, rewriteFromFile, CloseOutput, DiscardCancelled, DiscardFailed, Commit,
       RemoveFinal, RenameFails, Rename, DropPairs, DropPages, Fail, BoundaryEnds, Discard, RemovePairs,
       RemoveBin, Output, Absent, workerUnchanged
  <1>8. CASE Fault
    BY <1>8 DEF Fault, PowerLoss, RestoreImpossible, StrayWorker, Looping, Reboot, Absent
  <1>9. CASE UNCHANGED vars
    BY <1>9 DEF vars
  <1> QED BY <1>1, <1>2, <1>3, <1>4, <1>5, <1>6, <1>7, <1>8, <1>9 DEF Next

\* FinishDone and FinishFailed end a run only after its worker; Leave does not end one.
LEMMA WorkerInvStep ==
  ASSUME PlaceInv, WorkerInv, [Next]_vars
  PROVE  WorkerInv'
  <1> USE DEF WorkerInv, PlaceInv, BusyPcs, ExitPcs
  <1>1. CASE Reader
    BY <1>1 DEF Reader, OpenChapter, Reading, buildPairCacheIfNeeded, DeleteTranslations,
       launchTranslation, Source, CacheHit, Absent, Original, flagVars, workerVars, vars
  <1>2. CASE Before
    BY <1>2 DEF Before, ConfirmRetranslate, Picked, WifiFailed, startTranslation, Looping, flagVars,
       workerVars
  <1>3. CASE During
    <2>1. CASE Waited
      BY <2>1 DEF Waited, flagVars, workerVars
    <2>2. CASE CreateWorker
      BY <2>2 DEF CreateWorker, releaseFramebuffer, flagVars
    <2>3. CASE ClaimBoundary
      BY <2>3 DEF ClaimBoundary, Looping, workerVars, flagsButPending
    <2>4. CASE tryRestoreFramebuffer
      BY <2>4 DEF tryRestoreFramebuffer, flagVars, workerVars
    <2>5. CASE Rerelease
      BY <2>5 DEF Rerelease, releaseFramebuffer, flagVars, workerVars
    <2>6. CASE AckBoundary
      BY <2>6 DEF AckBoundary, workerVars, flagsButAck
    <2>7. CASE FinishDone
      BY <2>7 DEF FinishDone, Looping, restoreFramebuffer, ResultState, flagVars, workerVars
    <2>8. CASE FinishFailed
      BY <2>8 DEF FinishFailed, Looping, restoreFramebuffer, flagVars, workerVars
    <2> QED BY <1>3, <2>1, <2>2, <2>3, <2>4, <2>5, <2>6, <2>7, <2>8 DEF During
  <1>4. CASE User
    BY <1>4 DEF User, RepaintProgress, BackCancels, OpenPanel, ClosePanel, Leave, Looping, flagVars,
       workerVars, flagsButCancel
  <1>5. CASE Leaving
    BY <1>5 DEF Leaving, onExit, ExitWaited, ExitRestore, ExitWaitEnds, HandBack, flagVars, workerVars,
       flagsButCancel
  <1>6. CASE Render
    BY <1>6 DEF Render, RenderBegins, RenderEnds, DrawsNow, flagVars, workerVars
  <1>7. CASE Worker
    BY <1>7 DEF Worker, ExtractFails, Extract, OpenPartFails, OpenPart, serviceBatchBoundary,
       ResumeRewrite, rewriteFromFile, CloseOutput, DiscardCancelled, DiscardFailed, Commit,
       RemoveFinal, RenameFails, Rename, DropPairs, DropPages, Fail, BoundaryEnds, Discard, RemovePairs,
       RemoveBin, Output, Absent, flagVars, flagsButDone, flagsButFailed, flagsButPending,
       workerUnchanged
  <1>8. CASE Fault
    BY <1>8 DEF Fault, PowerLoss, RestoreImpossible, StrayWorker, Looping, Reboot, Absent, flagVars
  <1>9. CASE UNCHANGED vars
    BY <1>9 DEF vars, flagVars
  <1> QED BY <1>1, <1>2, <1>3, <1>4, <1>5, <1>6, <1>7, <1>8, <1>9 DEF Next

\* Rendering and onExit() are the only holders, releaseFramebuffer() needs it free.
LEMMA LockInvStep ==
  ASSUME LockInv, [Next]_vars
  PROVE  LockInv'
  <1> USE DEF LockInv
  <1>1. CASE Reader
    BY <1>1 DEF Reader, OpenChapter, Reading, buildPairCacheIfNeeded, DeleteTranslations,
       launchTranslation, Source, CacheHit, Absent, Original, drawVars, vars
  <1>2. CASE Before
    BY <1>2 DEF Before, ConfirmRetranslate, Picked, WifiFailed, startTranslation, Looping
  <1>3. CASE During
    BY <1>3 DEF During, Waited, CreateWorker, ClaimBoundary, tryRestoreFramebuffer, Rerelease,
       AckBoundary, FinishDone, FinishFailed, Looping, releaseFramebuffer, restoreFramebuffer,
       ResultState, drawVars
  <1>4. CASE User
    BY <1>4 DEF User, RepaintProgress, BackCancels, OpenPanel, ClosePanel, Leave, Looping, drawVars
  <1>5. CASE Leaving
    BY <1>5 DEF Leaving, onExit, ExitWaited, ExitRestore, ExitWaitEnds, HandBack, drawVars
  <1>6. CASE Render
    BY <1>6 DEF Render, RenderBegins, RenderEnds, DrawsNow
  <1>7. CASE Worker
    BY <1>7 DEF Worker, ExtractFails, Extract, OpenPartFails, OpenPart, serviceBatchBoundary,
       ResumeRewrite, rewriteFromFile, CloseOutput, DiscardCancelled, DiscardFailed, Commit,
       RemoveFinal, RenameFails, Rename, DropPairs, DropPages, Fail, BoundaryEnds, Discard, RemovePairs,
       RemoveBin, Output, Absent, workerUnchanged, drawVars
  <1>8. CASE Fault
    BY <1>8 DEF Fault, PowerLoss, RestoreImpossible, StrayWorker, Looping, Reboot, Absent, drawVars
  <1>9. CASE UNCHANGED vars
    BY <1>9 DEF vars, drawVars
  <1> QED BY <1>1, <1>2, <1>3, <1>4, <1>5, <1>6, <1>7, <1>8, <1>9 DEF Next

\* Every way out of TRANSLATING restores the framebuffer.
LEMMA BufferInvStep ==
  ASSUME PlaceInv, LockInv, BufferInv, [Next]_vars
  PROVE  BufferInv'
  <1> USE DEF BufferInv, PlaceInv, LockInv, BusyPcs, ExitPcs
  <1>1. CASE Reader
    BY <1>1 DEF Reader, OpenChapter, Reading, buildPairCacheIfNeeded, DeleteTranslations,
       launchTranslation, Source, CacheHit, Absent, Original, drawVars, vars
  <1>2. CASE Before
    BY <1>2 DEF Before, ConfirmRetranslate, Picked, WifiFailed, startTranslation, Looping
  <1>3. CASE During
    BY <1>3 DEF During, Waited, CreateWorker, ClaimBoundary, tryRestoreFramebuffer, Rerelease,
       AckBoundary, FinishDone, FinishFailed, Looping, releaseFramebuffer, restoreFramebuffer,
       ResultState, drawVars
  <1>4. CASE User
    BY <1>4 DEF User, RepaintProgress, BackCancels, OpenPanel, ClosePanel, Leave, Looping, drawVars
  <1>5. CASE Leaving
    BY <1>5 DEF Leaving, onExit, ExitWaited, ExitRestore, ExitWaitEnds, HandBack, drawVars
  <1>6. CASE Render
    BY <1>6 DEF Render, RenderBegins, RenderEnds, DrawsNow
  <1>7. CASE Worker
    BY <1>7 DEF Worker, ExtractFails, Extract, OpenPartFails, OpenPart, serviceBatchBoundary,
       ResumeRewrite, rewriteFromFile, CloseOutput, DiscardCancelled, DiscardFailed, Commit,
       RemoveFinal, RenameFails, Rename, DropPairs, DropPages, Fail, BoundaryEnds, Discard, RemovePairs,
       RemoveBin, Output, Absent, workerUnchanged, drawVars
  <1>8. CASE Fault
    BY <1>8 DEF Fault, PowerLoss, RestoreImpossible, StrayWorker, Looping, Reboot, Absent, drawVars
  <1>9. CASE UNCHANGED vars
    BY <1>9 DEF vars, drawVars
  <1> QED BY <1>1, <1>2, <1>3, <1>4, <1>5, <1>6, <1>7, <1>8, <1>9 DEF Next

\* onExit() goes on when the worker has said it is done, or was never created.
LEMMA ExitInvStep ==
  ASSUME PlaceInv, WorkerInv, ExitInv, [Next]_vars
  PROVE  ExitInv'
  <1> USE DEF ExitInv, WorkerInv, PlaceInv, BusyPcs, ExitPcs
  <1>1. CASE Reader
    BY <1>1 DEF Reader, OpenChapter, Reading, buildPairCacheIfNeeded, DeleteTranslations,
       launchTranslation, Source, CacheHit, Absent, Original, flagVars, workerVars, vars
  <1>2. CASE Before
    BY <1>2 DEF Before, ConfirmRetranslate, Picked, WifiFailed, startTranslation, Looping, flagVars,
       workerVars
  <1>3. CASE During
    BY <1>3 DEF During, Waited, CreateWorker, ClaimBoundary, tryRestoreFramebuffer, Rerelease,
       AckBoundary, FinishDone, FinishFailed, Looping, releaseFramebuffer, restoreFramebuffer,
       ResultState, flagVars, workerVars, flagsButAck, flagsButPending
  <1>4. CASE User
    BY <1>4 DEF User, RepaintProgress, BackCancels, OpenPanel, ClosePanel, Leave, Looping, flagVars,
       workerVars, flagsButCancel
  <1>5. CASE Leaving
    BY <1>5 DEF Leaving, onExit, ExitWaited, ExitRestore, ExitWaitEnds, HandBack, flagVars, workerVars,
       flagsButCancel
  <1>6. CASE Render
    BY <1>6 DEF Render, RenderBegins, RenderEnds, DrawsNow, flagVars, workerVars
  <1>7. CASE Worker
    BY <1>7 DEF Worker, ExtractFails, Extract, OpenPartFails, OpenPart, serviceBatchBoundary,
       ResumeRewrite, rewriteFromFile, CloseOutput, DiscardCancelled, DiscardFailed, Commit,
       RemoveFinal, RenameFails, Rename, DropPairs, DropPages, Fail, BoundaryEnds, Discard, RemovePairs,
       RemoveBin, Output, Absent, flagVars, flagsButDone, flagsButFailed, flagsButPending,
       workerUnchanged
  <1>8. CASE Fault
    BY <1>8 DEF Fault, PowerLoss, RestoreImpossible, StrayWorker, Looping, Reboot, Absent, flagVars
  <1>9. CASE UNCHANGED vars
    BY <1>9 DEF vars, flagVars
  <1> QED BY <1>1, <1>2, <1>3, <1>4, <1>5, <1>6, <1>7, <1>8, <1>9 DEF Next

\* Only DeleteTranslations and RemoveFinal remove a translation.
LEMMA KeepInvStep ==
  ASSUME PlaceInv, WorkerInv, ExitInv, OutputInv, KeepInv, [Next]_vars
  PROVE  KeepInv'
  <1> USE DEF KeepInv, UnfinishedKeepsPrior, PlaceInv, WorkerInv, ExitInv, OutputInv, BusyPcs, ExitPcs
  <1>1. CASE Reader
    BY <1>1 DEF Reader, OpenChapter, Reading, buildPairCacheIfNeeded, DeleteTranslations,
       launchTranslation, Source, CacheHit, Absent, Original, flagVars, fileVars, workerVars, vars
  <1>2. CASE Before
    BY <1>2 DEF Before, ConfirmRetranslate, Picked, WifiFailed, startTranslation, Looping, flagVars,
       fileVars, workerVars, diskVars
  <1>3. CASE During
    <2>1. CASE Waited
      BY <2>1 DEF Waited, flagVars, workerVars, diskVars, fileVars
    <2>2. CASE CreateWorker
      BY <2>2 DEF CreateWorker, releaseFramebuffer, flagVars, diskVars, fileVars
    <2>3. CASE ClaimBoundary
      BY <2>3 DEF ClaimBoundary, Looping, workerVars, diskVars, flagsButPending, fileVars
    <2>4. CASE tryRestoreFramebuffer
      BY <2>4 DEF tryRestoreFramebuffer, flagVars, workerVars, diskVars, fileVars
    <2>5. CASE Rerelease
      BY <2>5 DEF Rerelease, releaseFramebuffer, flagVars, workerVars, diskVars, fileVars
    <2>6. CASE AckBoundary
      BY <2>6 DEF AckBoundary, workerVars, diskVars, flagsButAck, fileVars
    <2>7. CASE FinishDone
      BY <2>7 DEF FinishDone, Looping, restoreFramebuffer, ResultState, flagVars, workerVars, diskVars,
         fileVars
    <2>8. CASE FinishFailed
      BY <2>8 DEF FinishFailed, Looping, restoreFramebuffer, flagVars, workerVars, diskVars, fileVars
    <2> QED BY <1>3, <2>1, <2>2, <2>3, <2>4, <2>5, <2>6, <2>7, <2>8 DEF During
  <1>4. CASE User
    BY <1>4 DEF User, RepaintProgress, BackCancels, OpenPanel, ClosePanel, Leave, Looping, flagVars,
       workerVars, diskVars, flagsButCancel, fileVars
  <1>5. CASE Leaving
    BY <1>5 DEF Leaving, onExit, ExitWaited, ExitRestore, ExitWaitEnds, HandBack, flagVars, workerVars,
       diskVars, flagsButCancel, fileVars
  <1>6. CASE Render
    BY <1>6 DEF Render, RenderBegins, RenderEnds, DrawsNow, flagVars, workerVars, diskVars, fileVars
  <1>7. CASE Worker
    BY <1>7 DEF Worker, ExtractFails, Extract, OpenPartFails, OpenPart, serviceBatchBoundary,
       ResumeRewrite, rewriteFromFile, CloseOutput, DiscardCancelled, DiscardFailed, Commit,
       RemoveFinal, RenameFails, Rename, DropPairs, DropPages, Fail, BoundaryEnds, Discard, RemovePairs,
       RemoveBin, Output, Absent, flagVars, fileVars, flagsButDone, flagsButPending, workerUnchanged
  <1>8. CASE Fault
    BY <1>8 DEF Fault, PowerLoss, RestoreImpossible, StrayWorker, Looping, Reboot, Absent, flagVars,
       fileVars
  <1>9. CASE UNCHANGED vars
    BY <1>9 DEF vars, flagVars, fileVars
  <1> QED BY <1>1, <1>2, <1>3, <1>4, <1>5, <1>6, <1>7, <1>8, <1>9 DEF Next

\* startTranslation() counts, and the pickers come up only for a run that may start.
LEMMA RunInvStep ==
  ASSUME PlaceInv, WorkerInv, RunInv, [Next]_vars
  PROVE  RunInv'
  <1> USE DEF RunInv, PlaceInv, WorkerInv, BusyPcs, ExitPcs, Prepared, PickerStates, ResultStates
  <1>0. MaxRuns \in Nat /\ MaxCrashes \in Nat
    BY TranslationAssumption
  <1> USE <1>0
  <1>1. CASE Reader
    BY <1>1 DEF Reader, OpenChapter, Reading, buildPairCacheIfNeeded, DeleteTranslations,
       launchTranslation, Source, CacheHit, Absent, Original, workerVars, vars
  <1>2. CASE Before
    BY <1>2 DEF Before, ConfirmRetranslate, Picked, WifiFailed, startTranslation, Looping, workerVars,
       diskVars
  <1>3. CASE During
    <2>1. CASE Waited
      BY <2>1 DEF Waited, workerVars, diskVars
    <2>2. CASE CreateWorker
      BY <2>2 DEF CreateWorker, releaseFramebuffer, diskVars
    <2>3. CASE ClaimBoundary
      BY <2>3 DEF ClaimBoundary, Looping, workerVars, diskVars
    <2>4. CASE tryRestoreFramebuffer
      BY <2>4 DEF tryRestoreFramebuffer, workerVars, diskVars
    <2>5. CASE Rerelease
      BY <2>5 DEF Rerelease, releaseFramebuffer, workerVars, diskVars
    <2>6. CASE AckBoundary
      BY <2>6 DEF AckBoundary, workerVars, diskVars
    <2>7. CASE FinishDone
      BY <2>7 DEF FinishDone, Looping, restoreFramebuffer, ResultState, workerVars, diskVars
    <2>8. CASE FinishFailed
      BY <2>8 DEF FinishFailed, Looping, restoreFramebuffer, workerVars, diskVars
    <2> QED BY <1>3, <2>1, <2>2, <2>3, <2>4, <2>5, <2>6, <2>7, <2>8 DEF During
  <1>4. CASE User
    BY <1>4 DEF User, RepaintProgress, BackCancels, OpenPanel, ClosePanel, Leave, Looping, workerVars,
       diskVars
  <1>5. CASE Leaving
    BY <1>5 DEF Leaving, onExit, ExitWaited, ExitRestore, ExitWaitEnds, HandBack, workerVars, diskVars
  <1>6. CASE Render
    BY <1>6 DEF Render, RenderBegins, RenderEnds, DrawsNow, workerVars, diskVars
  <1>7. CASE Worker
    BY <1>7 DEF Worker, ExtractFails, Extract, OpenPartFails, OpenPart, serviceBatchBoundary,
       ResumeRewrite, rewriteFromFile, CloseOutput, DiscardCancelled, DiscardFailed, Commit,
       RemoveFinal, RenameFails, Rename, DropPairs, DropPages, Fail, BoundaryEnds, Discard, RemovePairs,
       RemoveBin, Output, Absent, workerUnchanged
  <1>8. CASE Fault
    BY <1>8 DEF Fault, PowerLoss, RestoreImpossible, StrayWorker, Looping, Reboot, Absent
  <1>9. CASE UNCHANGED vars
    BY <1>9 DEF vars
  <1> QED BY <1>1, <1>2, <1>3, <1>4, <1>5, <1>6, <1>7, <1>8, <1>9 DEF Next

\* A worker without an activity is the only other one that removes the output.
LEMMA OutputInvStep ==
  ASSUME PlaceInv, WorkerInv, ExitInv, RunInv, OutputInv, [Next]_vars
  PROVE  OutputInv'
  <1> USE DEF OutputInv, PlaceInv, WorkerInv, ExitInv, RunInv, BusyPcs, ExitPcs
  <1>1. CASE Reader
    BY <1>1 DEF Reader, OpenChapter, Reading, buildPairCacheIfNeeded, DeleteTranslations,
       launchTranslation, Source, CacheHit, Absent, Original, fileVars, workerVars, vars
  <1>2. CASE Before
    BY <1>2 DEF Before, ConfirmRetranslate, Picked, WifiFailed, startTranslation, Looping, fileVars,
       workerVars, diskVars
  <1>3. CASE During
    BY <1>3 DEF During, Waited, CreateWorker, ClaimBoundary, tryRestoreFramebuffer, Rerelease,
       AckBoundary, FinishDone, FinishFailed, Looping, releaseFramebuffer, restoreFramebuffer,
       ResultState, workerVars, diskVars, fileVars
  <1>4. CASE User
    BY <1>4 DEF User, RepaintProgress, BackCancels, OpenPanel, ClosePanel, Leave, Looping, workerVars,
       diskVars, fileVars
  <1>5. CASE Leaving
    BY <1>5 DEF Leaving, onExit, ExitWaited, ExitRestore, ExitWaitEnds, HandBack, workerVars, diskVars,
       fileVars
  <1>6. CASE Render
    BY <1>6 DEF Render, RenderBegins, RenderEnds, DrawsNow, workerVars, diskVars, fileVars
  <1>7. CASE Worker
    BY <1>7 DEF Worker, ExtractFails, Extract, OpenPartFails, OpenPart, serviceBatchBoundary,
       ResumeRewrite, rewriteFromFile, CloseOutput, DiscardCancelled, DiscardFailed, Commit,
       RemoveFinal, RenameFails, Rename, DropPairs, DropPages, Fail, BoundaryEnds, Discard, RemovePairs,
       RemoveBin, Output, Absent, fileVars, workerUnchanged
  <1>8. CASE Fault
    BY <1>8 DEF Fault, PowerLoss, RestoreImpossible, StrayWorker, Looping, Reboot, Absent, fileVars
  <1>9. CASE UNCHANGED vars
    BY <1>9 DEF vars, fileVars
  <1> QED BY <1>1, <1>2, <1>3, <1>4, <1>5, <1>6, <1>7, <1>8, <1>9 DEF Next

\* DropPages is the only step that sets taskDone without a cancel.
LEMMA WholeInvStep ==
  ASSUME PlaceInv, WorkerInv, WholeInv, [Next]_vars
  PROVE  WholeInv'
  <1> USE DEF WholeInv, PlaceInv, WorkerInv, BusyPcs, ExitPcs, CommittedRanToItsEnd, Prepared, PickerStates,
     Output, Ended
  <1>1. CASE Reader
    BY <1>1 DEF Reader, OpenChapter, Reading, buildPairCacheIfNeeded, DeleteTranslations,
       launchTranslation, Source, CacheHit, Absent, Original, flagVars, fileVars, workerVars, vars
  <1>2. CASE Before
    BY <1>2 DEF Before, ConfirmRetranslate, Picked, WifiFailed, startTranslation, Looping, flagVars,
       fileVars, workerVars, diskVars
  <1>3. CASE During
    <2>1. CASE Waited
      BY <2>1 DEF Waited, flagVars, workerVars, diskVars, fileVars
    <2>2. CASE CreateWorker
      BY <2>2 DEF CreateWorker, releaseFramebuffer, flagVars, diskVars, fileVars
    <2>3. CASE ClaimBoundary
      BY <2>3 DEF ClaimBoundary, Looping, workerVars, diskVars, flagsButPending, fileVars
    <2>4. CASE tryRestoreFramebuffer
      BY <2>4 DEF tryRestoreFramebuffer, flagVars, workerVars, diskVars, fileVars
    <2>5. CASE Rerelease
      BY <2>5 DEF Rerelease, releaseFramebuffer, flagVars, workerVars, diskVars, fileVars
    <2>6. CASE AckBoundary
      BY <2>6 DEF AckBoundary, workerVars, diskVars, flagsButAck, fileVars
    <2>7. CASE FinishDone
      BY <2>7 DEF FinishDone, Looping, restoreFramebuffer, ResultState, flagVars, workerVars, diskVars,
         fileVars
    <2>8. CASE FinishFailed
      BY <2>8 DEF FinishFailed, Looping, restoreFramebuffer, flagVars, workerVars, diskVars, fileVars
    <2> QED BY <1>3, <2>1, <2>2, <2>3, <2>4, <2>5, <2>6, <2>7, <2>8 DEF During
  <1>4. CASE User
    BY <1>4 DEF User, RepaintProgress, BackCancels, OpenPanel, ClosePanel, Leave, Looping, flagVars,
       workerVars, diskVars, flagsButCancel, fileVars
  <1>5. CASE Leaving
    BY <1>5 DEF Leaving, onExit, ExitWaited, ExitRestore, ExitWaitEnds, HandBack, flagVars, workerVars,
       diskVars, flagsButCancel, fileVars
  <1>6. CASE Render
    BY <1>6 DEF Render, RenderBegins, RenderEnds, DrawsNow, flagVars, workerVars, diskVars, fileVars
  <1>7. CASE Worker
    BY <1>7 DEF Worker, ExtractFails, Extract, OpenPartFails, OpenPart, serviceBatchBoundary,
       ResumeRewrite, rewriteFromFile, CloseOutput, DiscardCancelled, DiscardFailed, Commit,
       RemoveFinal, RenameFails, Rename, DropPairs, DropPages, Fail, BoundaryEnds, Discard, RemovePairs,
       RemoveBin, Output, Absent, flagVars, fileVars, flagsButDone, flagsButFailed, flagsButPending,
       workerUnchanged
  <1>8. CASE Fault
    BY <1>8 DEF Fault, PowerLoss, RestoreImpossible, StrayWorker, Looping, Reboot, Absent, flagVars,
       fileVars
  <1>9. CASE UNCHANGED vars
    BY <1>9 DEF vars, flagVars, fileVars
  <1> QED BY <1>1, <1>2, <1>3, <1>4, <1>5, <1>6, <1>7, <1>8, <1>9 DEF Next

\* A commit drops pairs and pages before it is done; the reader lays out anew what does not match.
LEMMA CacheInvStep ==
  ASSUME PlaceInv, WorkerInv, ExitInv, RunInv, CacheInv, [Next]_vars
  PROVE  CacheInv'
  <1> USE DEF CacheInv, PlaceInv, WorkerInv, ExitInv, BusyPcs, ExitPcs, RunInv, Source
  <1>1. CASE Reader
    BY <1>1 DEF Reader, OpenChapter, Reading, buildPairCacheIfNeeded, DeleteTranslations,
       launchTranslation, Source, CacheHit, Absent, Original, fileVars, workerVars, vars
  <1>2. CASE Before
    BY <1>2 DEF Before, ConfirmRetranslate, Picked, WifiFailed, startTranslation, Looping, fileVars,
       workerVars, diskVars
  <1>3. CASE During
    BY <1>3 DEF During, Waited, CreateWorker, ClaimBoundary, tryRestoreFramebuffer, Rerelease,
       AckBoundary, FinishDone, FinishFailed, Looping, releaseFramebuffer, restoreFramebuffer,
       ResultState, workerVars, diskVars, fileVars
  <1>4. CASE User
    BY <1>4 DEF User, RepaintProgress, BackCancels, OpenPanel, ClosePanel, Leave, Looping, workerVars,
       diskVars, fileVars
  <1>5. CASE Leaving
    BY <1>5 DEF Leaving, onExit, ExitWaited, ExitRestore, ExitWaitEnds, HandBack, workerVars, diskVars,
       fileVars
  <1>6. CASE Render
    BY <1>6 DEF Render, RenderBegins, RenderEnds, DrawsNow, workerVars, diskVars, fileVars
  <1>7. CASE Worker
    BY <1>7 DEF Worker, ExtractFails, Extract, OpenPartFails, OpenPart, serviceBatchBoundary,
       ResumeRewrite, rewriteFromFile, CloseOutput, DiscardCancelled, DiscardFailed, Commit,
       RemoveFinal, RenameFails, Rename, DropPairs, DropPages, Fail, BoundaryEnds, Discard, RemovePairs,
       RemoveBin, Output, Absent, fileVars, workerUnchanged
  <1>8. CASE Fault
    BY <1>8 DEF Fault, PowerLoss, RestoreImpossible, StrayWorker, Looping, Reboot, Absent, fileVars
  <1>9. CASE UNCHANGED vars
    BY <1>9 DEF vars, fileVars
  <1> QED BY <1>1, <1>2, <1>3, <1>4, <1>5, <1>6, <1>7, <1>8, <1>9 DEF Next

\* Types of the places.
LEMMA PlaceTypesStep ==
  ASSUME PlaceTypes, [Next]_vars
  PROVE  PlaceTypes'
  <1> USE DEF PlaceTypes, States, PickerStates, ResultStates, MainPcs, WorkerPcs, Results
  <1>1. CASE Reader
    BY <1>1 DEF Reader, OpenChapter, Reading, buildPairCacheIfNeeded, DeleteTranslations,
       launchTranslation, Source, CacheHit, Absent, Original, flagVars, workerVars, drawVars, vars
  <1>2. CASE Before
    BY <1>2 DEF Before, ConfirmRetranslate, Picked, WifiFailed, startTranslation, Looping, flagVars,
       workerVars
  <1>3. CASE During
    BY <1>3 DEF During, Waited, CreateWorker, ClaimBoundary, tryRestoreFramebuffer, Rerelease,
       AckBoundary, FinishDone, FinishFailed, Looping, releaseFramebuffer, restoreFramebuffer,
       ResultState, flagVars, workerVars, flagsButAck, flagsButPending, drawVars
  <1>4. CASE User
    BY <1>4 DEF User, RepaintProgress, BackCancels, OpenPanel, ClosePanel, Leave, Looping, flagVars,
       workerVars, flagsButCancel, drawVars
  <1>5. CASE Leaving
    BY <1>5 DEF Leaving, onExit, ExitWaited, ExitRestore, ExitWaitEnds, HandBack, flagVars, workerVars,
       flagsButCancel, drawVars
  <1>6. CASE Render
    BY <1>6 DEF Render, RenderBegins, RenderEnds, DrawsNow, flagVars, workerVars
  <1>7. CASE Worker
    BY <1>7 DEF Worker, ExtractFails, Extract, OpenPartFails, OpenPart, serviceBatchBoundary,
       ResumeRewrite, rewriteFromFile, CloseOutput, DiscardCancelled, DiscardFailed, Commit,
       RemoveFinal, RenameFails, Rename, DropPairs, DropPages, Fail, BoundaryEnds, Discard, RemovePairs,
       RemoveBin, Output, Absent, flagVars, flagsButDone, flagsButFailed, flagsButPending,
       workerUnchanged, drawVars
  <1>8. CASE Fault
    BY <1>8 DEF Fault, PowerLoss, RestoreImpossible, StrayWorker, Looping, Reboot, Absent, flagVars,
       drawVars
  <1>9. CASE UNCHANGED vars
    BY <1>9 DEF vars, flagVars, drawVars
  <1> QED BY <1>1, <1>2, <1>3, <1>4, <1>5, <1>6, <1>7, <1>8, <1>9 DEF Next

\* Types of the flags the tasks share.
LEMMA SharedFlagsStep ==
  ASSUME SharedFlags, [Next]_vars
  PROVE  SharedFlags'
  <1> USE DEF SharedFlags
  <1>1. CASE Reader
    BY <1>1 DEF Reader, OpenChapter, Reading, buildPairCacheIfNeeded, DeleteTranslations,
       launchTranslation, CacheHit, flagVars, vars
  <1>2. CASE Before
    BY <1>2 DEF Before, ConfirmRetranslate, Picked, WifiFailed, startTranslation, Looping, flagVars
  <1>3. CASE During
    BY <1>3 DEF During, Waited, CreateWorker, ClaimBoundary, tryRestoreFramebuffer, Rerelease,
       AckBoundary, FinishDone, FinishFailed, Looping, releaseFramebuffer, restoreFramebuffer, flagVars,
       flagsButAck, flagsButPending
  <1>4. CASE User
    BY <1>4 DEF User, RepaintProgress, BackCancels, OpenPanel, ClosePanel, Leave, Looping, flagVars,
       flagsButCancel
  <1>5. CASE Leaving
    BY <1>5 DEF Leaving, onExit, ExitWaited, ExitRestore, ExitWaitEnds, HandBack, flagVars,
       flagsButCancel
  <1>6. CASE Render
    BY <1>6 DEF Render, RenderBegins, RenderEnds, DrawsNow, flagVars
  <1>7. CASE Worker
    BY <1>7 DEF Worker, ExtractFails, Extract, OpenPartFails, OpenPart, serviceBatchBoundary,
       ResumeRewrite, rewriteFromFile, CloseOutput, DiscardCancelled, DiscardFailed, Commit,
       RemoveFinal, RenameFails, Rename, DropPairs, DropPages, Fail, BoundaryEnds, Discard, RemovePairs,
       RemoveBin, flagVars, flagsButDone, flagsButFailed, flagsButPending
  <1>8. CASE Fault
    BY <1>8 DEF Fault, PowerLoss, RestoreImpossible, StrayWorker, Looping, Reboot, flagVars
  <1>9. CASE UNCHANGED vars
    BY <1>9 DEF vars, flagVars
  <1> QED BY <1>1, <1>2, <1>3, <1>4, <1>5, <1>6, <1>7, <1>8, <1>9 DEF Next

\* Types of the other flags.
LEMMA OwnFlagsStep ==
  ASSUME OwnFlags, [Next]_vars
  PROVE  OwnFlags'
  <1> USE DEF OwnFlags
  <1>1. CASE Reader
    BY <1>1 DEF Reader, OpenChapter, Reading, buildPairCacheIfNeeded, DeleteTranslations,
       launchTranslation, CacheHit, fileVars, workerVars, drawVars, vars
  <1>2. CASE Before
    BY <1>2 DEF Before, ConfirmRetranslate, Picked, WifiFailed, startTranslation, Looping, fileVars,
       workerVars, diskVars
  <1>3. CASE During
    BY <1>3 DEF During, Waited, CreateWorker, ClaimBoundary, tryRestoreFramebuffer, Rerelease,
       AckBoundary, FinishDone, FinishFailed, Looping, releaseFramebuffer, restoreFramebuffer,
       workerVars, diskVars, drawVars, fileVars
  <1>4. CASE User
    BY <1>4 DEF User, RepaintProgress, BackCancels, OpenPanel, ClosePanel, Leave, Looping, workerVars,
       diskVars, drawVars, fileVars
  <1>5. CASE Leaving
    BY <1>5 DEF Leaving, onExit, ExitWaited, ExitRestore, ExitWaitEnds, HandBack, workerVars, diskVars,
       drawVars, fileVars
  <1>6. CASE Render
    BY <1>6 DEF Render, RenderBegins, RenderEnds, DrawsNow, workerVars, diskVars, fileVars
  <1>7. CASE Worker
    BY <1>7 DEF Worker, ExtractFails, Extract, OpenPartFails, OpenPart, serviceBatchBoundary,
       ResumeRewrite, rewriteFromFile, CloseOutput, DiscardCancelled, DiscardFailed, Commit,
       RemoveFinal, RenameFails, Rename, DropPairs, DropPages, Fail, BoundaryEnds, Discard, RemovePairs,
       RemoveBin, fileVars, workerUnchanged, drawVars
  <1>8. CASE Fault
    BY <1>8 DEF Fault, PowerLoss, RestoreImpossible, StrayWorker, Looping, Reboot, fileVars, drawVars
  <1>9. CASE UNCHANGED vars
    BY <1>9 DEF vars, drawVars, fileVars
  <1> QED BY <1>1, <1>2, <1>3, <1>4, <1>5, <1>6, <1>7, <1>8, <1>9 DEF Next

\* A file holds the output of a run that was started.
LEMMA FileTypesStep ==
  ASSUME RunInv, FileTypes, [Next]_vars
  PROVE  FileTypes'
  <1> USE DEF FileTypes
  <1>0. MaxRuns \in Nat /\ MaxCrashes \in Nat
    BY TranslationAssumption
  <1> USE <1>0
  <1>00. Absent \in Content /\ Original \in Content /\ Output("whole") \in Content /\ Output("damaged") \in Content
        /\ Output("partial") \in Content
    BY DEF Absent, Original, Output, Content, RunInv, Texts
  <1> USE <1>00
  <1>1. CASE Reader
    BY <1>1 DEF Reader, OpenChapter, Reading, buildPairCacheIfNeeded, DeleteTranslations,
       launchTranslation, Source, CacheHit, fileVars, vars
  <1>2. CASE Before
    BY <1>2 DEF Before, ConfirmRetranslate, Picked, WifiFailed, startTranslation, Looping, fileVars,
       diskVars
  <1>3. CASE During
    BY <1>3 DEF During, Waited, CreateWorker, ClaimBoundary, tryRestoreFramebuffer, Rerelease,
       AckBoundary, FinishDone, FinishFailed, Looping, releaseFramebuffer, restoreFramebuffer,
       ResultState, diskVars, fileVars
  <1>4. CASE User
    BY <1>4 DEF User, RepaintProgress, BackCancels, OpenPanel, ClosePanel, Leave, Looping, diskVars,
       fileVars
  <1>5. CASE Leaving
    BY <1>5 DEF Leaving, onExit, ExitWaited, ExitRestore, ExitWaitEnds, HandBack, diskVars, fileVars
  <1>6. CASE Render
    BY <1>6 DEF Render, RenderBegins, RenderEnds, DrawsNow, diskVars, fileVars
  <1>7. CASE Worker
    BY <1>7 DEF Worker, ExtractFails, Extract, OpenPartFails, OpenPart, serviceBatchBoundary,
       ResumeRewrite, rewriteFromFile, CloseOutput, DiscardCancelled, DiscardFailed, Commit,
       RemoveFinal, RenameFails, Rename, DropPairs, DropPages, Fail, BoundaryEnds, Discard, RemovePairs,
       RemoveBin, fileVars, workerUnchanged
  <1>8. CASE Fault
    BY <1>8 DEF Fault, PowerLoss, RestoreImpossible, StrayWorker, Looping, Reboot, fileVars
  <1>9. CASE UNCHANGED vars
    BY <1>9 DEF vars, fileVars
  <1> QED BY <1>1, <1>2, <1>3, <1>4, <1>5, <1>6, <1>7, <1>8, <1>9 DEF Next
-----------------------------------------------------------------------------
(* The theorems.                                                           *)

\* The parts together are inductive.
LEMMA Inductive == Spec => []IInv
  <1>1. Init => IInv
    <2> SUFFICES ASSUME Init PROVE IInv
      OBVIOUS
    <2> USE DEF Init
    <2>0. MaxRuns \in Nat /\ MaxCrashes \in Nat
      BY TranslationAssumption
    <2>1. PlaceTypes
      BY DEF PlaceTypes, States, PickerStates, ResultStates, MainPcs, WorkerPcs, Results
    <2>2. SharedFlags /\ OwnFlags
      BY Zenon DEF SharedFlags, OwnFlags
    <2>3. FileTypes
      BY <2>0 DEF FileTypes, Content, Absent, Texts
    <2>4. PlaceInv /\ WorkerInv /\ LockInv /\ BufferInv /\ ExitInv
      BY DEF PlaceInv, WorkerInv, LockInv, BufferInv, ExitInv, BusyPcs, ExitPcs
    <2>5. RunInv /\ OutputInv
      BY <2>0 DEF RunInv, OutputInv
    <2>6. WholeInv /\ KeepInv /\ CacheInv
      BY DEF WholeInv, KeepInv, CacheInv, CommittedRanToItsEnd, UnfinishedKeepsPrior
    <2> QED BY <2>1, <2>2, <2>3, <2>4, <2>5, <2>6 DEF IInv
  <1>2. IInv /\ [Next]_vars => IInv'
    <2> SUFFICES ASSUME IInv, [Next]_vars PROVE IInv'
      OBVIOUS
    <2> USE DEF IInv
    <2>1. PlaceTypes' /\ SharedFlags' /\ OwnFlags' /\ FileTypes'
      BY PlaceTypesStep, SharedFlagsStep, OwnFlagsStep, FileTypesStep
    <2>2. PlaceInv' /\ WorkerInv' /\ LockInv' /\ BufferInv' /\ ExitInv'
      BY PlaceInvStep, WorkerInvStep, LockInvStep, BufferInvStep, ExitInvStep
    <2>3. RunInv' /\ OutputInv' /\ WholeInv' /\ KeepInv' /\ CacheInv'
      BY RunInvStep, OutputInvStep, WholeInvStep, KeepInvStep, CacheInvStep
    <2> QED BY <2>1, <2>2, <2>3
  <1> QED BY <1>1, <1>2, PTL DEF Spec

\* Screens, flags, program counters and files stay what the code makes them: in particular no file of the
\* chapter ever holds the output of a run that was not started, whatever is lost or torn.
THEOREM TypeCorrect == Spec => []TypeOK
  <1>1. IInv => TypeOK
    <2> SUFFICES ASSUME IInv PROVE TypeOK
      OBVIOUS
    <2>1. {workerStarted, cancelFlag, taskDone, taskFailed, boundaryPending, boundaryAck, stray, fb,
           renderNote, waiting, tmp} \subseteq BOOLEAN
      BY Zenon DEF IInv, SharedFlags, OwnFlags
    <2>2. {prior, part, final, pairs} \subseteq Content /\ {bin, shown} \subseteq Content
      BY DEF IInv, FileTypes
    <2>3. PlaceTypes /\ RunInv
      BY DEF IInv
    <2> QED BY <2>1, <2>2, <2>3 DEF TypeOK, PlaceTypes, RunInv
  <1> QED BY <1>1, Inductive, PTL

\* onExit(), ChapterTranslationActivity.cpp: whatever the network, the card, the memory and the light panel do,
\* the reader gets the framebuffer back.
THEOREM HandsTheBufferBack == Spec => []BufferHandedBack
  <1>1. IInv => BufferHandedBack
    BY DEF IInv, BufferInv, BufferHandedBack
  <1> QED BY <1>1, Inductive, PTL

\* releaseFramebuffer() under the render lock, and render()'s look at it: on a board without the light panel
\* no frame is drawn while the framebuffer is away.
THEOREM NeverDrawsIntoNothing == ASSUME ~LightPanel PROVE Spec => []DrawsIntoTheBuffer
  <1>1. IInv => DrawsIntoTheBuffer
    BY DEF IInv, BufferInv, DrawsIntoTheBuffer
  <1> QED BY <1>1, Inductive, PTL

\* "Never a truncated final file", as far as it is true: whatever power, the card, the memory, cancels and a
\* worker left behind do, what a run left unfinished is not committed; only an error the rewriter did not
\* report can be in a committed file.
THEOREM CommitsOnlyEndedRuns == Spec => []CommittedRanToItsEnd
  <1>1. IInv => CommittedRanToItsEnd
    BY DEF IInv, WholeInv
  <1> QED BY <1>1, Inductive, PTL

\* DONE and the display-mode chooser stand for this run's translation, in place and not cut short by a cancel,
\* under any fault.
THEOREM SuccessMeansCommitted == Spec => []SuccessIsCommitted
  <1>1. IInv => SuccessIsCommitted
    BY DEF IInv, WholeInv, SuccessIsCommitted, Ended
  <1> QED BY <1>1, Inductive, PTL

\* A run that fails, or has not come to its commit, has touched nothing of the translation before it, if
\* renames work and the network answers in time.
THEOREM KeepsThePriorTranslation ==
  ASSUME ~SlowNetwork, ~StorageFaults PROVE Spec => []UnfinishedKeepsPrior
  <1>1. IInv => UnfinishedKeepsPrior
    BY DEF IInv, KeepInv
  <1> QED BY <1>1, Inductive, PTL

\* The pages and pairs the reader uses are those of the translation it has, unless power is lost (which leaves
\* old caches beside a new translation) or a worker is left behind.
THEOREM CachesFollowTheTranslation ==
  ASSUME ~SlowNetwork, MaxCrashes = 0 PROVE Spec => []CachesOfTheTranslation
  <1>1. IInv => CachesOfTheTranslation
    <2> SUFFICES ASSUME IInv PROVE CachesOfTheTranslation
      OBVIOUS
    <2>1. CacheInv /\ WorkerInv
      BY DEF IInv
    <2> QED BY <2>1 DEF CacheInv, WorkerInv, CachesOfTheTranslation, PagesOfTheTranslation,
              PairsOfTheTranslation
  <1> QED BY <1>1, Inductive, PTL
-----------------------------------------------------------------------------
(* Who waits for whom: the safety behind RunEnds and ExitEnds.             *)

\* Nobody waits for what cannot come: a parked worker is acknowledged, cancelled, or about to be served; the
\* frame the main task waits for is requested or being drawn, and the lock is not the main task's own; the
\* worker onExit() waits for has been told to stop, and has said so if it is gone.
WaitsAreAnswered ==
    /\ wpc = "boundary" => BoundaryEnds \/ boundaryPending \/ mpc \in Repainting
    /\ waiting => lock # "main" /\ (renderNote \/ rpc # "take")
    /\ mpc = "exitWait" => cancelFlag /\ (wpc = "none" => taskDone \/ taskFailed)

\* The handshake of an uncancelled run: a boundary is pending, being served or acknowledged, one at a time.
HandInv ==
    /\ mpc \in {"exitWait", "exitRestore"} => cancelFlag
    /\ ~cancelFlag =>
         /\ boundaryPending => wpc = "boundary" /\ ~boundaryAck /\ mpc \notin Repainting
         /\ mpc \in Repainting => wpc = "boundary" /\ ~boundaryAck
         /\ wpc = "boundary" => boundaryAck \/ boundaryPending \/ mpc \in Repainting

\* taskHandle is set exactly once a run; what was started is running or has said how it ended.
StartedInv ==
    /\ workerStarted /\ wpc = "none" => taskDone \/ taskFailed
    /\ screen = "picker" => ~workerStarted
    /\ screen \in {"translation", "panel"} /\ state \in Prepared => ~workerStarted
    /\ mpc \in {"statusWait", "release"} => ~workerStarted
    /\ mpc = "exitWait" => workerStarted

\* The frame the main task waits for is on its way.
FrameInv ==
    /\ waiting => mpc \in {"statusWait", "repaintWait"}
    /\ waiting => renderNote \/ rpc # "take"

\* serviceBatchBoundary() clears the answer before it asks; loop() claims the request before it repaints.
LEMMA HandInvStep ==
  ASSUME PlaceInv, WorkerInv, HandInv, [Next]_vars
  PROVE  HandInv'
  <1> USE DEF HandInv, PlaceInv, WorkerInv, Repainting, BusyPcs, ExitPcs
  <1>1. CASE Reader
    BY <1>1 DEF Reader, OpenChapter, Reading, buildPairCacheIfNeeded, DeleteTranslations,
       launchTranslation, CacheHit, workerVars, drawVars, flagVars, vars
  <1>2. CASE Before
    BY <1>2 DEF Before, ConfirmRetranslate, Picked, WifiFailed, startTranslation, Looping, flagVars,
       workerVars
  <1>3. CASE During
    <2>1. CASE Waited
      BY <2>1 DEF Waited, flagVars, workerVars, drawVars
    <2>2. CASE CreateWorker
      BY <2>2 DEF CreateWorker, releaseFramebuffer, flagVars, drawVars
    <2>3. CASE ClaimBoundary
      BY <2>3 DEF ClaimBoundary, Looping, workerVars, flagsButPending, drawVars
    <2>4. CASE tryRestoreFramebuffer
      BY <2>4 DEF tryRestoreFramebuffer, flagVars, workerVars
    <2>5. CASE Rerelease
      BY <2>5 DEF Rerelease, releaseFramebuffer, flagVars, workerVars, drawVars
    <2>6. CASE AckBoundary
      BY <2>6 DEF AckBoundary, workerVars, flagsButAck, drawVars
    <2>7. CASE FinishDone
      BY <2>7 DEF FinishDone, Looping, restoreFramebuffer, ResultState, flagVars, workerVars
    <2>8. CASE FinishFailed
      BY <2>8 DEF FinishFailed, Looping, restoreFramebuffer, flagVars, workerVars
    <2> QED BY <1>3, <2>1, <2>2, <2>3, <2>4, <2>5, <2>6, <2>7, <2>8 DEF During
  <1>4. CASE User
    BY <1>4 DEF User, RepaintProgress, BackCancels, OpenPanel, ClosePanel, Leave, Looping, flagVars,
       workerVars, flagsButCancel, drawVars
  <1>5. CASE Leaving
    BY <1>5 DEF Leaving, onExit, ExitWaited, ExitRestore, ExitWaitEnds, HandBack, flagVars, workerVars,
       flagsButCancel, drawVars
  <1>6. CASE Render
    BY <1>6 DEF Render, RenderBegins, RenderEnds, DrawsNow, flagVars, workerVars
  <1>7. CASE Worker
    <2>0. UNCHANGED workerUnchanged => UNCHANGED mpc
      BY DEF workerUnchanged
    <2>1. CASE ExtractFails
      BY <2>0, <2>1 DEF ExtractFails, Fail, flagsButFailed
    <2>2. CASE Extract
      BY <2>0, <2>2 DEF Extract, flagVars
    <2>3. CASE OpenPartFails
      BY <2>0, <2>3 DEF OpenPartFails, Fail, flagsButFailed
    <2>4. CASE OpenPart
      BY <2>0, <2>4 DEF OpenPart, flagVars
    <2>5. CASE serviceBatchBoundary
      BY <2>0, <2>5 DEF serviceBatchBoundary
    <2>6. CASE ResumeRewrite
      BY <2>0, <2>6 DEF ResumeRewrite, BoundaryEnds, flagsButPending
    <2>7. CASE rewriteFromFile
      BY <2>0, <2>7 DEF rewriteFromFile
    <2>8. CASE CloseOutput
      BY <2>0, <2>8 DEF CloseOutput, flagVars
    <2>9. CASE DiscardCancelled
      BY <2>0, <2>9 DEF DiscardCancelled, Discard, flagsButDone
    <2>10. CASE DiscardFailed
      BY <2>0, <2>10 DEF DiscardFailed, Discard, flagsButFailed
    <2>11. CASE Commit
      BY <2>0, <2>11 DEF Commit, flagVars
    <2>12. CASE RemoveFinal
      BY <2>0, <2>12 DEF RemoveFinal, flagVars
    <2>13. CASE RenameFails
      BY <2>0, <2>13 DEF RenameFails, Fail, flagsButFailed
    <2>14. CASE Rename
      BY <2>0, <2>14 DEF Rename, flagVars
    <2>15. CASE DropPairs
      BY <2>0, <2>15 DEF DropPairs, flagVars
    <2>16. CASE DropPages
      BY <2>0, <2>16 DEF DropPages, flagsButDone
        <2> QED BY <1>7, <2>1, <2>2, <2>3, <2>4, <2>5, <2>6, <2>7, <2>8, <2>9, <2>10, <2>11, <2>12,
       <2>13, <2>14, <2>15, <2>16 DEF Worker
  <1>8. CASE Fault
    BY <1>8 DEF Fault, PowerLoss, RestoreImpossible, StrayWorker, Looping, Reboot, flagVars, drawVars
  <1>9. CASE UNCHANGED vars
    BY <1>9 DEF vars, flagVars, drawVars
  <1> QED BY <1>1, <1>2, <1>3, <1>4, <1>5, <1>6, <1>7, <1>8, <1>9 DEF Next

\* Every way out of runTranslation() sets taskDone or taskFailed; nothing clears them during a run.
LEMMA StartedInvStep ==
  ASSUME PlaceInv, WorkerInv, StartedInv, [Next]_vars
  PROVE  StartedInv'
  <1> USE DEF StartedInv, PlaceInv, WorkerInv, BusyPcs, ExitPcs, Prepared, PickerStates
  <1>1. CASE Reader
    BY <1>1 DEF Reader, OpenChapter, Reading, buildPairCacheIfNeeded, DeleteTranslations,
       launchTranslation, CacheHit, workerVars, drawVars, flagVars, vars
  <1>2. CASE Before
    BY <1>2 DEF Before, ConfirmRetranslate, Picked, WifiFailed, startTranslation, Looping, flagVars,
       workerVars
  <1>3. CASE During
    <2>1. CASE Waited
      BY <2>1 DEF Waited, flagVars, workerVars, drawVars
    <2>2. CASE CreateWorker
      BY <2>2 DEF CreateWorker, releaseFramebuffer, flagVars, drawVars
    <2>3. CASE ClaimBoundary
      BY <2>3 DEF ClaimBoundary, Looping, workerVars, flagsButPending, drawVars
    <2>4. CASE tryRestoreFramebuffer
      BY <2>4 DEF tryRestoreFramebuffer, flagVars, workerVars
    <2>5. CASE Rerelease
      BY <2>5 DEF Rerelease, releaseFramebuffer, flagVars, workerVars, drawVars
    <2>6. CASE AckBoundary
      BY <2>6 DEF AckBoundary, workerVars, flagsButAck, drawVars
    <2>7. CASE FinishDone
      BY <2>7 DEF FinishDone, Looping, restoreFramebuffer, ResultState, flagVars, workerVars
    <2>8. CASE FinishFailed
      BY <2>8 DEF FinishFailed, Looping, restoreFramebuffer, flagVars, workerVars
    <2> QED BY <1>3, <2>1, <2>2, <2>3, <2>4, <2>5, <2>6, <2>7, <2>8 DEF During
  <1>4. CASE User
    BY <1>4 DEF User, RepaintProgress, BackCancels, OpenPanel, ClosePanel, Leave, Looping, flagVars,
       workerVars, flagsButCancel, drawVars
  <1>5. CASE Leaving
    BY <1>5 DEF Leaving, onExit, ExitWaited, ExitRestore, ExitWaitEnds, HandBack, flagVars, workerVars,
       flagsButCancel, drawVars
  <1>6. CASE Render
    BY <1>6 DEF Render, RenderBegins, RenderEnds, DrawsNow, flagVars, workerVars
  <1>7. CASE Worker
    BY <1>7 DEF Worker, ExtractFails, Extract, OpenPartFails, OpenPart, serviceBatchBoundary,
       ResumeRewrite, rewriteFromFile, CloseOutput, DiscardCancelled, DiscardFailed, Commit, RemoveFinal,
       RenameFails, Rename, DropPairs, DropPages, Fail, BoundaryEnds, Discard, flagVars, flagsButDone,
       flagsButFailed, flagsButPending, workerUnchanged, drawVars
  <1>8. CASE Fault
    BY <1>8 DEF Fault, PowerLoss, RestoreImpossible, StrayWorker, Looping, Reboot, flagVars, drawVars
  <1>9. CASE UNCHANGED vars
    BY <1>9 DEF vars, flagVars, drawVars
  <1> QED BY <1>1, <1>2, <1>3, <1>4, <1>5, <1>6, <1>7, <1>8, <1>9 DEF Next

\* requestUpdateAndWait() notifies before it waits, and the end of a frame ends the wait.
LEMMA FrameInvStep ==
  ASSUME PlaceInv, FrameInv, [Next]_vars
  PROVE  FrameInv'
  <1> USE DEF FrameInv, PlaceInv, BusyPcs, ExitPcs
  <1>1. CASE Reader
    BY <1>1 DEF Reader, OpenChapter, Reading, buildPairCacheIfNeeded, DeleteTranslations,
       launchTranslation, CacheHit, workerVars, drawVars, flagVars, vars
  <1>2. CASE Before
    BY <1>2 DEF Before, ConfirmRetranslate, Picked, WifiFailed, startTranslation, Looping, flagVars,
       workerVars
  <1>3. CASE During
    <2>1. CASE Waited
      BY <2>1 DEF Waited, flagVars, workerVars, drawVars
    <2>2. CASE CreateWorker
      BY <2>2 DEF CreateWorker, releaseFramebuffer, flagVars, drawVars
    <2>3. CASE ClaimBoundary
      BY <2>3 DEF ClaimBoundary, Looping, workerVars, flagsButPending, drawVars
    <2>4. CASE tryRestoreFramebuffer
      BY <2>4 DEF tryRestoreFramebuffer, flagVars, workerVars
    <2>5. CASE Rerelease
      BY <2>5 DEF Rerelease, releaseFramebuffer, flagVars, workerVars, drawVars
    <2>6. CASE AckBoundary
      BY <2>6 DEF AckBoundary, workerVars, flagsButAck, drawVars
    <2>7. CASE FinishDone
      BY <2>7 DEF FinishDone, Looping, restoreFramebuffer, ResultState, flagVars, workerVars
    <2>8. CASE FinishFailed
      BY <2>8 DEF FinishFailed, Looping, restoreFramebuffer, flagVars, workerVars
    <2> QED BY <1>3, <2>1, <2>2, <2>3, <2>4, <2>5, <2>6, <2>7, <2>8 DEF During
  <1>4. CASE User
    BY <1>4 DEF User, RepaintProgress, BackCancels, OpenPanel, ClosePanel, Leave, Looping, flagVars,
       workerVars, flagsButCancel, drawVars
  <1>5. CASE Leaving
    BY <1>5 DEF Leaving, onExit, ExitWaited, ExitRestore, ExitWaitEnds, HandBack, flagVars, workerVars,
       flagsButCancel, drawVars
  <1>6. CASE Render
    BY <1>6 DEF Render, RenderBegins, RenderEnds, DrawsNow, flagVars, workerVars
  <1>7. CASE Worker
    <2>1. UNCHANGED <<mpc, drawVars>>
      BY <1>7 DEF Worker, ExtractFails, Extract, OpenPartFails, OpenPart, serviceBatchBoundary, ResumeRewrite,
         rewriteFromFile, CloseOutput, DiscardCancelled, DiscardFailed, Commit, RemoveFinal, RenameFails,
         Rename, DropPairs, DropPages, workerUnchanged
    <2> QED BY <2>1 DEF drawVars
  <1>8. CASE Fault
    BY <1>8 DEF Fault, PowerLoss, RestoreImpossible, StrayWorker, Looping, Reboot, flagVars, drawVars
  <1>9. CASE UNCHANGED vars
    BY <1>9 DEF vars, flagVars, drawVars
  <1> QED BY <1>1, <1>2, <1>3, <1>4, <1>5, <1>6, <1>7, <1>8, <1>9 DEF Next

LEMMA WaitingInductive == Spec => [](HandInv /\ StartedInv /\ FrameInv)
  <1>1. Init => HandInv /\ StartedInv /\ FrameInv
    BY DEF Init, HandInv, StartedInv, FrameInv, Repainting, Prepared, PickerStates
  <1>2. IInv /\ HandInv /\ StartedInv /\ FrameInv /\ [Next]_vars => (HandInv /\ StartedInv /\ FrameInv)'
    BY HandInvStep, StartedInvStep, FrameInvStep DEF IInv
  <1> QED BY <1>1, <1>2, Inductive, PTL DEF Spec

\* loop()'s repaint at a batch boundary: the framebuffer is taken back from the network only while the worker
\* is parked in serviceBatchBoundary(), whatever the network, the card and the memory do.
THEOREM RepaintsOnlyWhileParked == Spec => []RepaintsWhileParked
  <1>1. HandInv => RepaintsWhileParked
    BY DEF HandInv, RepaintsWhileParked
  <1> QED BY <1>1, WaitingInductive, PTL

\* The waits of serviceBatchBoundary(), requestUpdateAndWait() and onExit() are never for something that has
\* been lost, however a cancel, a repaint and the end of the worker interleave.
THEOREM WaitsAreNeverInVain == Spec => []WaitsAreAnswered
  <1>1. IInv /\ HandInv /\ StartedInv /\ FrameInv => WaitsAreAnswered
    BY DEF IInv, LockInv, HandInv, StartedInv, FrameInv, WaitsAreAnswered, BoundaryEnds
  <1> QED BY <1>1, Inductive, WaitingInductive, PTL
=============================================================================
