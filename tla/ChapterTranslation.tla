-------------------------- MODULE ChapterTranslation --------------------------
(***************************************************************************)
(* Translating one chapter on the device: ChapterTranslationActivity on    *)
(* the main task, its worker task (chTranslate), the render task it shares *)
(* the framebuffer with, and the chapter's files on the SD card, which     *)
(* outlive a power loss.                                                   *)
(*                                                                         *)
(* A step is what one task does between two points where another task, or  *)
(* a power loss, could tell the difference: a flag the tasks share, the    *)
(* render lock, one file operation.  The activity manager appears here     *)
(* only by what it does to this activity; its own protocol is the module   *)
(* ActivityManager.                                                        *)
(***************************************************************************)
EXTENDS Naturals

CONSTANTS
    MaxRuns,         \* bound: translation runs started
    MaxCrashes,      \* bound: power losses
    SlowNetwork,     \* a network call may outlast the wait in onExit()
    UnreadableChapter, \* the extracted HTML can fail to parse half way
    StorageFaults,   \* creating, extracting, reading, writing, closing or renaming a file can fail
    LowMemory,       \* no memory for the worker, the XML parser or the framebuffer
    LightPanel       \* the board has a front light, hence the control panel

ASSUME TranslationAssumption ==
    /\ MaxRuns \in Nat /\ MaxCrashes \in Nat
    /\ {SlowNetwork, UnreadableChapter, StorageFaults, LowMemory, LightPanel} \subseteq BOOLEAN

VARIABLES
    screen,          \* who is in front: the reader, this activity, or one on top of it
    state, mpc,      \* the activity's screen state; where the main task is
    workerStarted,   \* taskHandle is set
    cancelFlag, taskDone, taskFailed, boundaryPending, boundaryAck, lastResult,
    wpc,             \* where the worker task is
    stray,           \* a worker still runs whose activity object is gone
    fb,              \* the 48 KB framebuffer is allocated
    lock, rpc, renderNote, waiting,  \* render mutex and task, requestUpdateAndWait()
    run, prior,      \* this run's number; the committed translation it started from
    tmp, part, final,    \* .tmp_translate, .translated.html.part, .translated.html
    pairs, bin,      \* the pair memo and the laid-out pages: the file each came from
    shown,           \* the file the open chapter's pages came from
    crashes

flagVars == <<cancelFlag, taskDone, taskFailed, boundaryPending, boundaryAck, lastResult>>
fileVars == <<tmp, part, final, pairs, bin>>
workerVars == <<wpc, stray>>
diskVars == <<run, prior, fileVars, shown, crashes>>
flagsButCancel == <<taskDone, taskFailed, boundaryPending, boundaryAck, lastResult>>
flagsButDone == <<cancelFlag, taskFailed, boundaryPending, boundaryAck, lastResult>>
flagsButFailed == <<cancelFlag, taskDone, boundaryPending, boundaryAck, lastResult>>
flagsButAck == <<cancelFlag, taskDone, taskFailed, boundaryPending, lastResult>>
flagsButPending == <<cancelFlag, taskDone, taskFailed, boundaryAck, lastResult>>
drawVars == <<lock, rpc, renderNote, waiting>>
vars == <<screen, state, mpc, workerStarted, flagVars, wpc, stray, fb, drawVars, run, prior, fileVars,
          shown, crashes>>

\* What a file of the chapter holds: nothing, or the output of a run.  It is partial until the run's
\* rewriter has come to its end, and then whole, or damaged by an error the rewriter did not report.
Texts == {"partial", "damaged", "whole"}
Absent == [run |-> 0, text |-> "partial"]
Output(text) == [run |-> run, text |-> text]
Content == [run : 0..MaxRuns, text : Texts]
\* Laid-out pages can also come from the untranslated chapter.
Original == [run |-> 0, text |-> "whole"]

ResultStates == {"DONE", "CHOOSE_DISPLAY_MODE", "FAILED", "CANCELLED"}
PickerStates == {"SOURCE_LANG_SELECTION", "LANG_SELECTION", "WIFI_SELECTION"}
States == {"CONFIRM_RETRANSLATE", "TRANSLATING"} \cup PickerStates \cup ResultStates
MainPcs == {"loop", "statusWait", "release", "repaint", "repaintWait", "rerelease", "ack",
            "exit", "exitWait", "exitRestore"}
WorkerPcs == {"none", "extract", "open", "rewrite", "boundary", "close", "check", "removeFinal",
              "rename", "removePairs", "removeBin"}
Results == {"none", "translated", "passthrough", "untranslated", "aborted", "cancelled"}

Init ==
    /\ screen = "reader" /\ state = "SOURCE_LANG_SELECTION" /\ mpc = "loop" /\ workerStarted = FALSE
    /\ cancelFlag = FALSE /\ taskDone = FALSE /\ taskFailed = FALSE
    /\ boundaryPending = FALSE /\ boundaryAck = FALSE /\ lastResult = "none"
    /\ wpc = "none" /\ stray = FALSE /\ fb = TRUE
    /\ lock = "free" /\ rpc = "take" /\ renderNote = FALSE /\ waiting = FALSE
    /\ run = 0 /\ prior = Absent
    /\ tmp = FALSE /\ part = Absent /\ final = Absent /\ pairs = Absent /\ bin = Absent
    /\ shown = Absent /\ crashes = 0

-----------------------------------------------------------------------------
(* The reader, which the activity is launched from and returns to.         *)

\* The HTML a chapter is laid out from: the sidecar if there is one.
Source == IF final = Absent THEN Original ELSE final

\* A page cache is a hit if it was stamped with the same translatedSource flag.
CacheHit == bin # Absent /\ (bin # Original <=> final # Absent)

OpenChapter ==
    /\ screen = "reader" /\ mpc = "loop" /\ shown = Absent
    /\ bin' = IF CacheHit THEN bin ELSE Source
    /\ shown' = bin'
    /\ part' = IF CacheHit \/ bin = Absent THEN part ELSE Absent   \* clearCache()
    /\ UNCHANGED <<screen, state, mpc, workerStarted, flagVars, workerVars, fb, drawVars, run,
                   prior, tmp, final, pairs, crashes>>

buildPairCacheIfNeeded ==
    /\ screen = "reader" /\ mpc = "loop" /\ shown # Absent
    /\ final # Absent /\ pairs = Absent
    /\ pairs' = final
    /\ UNCHANGED <<screen, state, mpc, workerStarted, flagVars, workerVars, fb, drawVars, run,
                   prior, tmp, part, final, bin, shown, crashes>>

\* The user reads on; beyond the bound on runs nothing else happens.
Reading == screen = "reader" /\ mpc = "loop" /\ shown # Absent /\ UNCHANGED vars

DeleteTranslations ==
    /\ screen = "reader" /\ mpc = "loop" /\ final # Absent
    /\ final' = Absent /\ bin' = Absent /\ shown' = Absent /\ prior' = Absent
    /\ UNCHANGED <<screen, state, mpc, workerStarted, flagVars, workerVars, fb, drawVars, run,
                   tmp, part, pairs, crashes>>

\* launchTranslation() and onEnter(); the new object starts from its initialisers.
launchTranslation ==
    /\ screen = "reader" /\ mpc = "loop" /\ run < MaxRuns
    /\ shown' = Absent
    /\ workerStarted' = FALSE /\ cancelFlag' = FALSE /\ taskDone' = FALSE /\ taskFailed' = FALSE
    /\ boundaryPending' = FALSE /\ boundaryAck' = FALSE /\ lastResult' = "none"
    /\ \/ StorageFaults /\ screen' = "translation" /\ state' = "FAILED"
       \/ final # Absent /\ screen' = "translation" /\ state' = "CONFIRM_RETRANSLATE"
       \/ final = Absent /\ screen' = "picker" /\ state' = "SOURCE_LANG_SELECTION"
    /\ renderNote' = TRUE
    /\ UNCHANGED <<mpc, workerVars, fb, lock, rpc, waiting, run, prior, fileVars, crashes>>

-----------------------------------------------------------------------------
(* The activity before the run.                                            *)

Looping == mpc = "loop" /\ screen = "translation"

ConfirmRetranslate ==
    /\ Looping /\ state = "CONFIRM_RETRANSLATE"
    /\ screen' = "picker" /\ state' = "SOURCE_LANG_SELECTION"
    /\ renderNote' = TRUE
    /\ UNCHANGED <<mpc, workerStarted, flagVars, workerVars, fb, lock, rpc, waiting, diskVars>>

\* A language was picked: the next picker, or Wi-Fi, comes up.
Picked ==
    /\ mpc = "loop" /\ screen = "picker"
    /\ \/ state = "SOURCE_LANG_SELECTION" /\ state' = "LANG_SELECTION"
       \/ state = "LANG_SELECTION" /\ state' = "WIFI_SELECTION"
    /\ renderNote' = TRUE
    /\ UNCHANGED <<screen, mpc, workerStarted, flagVars, workerVars, fb, lock, rpc, waiting,
                   diskVars>>

WifiFailed ==
    /\ mpc = "loop" /\ screen = "picker" /\ state = "WIFI_SELECTION"
    /\ screen' = "translation" /\ state' = "FAILED" /\ renderNote' = TRUE
    /\ UNCHANGED <<mpc, workerStarted, flagVars, workerVars, fb, lock, rpc, waiting, diskVars>>

\* onWifiConnected() up to the render the main task waits for.
startTranslation ==
    /\ mpc = "loop" /\ screen = "picker" /\ state = "WIFI_SELECTION"
    /\ screen' = "translation" /\ state' = "TRANSLATING" /\ mpc' = "statusWait"
    /\ cancelFlag' = FALSE /\ taskDone' = FALSE /\ taskFailed' = FALSE
    /\ boundaryPending' = FALSE /\ boundaryAck' = FALSE /\ lastResult' = "none"
    /\ renderNote' = TRUE /\ waiting' = TRUE
    /\ run' = run + 1 /\ prior' = final
    /\ UNCHANGED <<workerStarted, workerVars, fb, lock, rpc, fileVars, shown, crashes>>

\* requestUpdateAndWait() returns.
Waited ==
    /\ ~waiting
    /\ \/ mpc = "statusWait" /\ mpc' = "release"
       \/ mpc = "repaintWait" /\ mpc' = "rerelease"
    /\ UNCHANGED <<screen, state, workerStarted, flagVars, workerVars, fb, drawVars, diskVars>>

\* releaseFramebuffer() frees it under the render lock; the HAL may refuse.
releaseFramebufferUnlocked == fb' \in {FALSE, fb}
releaseFramebuffer == lock = "free" /\ fb' \in {FALSE, fb}

CreateWorker ==
    /\ mpc = "release" /\ releaseFramebuffer /\ mpc' = "loop"
    /\ \/ wpc' = "extract" /\ workerStarted' = TRUE
       \/ LowMemory /\ UNCHANGED <<wpc, workerStarted>>
    /\ UNCHANGED <<screen, state, flagVars, stray, drawVars, diskVars>>

-----------------------------------------------------------------------------
(* The activity during the run.                                            *)

ClaimBoundary ==
    /\ Looping /\ state = "TRANSLATING" /\ boundaryPending
    /\ boundaryPending' = FALSE /\ mpc' = "repaint"
    /\ UNCHANGED <<screen, state, workerStarted, flagsButPending, workerVars, fb, drawVars,
                   diskVars>>

tryRestoreFramebuffer ==
    /\ mpc = "repaint" /\ (fb \/ lock = "free")
    /\ \/ fb' = TRUE /\ mpc' = "repaintWait" /\ renderNote' = TRUE /\ waiting' = TRUE
       \/ ~fb /\ mpc' = "ack" /\ UNCHANGED <<fb, renderNote, waiting>>
    /\ UNCHANGED <<screen, state, workerStarted, flagVars, workerVars, lock, rpc, diskVars>>

Rerelease ==
    /\ mpc = "rerelease" /\ releaseFramebuffer /\ mpc' = "ack"
    /\ UNCHANGED <<screen, state, workerStarted, flagVars, workerVars, drawVars, diskVars>>

AckBoundaryForgotten ==
    /\ mpc = "ack" /\ mpc' = "loop"
    /\ UNCHANGED <<screen, state, workerStarted, cancelFlag, workerVars, flagsButCancel, fb,
                   drawVars, diskVars>>
AckBoundary ==
    /\ mpc = "ack" /\ mpc' = "loop"
    /\ boundaryAck' = TRUE
    /\ UNCHANGED <<screen, state, workerStarted, flagsButAck, workerVars, fb, drawVars,
                   diskVars>>

ResultStateUncancelled ==
    IF lastResult = "translated" THEN "CHOOSE_DISPLAY_MODE" ELSE "DONE"
\* The result screen the main task shows once taskDone is set.
ResultState ==
    IF cancelFlag \/ lastResult = "cancelled" THEN "CANCELLED"
    ELSE IF lastResult = "translated" THEN "CHOOSE_DISPLAY_MODE" ELSE "DONE"

\* restoreFramebuffer() takes the render lock unless there is nothing to restore.
restoreFramebuffer == (fb \/ lock = "free") /\ fb' = TRUE

FinishDone ==
    /\ Looping /\ state = "TRANSLATING" /\ taskDone
    /\ restoreFramebuffer
    /\ state' = ResultState /\ renderNote' = TRUE
    /\ UNCHANGED <<screen, mpc, workerStarted, flagVars, workerVars, lock, rpc, waiting,
                   diskVars>>

FinishFailed ==
    /\ Looping /\ state = "TRANSLATING" /\ taskFailed /\ ~taskDone
    /\ restoreFramebuffer
    /\ state' = "FAILED" /\ renderNote' = TRUE
    /\ UNCHANGED <<screen, mpc, workerStarted, flagVars, workerVars, lock, rpc, waiting,
                   diskVars>>

\* The throttled repaint of a run whose framebuffer could not be released.
RepaintProgress ==
    /\ Looping /\ state = "TRANSLATING" /\ fb /\ ~taskDone /\ ~taskFailed
    /\ renderNote' = TRUE
    /\ UNCHANGED <<screen, state, mpc, workerStarted, flagVars, workerVars, fb, lock, rpc,
                   waiting, diskVars>>

\* Back is read at the end of the pass; the worker may have finished meanwhile.
BackCancels ==
    /\ Looping /\ state = "TRANSLATING"
    /\ cancelFlag' = TRUE
    /\ UNCHANGED <<screen, state, mpc, workerStarted, flagsButCancel, workerVars, fb, drawVars,
                   diskVars>>

\* The light panel is pushed over the activity, which neither exits nor loops meanwhile.
OpenPanel ==
    /\ Looping /\ LightPanel
    /\ screen' = "panel" /\ renderNote' = TRUE
    /\ UNCHANGED <<state, mpc, workerStarted, flagVars, workerVars, fb, lock, rpc, waiting,
                   diskVars>>

ClosePanel ==
    /\ mpc = "loop" /\ screen = "panel"
    /\ screen' = "translation" /\ renderNote' = TRUE
    /\ UNCHANGED <<state, mpc, workerStarted, flagVars, workerVars, fb, lock, rpc, waiting,
                   diskVars>>

-----------------------------------------------------------------------------
(* Leaving: returnToCaller() from any screen but TRANSLATING, and from any *)
(* screen at all the home gesture, a shortcut or the power button.         *)

Leave ==
    /\ mpc = "loop" /\ screen # "reader"
    /\ mpc' = "exit"
    /\ UNCHANGED <<screen, state, workerStarted, flagVars, workerVars, fb, drawVars, diskVars>>

\* onExit() runs under the render lock.
onExit ==
    /\ mpc = "exit" /\ lock = "free" /\ lock' = "main"
    /\ cancelFlag' = TRUE
    /\ mpc' = IF workerStarted THEN "exitWait" ELSE "exitRestore"
    /\ UNCHANGED <<screen, state, workerStarted, flagsButCancel, workerVars, fb, rpc,
                   renderNote, waiting, diskVars>>

\* Fifty polls, 100 ms apart: within them the worker has ended, or a slow call still holds it.
ExitWaitEnds == mpc = "exitWait" /\ (taskDone \/ taskFailed \/ SlowNetwork)

ExitWaited ==
    /\ ExitWaitEnds /\ mpc' = "exitRestore"
    /\ UNCHANGED <<screen, state, workerStarted, flagVars, workerVars, fb, drawVars, diskVars>>

\* The framebuffer comes back under the lock already held; then the object is destroyed.
HandBack == fb' = TRUE

ExitRestore ==
    /\ mpc = "exitRestore" /\ mpc' = "loop"
    /\ HandBack /\ lock' = "free"
    /\ screen' = "reader" /\ workerStarted' = FALSE /\ renderNote' = TRUE
    /\ wpc' = "none" /\ stray' = (stray \/ wpc # "none")
    /\ UNCHANGED <<state, flagVars, rpc, waiting, diskVars>>

-----------------------------------------------------------------------------
(* The render task, between this activity's requests.                      *)

\* This activity's render() looks for the framebuffer before it draws; others do not.
DrawsNow == screen # "translation" \/ fb

\* As RenderBegins, when the notification that woke it stays.
RenderBeginsAgain ==
    /\ rpc = "take" /\ renderNote /\ lock = "free"
    /\ lock' = "render"
    /\ rpc' = IF DrawsNow THEN "draw" ELSE "skip"
    /\ UNCHANGED <<screen, state, mpc, workerStarted, flagVars, workerVars, fb, renderNote, waiting,
                   diskVars>>

RenderBegins ==
    /\ rpc = "take" /\ renderNote /\ lock = "free"
    /\ renderNote' = FALSE /\ lock' = "render"
    /\ rpc' = IF DrawsNow THEN "draw" ELSE "skip"
    /\ UNCHANGED <<screen, state, mpc, workerStarted, flagVars, workerVars, fb, waiting,
                   diskVars>>

RenderEnds ==
    /\ rpc \in {"draw", "skip"} /\ rpc' = "take"
    /\ lock' = "free" /\ waiting' = FALSE
    /\ UNCHANGED <<screen, state, mpc, workerStarted, flagVars, workerVars, fb, renderNote,
                   diskVars>>

-----------------------------------------------------------------------------
(* The worker: runTranslation() and serviceBatchBoundary().                *)

workerUnchanged == <<screen, state, mpc, workerStarted, stray, fb, drawVars, run, prior, shown, crashes>>

Fail(pcs) == wpc \in pcs /\ wpc' = "none" /\ taskFailed' = TRUE

ExtractFails ==
    /\ StorageFaults /\ Fail({"extract"})
    /\ tmp' = FALSE
    /\ UNCHANGED <<workerUnchanged, flagsButFailed, part, final, pairs, bin>>
Extract ==
    /\ wpc = "extract" /\ wpc' = "open"
    /\ tmp' = TRUE
    /\ UNCHANGED <<workerUnchanged, flagVars, part, final, pairs, bin>>

OpenPartFails ==
    /\ StorageFaults /\ Fail({"open"})
    /\ tmp' = FALSE /\ part' = Absent
    /\ UNCHANGED <<workerUnchanged, flagsButFailed, final, pairs, bin>>
\* A stale ".part" goes before this run's is created.
OpenPartReplacing ==
    /\ wpc = "open" /\ wpc' = "rewrite"
    /\ part' = Output("partial") /\ final' = Absent
    /\ UNCHANGED <<workerUnchanged, flagVars, tmp, pairs, bin>>
OpenPart ==
    /\ wpc = "open" /\ wpc' = "rewrite"
    /\ part' = Output("partial")
    /\ UNCHANGED <<workerUnchanged, flagVars, tmp, final, pairs, bin>>

\* As serviceBatchBoundary, with the answer to the boundary before left standing.
serviceBatchBoundaryOldAck ==
    /\ wpc = "rewrite" /\ ~cancelFlag
    /\ wpc' = "boundary" /\ boundaryPending' = TRUE
    /\ UNCHANGED <<workerUnchanged, flagsButPending, fileVars>>
\* A repaint is due at a batch boundary.
serviceBatchBoundary ==
    /\ wpc = "rewrite" /\ ~cancelFlag
    /\ wpc' = "boundary"
    /\ boundaryAck' = FALSE /\ boundaryPending' = TRUE
    /\ UNCHANGED <<workerUnchanged, cancelFlag, taskDone, taskFailed, lastResult, fileVars>>

BoundaryEnds == boundaryAck \/ cancelFlag

ResumeRewrite ==
    /\ wpc = "boundary" /\ BoundaryEnds
    /\ wpc' = "rewrite" /\ boundaryPending' = FALSE
    /\ UNCHANGED <<workerUnchanged, flagsButPending, fileVars>>

\* rewriteFromFile() returns: stopped by a cancel, giving up after consecutive errors, or at its end.
\* A write that failed, a read error and a parse error are not reported, nor are an input that does
\* not open and a parser that is not allocated: these look like a chapter without texts.
rewriteFromFile ==
    /\ wpc = "rewrite" /\ wpc' = "close"
    /\ \/ cancelFlag /\ lastResult' = "cancelled" /\ UNCHANGED part
       \/ ~cancelFlag /\ lastResult' = "aborted" /\ UNCHANGED part
       \/ /\ ~cancelFlag /\ lastResult' \in {"translated", "passthrough", "untranslated"}
          /\ \/ part' = Output("whole")
             \/ (UnreadableChapter \/ StorageFaults) /\ part' = Output("damaged")
       \/ /\ StorageFaults \/ LowMemory
          /\ lastResult' = "passthrough" /\ part' = Output("damaged")
    /\ UNCHANGED <<workerUnchanged, cancelFlag, taskDone, taskFailed, boundaryPending,
                   boundaryAck, tmp, final, pairs, bin>>

\* outFile.close() flushes; its result is not looked at.
CloseOutput ==
    /\ wpc = "close" /\ wpc' = "check"
    /\ tmp' = FALSE
    /\ \/ UNCHANGED part
       \/ StorageFaults /\ part.text = "whole" /\ part' = Output("damaged")
    /\ UNCHANGED <<workerUnchanged, flagVars, final, pairs, bin>>

Discard(flags) == part' = Absent /\ wpc' = "none" /\ UNCHANGED flags

DiscardCancelled ==
    /\ wpc = "check" /\ (cancelFlag \/ lastResult = "cancelled")
    /\ taskDone' = TRUE /\ Discard(flagsButDone)
    /\ UNCHANGED <<workerUnchanged, tmp, final, pairs, bin>>

DiscardFailed ==
    /\ wpc = "check" /\ ~cancelFlag /\ lastResult \in {"aborted", "untranslated"}
    /\ taskFailed' = TRUE /\ Discard(flagsButFailed)
    /\ UNCHANGED <<workerUnchanged, tmp, final, pairs, bin>>

CommitAnything ==
    /\ wpc = "check" /\ ~cancelFlag /\ lastResult # "cancelled"
    /\ wpc' = "removeFinal"
    /\ UNCHANGED <<workerUnchanged, flagVars, fileVars>>
Commit ==
    /\ wpc = "check" /\ ~cancelFlag /\ lastResult \in {"translated", "passthrough"}
    /\ wpc' = "removeFinal"
    /\ UNCHANGED <<workerUnchanged, flagVars, fileVars>>

RemoveFinal ==
    /\ wpc = "removeFinal" /\ wpc' = "rename"
    /\ final' = Absent
    /\ UNCHANGED <<workerUnchanged, flagVars, tmp, part, pairs, bin>>

RenameFails ==
    /\ (StorageFaults \/ part = Absent) /\ Fail({"rename"})
    /\ part' = Absent
    /\ UNCHANGED <<workerUnchanged, flagsButFailed, tmp, final, pairs, bin>>
Rename ==
    /\ wpc = "rename" /\ part # Absent /\ wpc' = "removePairs"
    /\ final' = part /\ part' = Absent
    /\ UNCHANGED <<workerUnchanged, flagVars, tmp, pairs, bin>>

RemovePairsNot == UNCHANGED pairs
RemovePairs == pairs' = Absent
RemoveBin == bin' = Absent

DropPairs ==
    /\ wpc = "removePairs" /\ wpc' = "removeBin"
    /\ RemovePairs
    /\ UNCHANGED <<workerUnchanged, flagVars, tmp, part, final, bin>>

DropPages ==
    /\ wpc = "removeBin" /\ wpc' = "none"
    /\ RemoveBin /\ taskDone' = TRUE
    /\ UNCHANGED <<workerUnchanged, flagsButDone, tmp, part, final, pairs>>
-----------------------------------------------------------------------------
(* Power loss and restart: everything but the SD card starts over.         *)

Reboot ==
    /\ screen' = "reader" /\ state' = "SOURCE_LANG_SELECTION" /\ mpc' = "loop" /\ workerStarted' = FALSE
    /\ cancelFlag' = FALSE /\ taskDone' = FALSE /\ taskFailed' = FALSE
    /\ boundaryPending' = FALSE /\ boundaryAck' = FALSE /\ lastResult' = "none"
    /\ wpc' = "none" /\ stray' = FALSE /\ fb' = TRUE
    /\ lock' = "free" /\ rpc' = "take" /\ renderNote' = FALSE /\ waiting' = FALSE
    /\ shown' = Absent
    /\ UNCHANGED <<run, prior, fileVars>>

PowerLoss == crashes < MaxCrashes /\ Reboot /\ crashes' = crashes + 1

\* restoreFramebuffer() gives up after five attempts and restarts the chip.
RestoreImpossible ==
    /\ LowMemory /\ ~fb
    /\ \/ Looping /\ state = "TRANSLATING" /\ (taskDone \/ taskFailed) /\ lock = "free"
       \/ mpc = "exitRestore"
    /\ Reboot /\ UNCHANGED crashes

\* The worker goes on in freed memory: it still finds cancelFlag set and removes its output, or
\* ends without, or the chip faults and restarts.
StrayWorker ==
    /\ stray
    /\ \/ /\ stray' = FALSE /\ part' \in {part, Absent}
          /\ UNCHANGED <<screen, state, mpc, workerStarted, flagVars, wpc, fb, drawVars, run, prior,
                   tmp, final, pairs, bin, shown, crashes>>
       \/ Reboot /\ UNCHANGED crashes

-----------------------------------------------------------------------------
Reader == OpenChapter \/ Reading \/ buildPairCacheIfNeeded \/ DeleteTranslations \/ launchTranslation
Before == ConfirmRetranslate \/ Picked \/ WifiFailed \/ startTranslation
During ==
    \/ Waited \/ CreateWorker \/ ClaimBoundary \/ tryRestoreFramebuffer \/ Rerelease \/ AckBoundary
    \/ FinishDone \/ FinishFailed
User == RepaintProgress \/ BackCancels \/ OpenPanel \/ ClosePanel \/ Leave
Leaving == onExit \/ ExitWaited \/ ExitRestore
Render == RenderBegins \/ RenderEnds
Worker ==
    \/ ExtractFails \/ Extract \/ OpenPartFails \/ OpenPart
    \/ serviceBatchBoundary \/ ResumeRewrite \/ rewriteFromFile \/ CloseOutput
    \/ DiscardCancelled \/ DiscardFailed \/ Commit
    \/ RemoveFinal \/ RenameFails \/ Rename \/ DropPairs \/ DropPages
Fault == PowerLoss \/ RestoreImpossible \/ StrayWorker

Next == Reader \/ Before \/ During \/ User \/ Leaving \/ Render \/ Worker \/ Fault

Spec == Init /\ [][Next]_vars

\* The scheduler runs all three tasks; a translation call returns, so the rewriter comes to an
\* end however often it asks for a repaint.  The user owes nothing.
Fairness ==
    /\ WF_vars(During) /\ WF_vars(Leaving) /\ WF_vars(Render) /\ WF_vars(Worker)
    /\ SF_vars(rewriteFromFile)
FairSpec == Spec /\ Fairness

-----------------------------------------------------------------------------
(* Properties.                                                             *)

\* Types.
TypeOK ==
    /\ screen \in {"reader", "translation", "picker", "panel"} /\ state \in States
    /\ mpc \in MainPcs /\ wpc \in WorkerPcs /\ lastResult \in Results
    /\ {workerStarted, cancelFlag, taskDone, taskFailed, boundaryPending, boundaryAck, stray, fb,
        renderNote, waiting, tmp} \subseteq BOOLEAN
    /\ lock \in {"free", "main", "render"} /\ rpc \in {"take", "draw", "skip"}
    /\ run \in 0..MaxRuns /\ crashes \in 0..MaxCrashes
    /\ {prior, part, final, pairs} \subseteq Content /\ {bin, shown} \subseteq Content

\* The render task never draws while the framebuffer is freed for the network; on every other
\* screen it is back ("restored ... before anything draws again").
DrawsIntoTheBuffer == rpc = "draw" => fb

\* onExit() hands the framebuffer back: no other activity finds it missing.
BufferHandedBack == screen = "reader" /\ mpc = "loop" => fb

\* The main task is between claiming a batch boundary and acknowledging it.
Repainting == {"repaint", "repaintWait", "rerelease", "ack"}

\* The framebuffer comes back for a repaint, and goes away again, only while the worker is parked in
\* serviceBatchBoundary(), never while its request holds the memory; a cancelled run no longer waits.
RepaintsWhileParked == mpc \in Repainting => wpc = "boundary" \/ cancelFlag

\* onExit(): "The 5-second cap is enough for a partially-translated chapter to abort cleanly": the
\* activity object is destroyed only when its worker is through with it.
WorkerEndsBeforeItsActivity == mpc = "exitRestore" => wpc = "none"

\* hasTranslatedSidecar(): "only renamed into place after a clean, complete write".
CommittedIsWhole == final # Absent => final.text = "whole"

\* What a run leaves behind when it is cancelled, gives up or loses power is never the chapter's
\* translation ("a power loss mid-translation leaves only a .part"), however the cancel races the
\* commit and whatever .part a run finds: a committed file is one its rewriter came to the end of.
CommittedRanToItsEnd == final # Absent => final.text # "partial"

\* A run that did not reach its commit leaves the prior translation in place.
UnfinishedKeepsPrior ==
    screen # "reader" /\ (taskFailed \/ wpc \in {"extract", "open", "rewrite", "boundary", "close", "check"})
        => final = prior

\* After DONE or the display-mode chooser the chapter's translation is that of this run, which came
\* to its end: the main task, which looks at cancelFlag again, agrees with what the worker decided.
SuccessIsCommitted ==
    screen = "translation" /\ state \in {"DONE", "CHOOSE_DISPLAY_MODE"} =>
        final \in {Output("whole"), Output("damaged")}

\* "any prior committed translation at the final path is left untouched" by a cancelled run.
CancelKeepsPrior == screen = "translation" /\ state = "CANCELLED" => final = prior

\* "Commit atomically": once a chapter has a translation, a reader finds one.
TranslationNeverLost ==
    screen = "reader" /\ shown # Absent /\ prior # Absent => final # Absent

\* The pages the reader shows come from the translation it has ("Drop them": the section key
\* alone would serve the pages of the one before).
PagesOfTheTranslation == shown # Absent => shown = Source

\* The pair memo is never that of another translation than the one the reader shows.
PairsOfTheTranslation ==
    screen = "reader" /\ final # Absent /\ pairs # Absent => pairs = final

\* Neither the pages nor the pair memo outlives the translation it was made from.
CachesOfTheTranslation == PagesOfTheTranslation /\ PairsOfTheTranslation

\* A run that the user does not leave reaches its result screen: the worker is not left parked at a
\* batch boundary either.
RunEnds == state = "TRANSLATING" /\ screen # "reader" ~> state # "TRANSLATING" \/ screen \in {"panel", "reader"}

\* onExit() ends although it holds the render lock and waits for the worker.
ExitEnds == mpc = "exit" ~> mpc = "loop"
=============================================================================
