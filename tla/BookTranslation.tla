---------------------------- MODULE BookTranslation ----------------------------
(***************************************************************************)
(* Translating a whole book: BookTranslationActivity on the main task, its *)
(* worker (bookTranslate), which runs the rewriter of TranslationBatches   *)
(* over one chapter after another, and the chapters' files on the card.    *)
(*                                                                         *)
(* What it shares with the translation of one chapter is in the module     *)
(* ChapterTranslation in more detail: the render task and its lock, the    *)
(* scratch and .part files, what the pages of a chapter are made from, and *)
(* a worker that outlives its activity.  Here it is the order of chapters, *)
(* and the rewriter's own steps between the boundaries.                    *)
(***************************************************************************)
EXTENDS TranslationBatches

CONSTANTS
    NumChapters,      \* spine items of the book
    MaxRuns,          \* bound: runs started
    MaxCrashes,       \* bound: power losses and restarts
    SlowNetwork,      \* a network call may outlast the wait in onExit()
    StorageFaults,    \* loading the book, creating, extracting or renaming a file can fail
    BufferStuck       \* the framebuffer is not always released when asked to

ASSUME BookAssumption ==
    /\ {NumChapters, MaxRuns, MaxCrashes} \subseteq Nat
    /\ {SlowNetwork, StorageFaults, BufferStuck} \subseteq BOOLEAN

VARIABLES
    screen,          \* who is in front: the reader, this activity, or a picker over it
    state, mpc,      \* the activity's screen state; where the main task is
    workerStarted,   \* taskHandle is set
    taskDone, taskFailed, boundaryPending, boundaryAck,
    skipTranslated,
    wpc,             \* where the worker is
    current, completed,  \* currentChapter, from 1; chaptersCompleted
    fb,              \* the 48 KB framebuffer is allocated
    run,             \* the run's number
    final,           \* .translated.html of each chapter: the run it is from, or 0
    had, stale,      \* observers: chapters that had a translation; that have pages of another
    refusals, crashes    \* observers: commits the card refused; power losses

flagVars == <<taskDone, taskFailed, boundaryPending, boundaryAck>>
mainVars == <<screen, state, mpc, workerStarted, skipTranslated>>
cardVars == <<final, had, stale, refusals>>
placeVars == <<wpc, current, completed>>
vars == <<rewriteVars, mainVars, flagVars, placeVars, fb, run, cardVars, crashes>>

Chapter == 1..NumChapters
ResultStates == {"DONE", "CHOOSE_DISPLAY_MODE", "FAILED", "CANCELLED"}
PickerStates == {"SOURCE_LANG_SELECTION", "LANG_SELECTION", "WIFI_SELECTION"}
States == {"CONFIRM_RETRANSLATE", "TRANSLATING"} \cup PickerStates \cup ResultStates
MainPcs == {"loop", "release", "repaint", "rerelease", "ack", "exit", "exitWait", "exitRestore"}
WorkerPcs ==
    {"none", "top", "chapterBoundary", "heap", "extract", "open", "rewrite", "boundary",
     "removeFinal", "rename", "dropCaches"}

Init ==
    /\ RewriteInit
    /\ screen = "reader" /\ state = "SOURCE_LANG_SELECTION" /\ mpc = "loop"
    /\ workerStarted = FALSE /\ skipTranslated = FALSE
    /\ taskDone = FALSE /\ taskFailed = FALSE /\ boundaryPending = FALSE /\ boundaryAck = FALSE
    /\ wpc = "none" /\ current = 1 /\ completed = 0 /\ fb = TRUE /\ run = 0
    /\ final = [c \in Chapter |-> 0] /\ had = {} /\ stale = {} /\ refusals = 0 /\ crashes = 0

-----------------------------------------------------------------------------
(* Before the run.                                                         *)

beforeUnchanged == <<rewriteVars, mpc, workerStarted, flagVars, placeVars, fb, run, cardVars, crashes>>

\* onEnter() of a new object.
Enter ==
    /\ screen = "reader" /\ mpc = "loop" /\ run < MaxRuns
    /\ skipTranslated' = FALSE
    /\ \/ StorageFaults /\ screen' = "book" /\ state' = "FAILED"
       \/ screen' = "picker" /\ state' = "SOURCE_LANG_SELECTION"
    /\ UNCHANGED beforeUnchanged

\* Nothing more is asked for once the runs are used up.
KeepReading == screen = "reader" /\ mpc = "loop" /\ run = MaxRuns /\ UNCHANGED vars

SourcePicked ==
    /\ screen = "picker" /\ mpc = "loop" /\ state = "SOURCE_LANG_SELECTION"
    /\ state' = "LANG_SELECTION"
    /\ UNCHANGED <<beforeUnchanged, screen, skipTranslated>>

\* The target language is known: scanAlreadyTranslated().
TargetPicked ==
    /\ screen = "picker" /\ mpc = "loop" /\ state = "LANG_SELECTION"
    /\ IF \E c \in Chapter : final[c] # 0
       THEN screen' = "book" /\ state' = "CONFIRM_RETRANSLATE"
       ELSE screen' = "picker" /\ state' = "WIFI_SELECTION"
    /\ UNCHANGED <<beforeUnchanged, skipTranslated>>

Confirmed ==
    /\ screen = "book" /\ mpc = "loop" /\ state = "CONFIRM_RETRANSLATE"
    /\ skipTranslated' \in BOOLEAN
    /\ screen' = "picker" /\ state' = "WIFI_SELECTION"
    /\ UNCHANGED beforeUnchanged

WifiFailed ==
    /\ screen = "picker" /\ mpc = "loop" /\ state = "WIFI_SELECTION"
    /\ screen' = "book" /\ state' = "FAILED"
    /\ UNCHANGED <<beforeUnchanged, skipTranslated>>

\* Connected: the counters start over, and the screen is drawn before its buffer goes.
startTranslation ==
    /\ screen = "picker" /\ mpc = "loop" /\ state = "WIFI_SELECTION"
    /\ screen' = "book" /\ state' = "TRANSLATING" /\ mpc' = "release"
    /\ cancelFlag' = FALSE /\ taskDone' = FALSE /\ taskFailed' = FALSE
    /\ boundaryPending' = FALSE /\ boundaryAck' = FALSE
    /\ current' = 1 /\ completed' = 0 /\ run' = run + 1
    /\ UNCHANGED <<engine, pc, textVars, requestVars, outVars, countVars, observed, workerStarted,
                   skipTranslated, wpc, fb, cardVars, crashes>>

releaseFramebuffer == fb' \in {FALSE} \cup (IF BufferStuck THEN {fb} ELSE {})

CreateWorker ==
    /\ mpc = "release" /\ releaseFramebuffer
    /\ mpc' = "loop" /\ wpc' = "top" /\ workerStarted' = TRUE
    /\ UNCHANGED <<rewriteVars, screen, state, skipTranslated, flagVars, current, completed, run,
                   cardVars, crashes>>

-----------------------------------------------------------------------------
(* The main task during the run, and leaving.                              *)

Translating == screen = "book" /\ mpc = "loop" /\ state = "TRANSLATING"
mainUnchanged == <<screen, workerStarted, skipTranslated, placeVars, run, cardVars, crashes>>

ClaimBoundary ==
    /\ Translating /\ boundaryPending
    /\ boundaryPending' = FALSE /\ mpc' = "repaint"
    /\ UNCHANGED <<rewriteVars, mainUnchanged, state, taskDone, taskFailed, boundaryAck, fb>>

\* tryRestoreFramebuffer(), and the progress drawn if it succeeds.
RepaintAckIfDrawn ==
    /\ mpc = "repaint"
    /\ \/ fb' = TRUE /\ mpc' = "rerelease"
       \/ ~fb /\ UNCHANGED fb /\ mpc' = "loop"
    /\ UNCHANGED <<rewriteVars, mainUnchanged, state, flagVars>>
RepaintEarlyAck ==
    /\ mpc = "repaint" /\ boundaryAck' = TRUE
    /\ \/ fb' = TRUE /\ mpc' = "rerelease"
       \/ ~fb /\ UNCHANGED fb /\ mpc' = "ack"
    /\ UNCHANGED <<rewriteVars, mainUnchanged, state, taskDone, taskFailed, boundaryPending>>
Repaint ==
    /\ mpc = "repaint"
    /\ \/ fb' = TRUE /\ mpc' = "rerelease"
       \/ ~fb /\ UNCHANGED fb /\ mpc' = "ack"
    /\ UNCHANGED <<rewriteVars, mainUnchanged, state, flagVars>>

Rerelease ==
    /\ mpc = "rerelease" /\ releaseFramebuffer /\ mpc' = "ack"
    /\ UNCHANGED <<rewriteVars, mainUnchanged, state, flagVars>>

AckBoundary ==
    /\ mpc = "ack" /\ mpc' = "loop" /\ boundaryAck' = TRUE
    /\ UNCHANGED <<rewriteVars, mainUnchanged, state, taskDone, taskFailed, boundaryPending, fb>>

FinishDone ==
    /\ Translating /\ ~boundaryPending /\ taskDone
    /\ fb' = TRUE
    /\ state' = IF cancelFlag THEN "CANCELLED"
                ELSE IF completed > 0 THEN "CHOOSE_DISPLAY_MODE" ELSE "DONE"
    /\ UNCHANGED <<rewriteVars, mainUnchanged, mpc, flagVars>>

FinishFailed ==
    /\ Translating /\ ~boundaryPending /\ taskFailed /\ ~taskDone
    /\ fb' = TRUE /\ state' = "FAILED"
    /\ UNCHANGED <<rewriteVars, mainUnchanged, mpc, flagVars>>

\* Back during the run.
BackCancels ==
    /\ Translating /\ Cancel
    /\ UNCHANGED <<mainVars, flagVars, placeVars, fb, run, cardVars, crashes>>

\* returnToCaller() from any screen but TRANSLATING; home, sleep or a shortcut from any.
Leave ==
    /\ mpc = "loop" /\ screen # "reader"
    /\ mpc' = "exit"
    /\ UNCHANGED <<rewriteVars, mainUnchanged, state, flagVars, fb>>

onExit ==
    /\ mpc = "exit" /\ Cancel
    /\ mpc' = IF workerStarted THEN "exitWait" ELSE "exitRestore"
    /\ UNCHANGED <<mainUnchanged, state, flagVars, fb>>

ExitWaited ==
    /\ mpc = "exitWait" /\ (taskDone \/ taskFailed \/ SlowNetwork)
    /\ mpc' = "exitRestore"
    /\ UNCHANGED <<rewriteVars, mainUnchanged, state, flagVars, fb>>

\* The object goes; a worker that still runs is beyond this module.
ExitRestore ==
    /\ mpc = "exitRestore" /\ mpc' = "loop"
    /\ fb' = TRUE /\ screen' = "reader" /\ workerStarted' = FALSE
    /\ wpc' = "none" /\ Forget
    /\ UNCHANGED <<engine, cancelFlag, state, skipTranslated, flagVars, current, completed, run, cardVars,
                   crashes>>

-----------------------------------------------------------------------------
(* The worker: runTranslation(), a chapter at a time.                      *)

workerUnchanged == <<mainVars, fb, run, crashes>>

\* The loop over the chapters ends or is broken off.
LoopEnds ==
    /\ \/ wpc \in {"top", "heap"} /\ cancelFlag
       \/ wpc = "top" /\ current > NumChapters
    /\ wpc' = "none" /\ taskDone' = TRUE
    /\ UNCHANGED <<rewriteVars, workerUnchanged, taskFailed, boundaryPending, boundaryAck, current,
                   completed, cardVars>>

AtChapter == wpc = "top" /\ ~cancelFlag /\ current <= NumChapters
Skipped == skipTranslated /\ final[current] # 0

SkipChapter ==
    /\ AtChapter /\ Skipped
    /\ completed' = completed + 1 /\ current' = current + 1
    /\ UNCHANGED <<rewriteVars, workerUnchanged, flagVars, wpc, cardVars>>

RaiseBoundary ==
    /\ boundaryAck' = FALSE /\ boundaryPending' = TRUE
    /\ UNCHANGED <<rewriteVars, workerUnchanged, taskDone, taskFailed, current, completed, cardVars>>

FirstChapter ==
    /\ AtChapter /\ ~Skipped /\ current = 1 /\ completed = 0
    /\ wpc' = "heap"
    /\ UNCHANGED <<rewriteVars, workerUnchanged, flagVars, current, completed, cardVars>>

ChapterBoundary ==
    /\ AtChapter /\ ~Skipped /\ (current # 1 \/ completed # 0)
    /\ wpc' = "chapterBoundary" /\ RaiseBoundary

BoundaryEnds == boundaryAck \/ cancelFlag

ChapterBoundaryEnds ==
    /\ wpc = "chapterBoundary" /\ BoundaryEnds
    /\ wpc' = "heap" /\ boundaryPending' = FALSE
    /\ UNCHANGED <<rewriteVars, workerUnchanged, taskDone, taskFailed, boundaryAck, current, completed,
                   cardVars>>

\* The wait for memory ends, with or without it.
HeapWaited ==
    /\ wpc = "heap" /\ ~cancelFlag /\ wpc' = "extract"
    /\ UNCHANGED <<rewriteVars, workerUnchanged, flagVars, current, completed, cardVars>>

Extracted ==
    /\ wpc = "extract" /\ wpc' = "open"
    /\ UNCHANGED <<rewriteVars, workerUnchanged, flagVars, current, completed, cardVars>>

FileFails ==
    /\ StorageFaults /\ wpc \in {"extract", "open"}
    /\ wpc' = "none" /\ taskFailed' = TRUE
    /\ UNCHANGED <<rewriteVars, workerUnchanged, taskDone, boundaryPending, boundaryAck, current,
                   completed, cardVars>>

StartChapter ==
    /\ wpc = "open" /\ Start /\ wpc' = "rewrite"
    /\ UNCHANGED <<workerUnchanged, flagVars, current, completed, cardVars>>

RewriteStep ==
    /\ wpc = "rewrite" /\ Rewrite
    /\ UNCHANGED <<workerUnchanged, flagVars, placeVars, cardVars>>

\* serviceBatchBoundary() when no repaint is due or the run is being cancelled.
BoundaryPassed ==
    /\ wpc = "rewrite" /\ Passing
    /\ UNCHANGED <<workerUnchanged, flagVars, placeVars, cardVars>>

BatchBoundary ==
    /\ wpc = "rewrite" /\ pc \in {"paragraph", "boundary"} /\ ~cancelFlag
    /\ wpc' = "boundary" /\ RaiseBoundary

BatchBoundaryEnds ==
    /\ wpc = "boundary" /\ BoundaryEnds
    /\ wpc' = "rewrite" /\ boundaryPending' = FALSE /\ Passing
    /\ UNCHANGED <<workerUnchanged, taskDone, taskFailed, boundaryAck, current, completed, cardVars>>

\* The rewriter is back: its output is dropped, or committed.
Finished == wpc = "rewrite" /\ pc = "done" /\ Forget /\ UNCHANGED <<engine, cancelFlag>>

DropCancelled ==
    /\ Finished /\ cancelFlag
    /\ wpc' = "none" /\ taskDone' = TRUE
    /\ UNCHANGED <<workerUnchanged, taskFailed, boundaryPending, boundaryAck, current, completed,
                   cardVars>>

DropFailedAndGoOn ==
    /\ Finished /\ ~cancelFlag /\ ~Committable
    /\ wpc' = "top" /\ current' = current + 1
    /\ UNCHANGED <<workerUnchanged, flagVars, completed, cardVars>>
DropFailed ==
    /\ Finished /\ ~cancelFlag /\ ~Committable
    /\ wpc' = "none" /\ taskFailed' = TRUE
    /\ UNCHANGED <<workerUnchanged, taskDone, boundaryPending, boundaryAck, current, completed,
                   cardVars>>

Commit ==
    /\ Finished /\ Committable
    /\ wpc' = "removeFinal"
    /\ UNCHANGED <<workerUnchanged, flagVars, current, completed, cardVars>>

RemoveFinals ==
    /\ wpc = "removeFinal" /\ wpc' = "rename"
    /\ final' = [c \in Chapter |-> IF c >= current THEN 0 ELSE final[c]]
    /\ UNCHANGED <<rewriteVars, workerUnchanged, flagVars, current, completed, had, stale, refusals>>
RemoveFinal ==
    /\ wpc = "removeFinal" /\ wpc' = "rename"
    /\ final' = [final EXCEPT ![current] = 0]
    /\ UNCHANGED <<rewriteVars, workerUnchanged, flagVars, current, completed, had, stale, refusals>>

RenameFails ==
    /\ StorageFaults /\ wpc = "rename"
    /\ wpc' = "none" /\ taskFailed' = TRUE
    /\ refusals' = refusals + 1
    /\ UNCHANGED <<rewriteVars, workerUnchanged, taskDone, boundaryPending, boundaryAck, current,
                   completed, final, had, stale>>

Rename ==
    /\ wpc = "rename" /\ wpc' = "dropCaches"
    /\ final' = [final EXCEPT ![current] = run]
    /\ had' = had \cup {current} /\ stale' = stale \cup {current}
    /\ UNCHANGED <<rewriteVars, workerUnchanged, flagVars, current, completed, refusals>>

\* The pair memo and the pages go; the chapter is complete.
DropCaches ==
    /\ wpc = "dropCaches" /\ wpc' = "top"
    /\ stale' = stale \ {current}
    /\ completed' = completed + 1 /\ current' = current + 1
    /\ UNCHANGED <<rewriteVars, workerUnchanged, flagVars, final, had, refusals>>

-----------------------------------------------------------------------------
(* Power loss, or the restart when the framebuffer cannot be had again:    *)
(* everything but the card starts over.                                    *)

PowerLoss ==
    /\ crashes < MaxCrashes /\ crashes' = crashes + 1
    /\ Forget /\ cancelFlag' = FALSE
    /\ screen' = "reader" /\ state' = "SOURCE_LANG_SELECTION" /\ mpc' = "loop"
    /\ workerStarted' = FALSE /\ skipTranslated' = FALSE
    /\ taskDone' = FALSE /\ taskFailed' = FALSE /\ boundaryPending' = FALSE /\ boundaryAck' = FALSE
    /\ wpc' = "none" /\ current' = 1 /\ completed' = 0 /\ fb' = TRUE
    /\ UNCHANGED <<engine, run, cardVars>>

-----------------------------------------------------------------------------
User ==
    \/ Enter \/ KeepReading \/ SourcePicked \/ TargetPicked \/ Confirmed \/ WifiFailed \/ startTranslation
    \/ BackCancels \/ Leave
Main ==
    \/ CreateWorker \/ ClaimBoundary \/ Repaint \/ Rerelease \/ AckBoundary \/ FinishDone \/ FinishFailed
    \/ onExit \/ ExitWaited \/ ExitRestore
Worker ==
    \/ LoopEnds \/ SkipChapter \/ FirstChapter \/ ChapterBoundary \/ ChapterBoundaryEnds \/ HeapWaited
    \/ Extracted \/ FileFails \/ StartChapter \/ RewriteStep \/ BoundaryPassed \/ BatchBoundary
    \/ BatchBoundaryEnds \/ DropCancelled \/ DropFailed \/ Commit \/ RemoveFinal \/ RenameFails
    \/ Rename \/ DropCaches

Next == User \/ Main \/ Worker \/ PowerLoss

Spec == Init /\ [][Next]_vars

\* Both tasks run, and a network call returns.  The user owes nothing.
FairSpec == Spec /\ WF_vars(Main) /\ WF_vars(Worker)

-----------------------------------------------------------------------------
(* Properties.                                                             *)

\* Types.
TypeOK ==
    /\ BatchTypeOK
    /\ screen \in {"reader", "book", "picker"} /\ state \in States /\ mpc \in MainPcs
    /\ wpc \in WorkerPcs
    /\ {workerStarted, skipTranslated, taskDone, taskFailed, boundaryPending, boundaryAck, fb}
         \subseteq BOOLEAN
    /\ current \in 1..NumChapters + 1 /\ completed \in 0..NumChapters /\ run \in 0..MaxRuns
    /\ final \in [Chapter -> 0..MaxRuns] /\ {had, stale} \subseteq SUBSET Chapter
    /\ {refusals, crashes} \subseteq Nat

\* The framebuffer is never held while a request is out, so that its TLS session has the heap
\* ("never held across the worker's network calls"), unless the run is being cancelled.
NetworkHasTheHeap == wpc = "rewrite" /\ Asking /\ ~cancelFlag => ~fb

\* "Cancel preserves finished chapters": at most the one chapter in work loses its translation, or
\* keeps pages of an older one, each time power goes or the card refuses the commit.
Damaged == {c \in had : final[c] = 0} \cup stale
FinishedChaptersKept ==
    Cardinality(Damaged) <= refusals + crashes + (IF wpc \in {"rename", "dropCaches"} THEN 1 ELSE 0)

\* A result screen counts chapters that are there, this run's unless it skipped them; without a
\* failure or a cancel they are all of the book.
ReportsWhatIsThere ==
    screen = "book" /\ mpc = "loop" /\ state \in ResultStates /\ workerStarted =>
        /\ \A c \in 1..completed : final[c] # 0 /\ (~skipTranslated => final[c] = run)
        /\ state \in {"DONE", "CHOOSE_DISPLAY_MODE"} => completed = NumChapters

\* A run that is not left reaches its result screen, through every boundary of its chapters and
\* batches.
BookEnds == state = "TRANSLATING" /\ screen = "book" ~> state # "TRANSLATING" \/ screen = "reader"
=============================================================================
