---------------------------- MODULE RadioPolicy ----------------------------
(***************************************************************************)
(* The page turner's rules (RadioPolicy.h, X3 profile): may the radio be   *)
(* on now, and when does a heap in pieces earn a restart.  The heap is     *)
(* told apart as the rules tell it: the stack fits, enough bytes but not   *)
(* in one block, too few bytes.                                            *)
(***************************************************************************)
EXTENDS Naturals

CONSTANT RefusalsBeforeRestart    \* kRefusalsBeforeRestart

ASSUME RefusalsAssumption == RefusalsBeforeRestart \in Nat \ {0}

Heaps == {"fits", "pieces", "low"}

\* May this book visit ask for the radio?  Inputs the host never sets (bookIndexing, a pairing
\* screen, a page not shown while the book is the scene) are left out; a remote is chosen.
IdleVerdict(enabled, storageBusy, reading, heldForBuild, idleStopped) ==
    IF ~enabled THEN "Off"
    ELSE IF storageBusy THEN "StorageBusy"
    ELSE IF ~reading THEN "NotReading"
    ELSE IF heldForBuild THEN "BuildNeedsHeap"
    ELSE IF idleStopped THEN "IdleNoLink"
    ELSE "Ok"

\* On the start task, caches released, right before the stack comes up.
BeforeStartVerdict(heap) ==
    CASE heap = "fits"   -> "Ok"
      [] heap = "pieces" -> "HeapInPieces"
      [] OTHER           -> "HeapLow"

\* The stack came up: keep it, or roll it back.
JustStartedVerdict(wholeBlockLeft) == IF wholeBlockLeft THEN "Ok" ELSE "HeapInPieces"

\* The radio is up: keep it?  `idle` says nothing was linked for kIdleOffMs.
RunningVerdict(enabled, storageBusy, idle) ==
    IF ~enabled THEN "Off"
    ELSE IF storageBusy THEN "StorageBusy"
    ELSE IF idle THEN "IdleNoLink"
    ELSE "Ok"

radioRearmWanted(idleStopped, entered, requested, buildPainted) ==
    entered \/ requested \/ (buildPainted /\ ~idleStopped)

\* The restart is allowed once until the radio comes up again (`spent`, in RTC memory).
shouldRestart(why, inPiecesInRow, spent) ==
    ~spent /\ why = "HeapInPieces" /\ inPiecesInRow >= RefusalsBeforeRestart

\* Tracker::refused and inconclusive: the streak after a start the heap ended, and whether a
\* restart is wanted.  The streak is counted up to the number the rule asks about.
StreakAfter(why, streak) ==
    IF why # "HeapInPieces" THEN 0
    ELSE IF streak < RefusalsBeforeRestart THEN streak + 1 ELSE streak
WantedAfter(why, streak, wanted, spent) ==
    shouldRestart(why, StreakAfter(why, streak), spent) \/ (why = "HeapInPieces" /\ wanted)
=============================================================================
