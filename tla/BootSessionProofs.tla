---------------------------- MODULE BootSessionProofs ----------------------------
(***************************************************************************)
(* Proofs about BootSession, for any set of books and any number of        *)
(* crashes and power losses, on a card that takes what is written to it.   *)
(*                                                                         *)
(* The argument: the card holds the state in memory or nothing readable    *)
(* (SavedInv), a boot's openings are bounded by what it finds counted      *)
(* (LoopInv), and a remembered book is the one the state names, where it   *)
(* stands on the card, from the page to the sleep or the restart           *)
(* (PlaceInv, SleepInv) and from there to the next reader (PromiseInv).    *)
(***************************************************************************)
EXTENDS BootSession, TLAPS

-----------------------------------------------------------------------------
(* The inductive invariant, part by part.                                  *)

Early == {"wake", "route"}
Leaving == {"exit", "move", "moved"}

\* The card holds what is in memory, or cannot be read.
SavedInv == file \in {app, Unreadable}

\* What the main task does, it does on the screen for it.
TaskInv ==
  /\ pc # "off" => rtc = "none"
  /\ target # "none" => pc \in Early
  /\ panic => pc \in {"off"} \cup Early
  /\ auto => screen = "reader" /\ pc \in {"enter", "load", "refused", "idle"}
  /\ screen = "off" <=> pc \in {"off"} \cup Early
  /\ pc \in {"enter", "load", "refused", "exit", "move"} => screen = "reader"
  /\ pc = "moved" => screen = "reader" \/ (screen = "home" /\ next = "home")
  /\ pc = "moved" => card[book[1]] # "gone"
  /\ screen \in {"reader", "sync", "packs"} \/ pc = "moved" => book \in Path

\* A reader without a failed opening was opened by hand; one failure leaves the opening counted, or a boot that
\* counts it; after two nothing opens by itself.
LoopInv ==
  /\ screen = "reader" /\ pc \in {"enter", "load", "refused", "idle"} => auto \/ failures = 0
  /\ screen \in {"sync", "packs"} => failures = 0
  /\ pc \in Leaving /\ next # "home" => failures = 0
  /\ pc = "exit" => failures <= 1
  /\ failures = 1 /\ auto => app.count >= 1
  /\ failures = 1 /\ rtc = "reader" => app.count >= 1
  /\ failures = 1 /\ target = "reader" => app.count >= 1 \/ app.open = None
  /\ failures = 2 => ~auto /\ rtc # "reader" /\ target # "reader" /\ (app.count >= 1 \/ app.open = None)
  /\ failures <= 2

\* The state names a remembered book where it stands, or is about to.
Noted == file = app /\ app.open = <<book[1], card[book[1]]>> /\ card[book[1]] # "gone"
PlaceInv ==
  /\ screen = "reader" /\ pc \in {"load", "refused", "idle", "move"} => There(book)
  /\ pc = "exit" /\ finished => There(book)
  /\ remembered /\ screen = "reader" => pc \in {"idle", "down"} \cup Leaving
  /\ remembered /\ screen = "reader" /\ pc # "moved" => Noted
  /\ remembered /\ screen = "reader" /\ pc = "moved" => file = app /\ app.open = book
  /\ remembered /\ screen \in {"sync", "packs"} => Noted

\* Who sleeps in the reader has left it, counted as left.
SleepInv ==
  /\ screen = "reader" /\ next = "sleep" /\ pc \in Leaving \cup {"down"} => app.slept
  /\ screen = "reader" /\ pc \in {"move", "moved", "down"} => app.count = 0
  /\ screen = "reader" /\ pc = "down" => next = "sleep"

\* A promised book is named where it stands, with a way into it, until the reader has it.
PromiseInv ==
  promise # None =>
    \/ /\ pc = "off" /\ file = app /\ ~panic /\ app.open = <<promise, card[promise]>> /\ card[promise] # "gone"
       /\ rtc = "reader" \/ (rtc = "none" /\ app.slept /\ app.count = 0)
    \/ /\ pc \in Early /\ file = app /\ ~panic /\ app.open = <<promise, card[promise]>> /\ card[promise] # "gone"
       /\ target = "reader" \/ (target = "none" /\ app.slept /\ app.count = 0)
    \/ /\ pc = "enter" /\ book = <<promise, card[promise]>>

Typed == TypeOK /\ TaskInv

-----------------------------------------------------------------------------
(* Each part is kept by every step, from the parts it rests on.            *)

\* Every handler leaves values of their types.
LEMMA TypeStep ==
  ASSUME TypeOK, TaskInv, [Next]_vars
  PROVE  TypeOK'
  <1> USE DEF TypeOK, TaskInv, State, Path, Default, Store, Early, disk, boot, reading, observer
  <1>1. CASE Booting
    <2>1. CASE PowerOn
      BY <2>1 DEF PowerOn
    <2>2. CASE WakeUp
      BY <2>2 DEF WakeUp
    <2>3. CASE SleepAgain
      BY <2>3 DEF SleepAgain
    <2>4. CASE CrashReport
      BY <2>4 DEF CrashReport, Land, Routed
    <2>5. CASE RestartIntoBook
      BY <2>5 DEF RestartIntoBook, OpenByItself, goToReader, Routed
    <2>6. CASE RestartHome
      BY <2>6 DEF RestartHome, Land, Routed
    <2>7. CASE ButtonHeld
      BY <2>7 DEF ButtonHeld, Land, Routed
    <2>8. CASE PlainBoot
      BY <2>8 DEF PlainBoot, Land, Routed, Resumable
    <2>9. CASE Resume
      <3>1. app.open \in Path /\ [open |-> None, count |-> app.count + 1, slept |-> app.slept] \in State
        BY <2>9 DEF Resume, Resumable
      <3>2. app' \in State /\ file' \in State \cup {Unreadable} /\ book' \in Path
        BY <2>9, <3>1 DEF Resume, OpenByItself, goToReader
      <3> QED BY <2>9, <3>2 DEF Resume, OpenByItself, goToReader, Routed
    <2> QED BY <1>1, <2>1, <2>2, <2>3, <2>4, <2>5, <2>6, <2>7, <2>8, <2>9 DEF Booting
  <1>2. CASE Reader
    <2>1. CASE Missing
      BY <2>1 DEF Missing, Ends, There
    <2>2. CASE Opens
      BY <2>2 DEF Opens, There
    <2>3. CASE Refused
      BY <2>3 DEF Refused
    <2>4. CASE LoadFails
      BY <2>4 DEF LoadFails, Ends
    <2>5. CASE Loads
      BY <2>5 DEF Loads
    <2>6. CASE beginLoanTimeSync
      BY <2>6 DEF beginLoanTimeSync, RestartToBook
    <2>7. CASE PageShown
      BY <2>7 DEF PageShown, Reading
    <2>8. CASE rememberBookOnceRendered
      BY <2>8 DEF rememberBookOnceRendered, Reading
    <2>9. CASE TurnPage
      BY <2>9 DEF TurnPage, Reading
    <2>10. CASE RadioRestart
      BY <2>10 DEF RadioRestart, Reading, RestartToBook
    <2>11. CASE \E to \in {"home", "sync", "packs"} : Leave(to)
      <3>1. PICK to \in {"home", "sync", "packs"} : Leave(to)
        BY <2>11
      <3> QED BY <3>1 DEF Leave, Reading
    <2>12. CASE Exit
      BY <2>12 DEF Exit, GoOn
    <2>13. CASE MoveFails
      BY <2>13 DEF MoveFails, GoOn
    <2>14. CASE Move
      BY <2>14 DEF Move
    <2>15. CASE Moved
      BY <2>15 DEF Moved, GoOn
    <2> QED BY <1>2, <2>1, <2>2, <2>3, <2>4, <2>5, <2>6, <2>7, <2>8, <2>9, <2>10, <2>11, <2>12, <2>13, <2>14, <2>15 DEF Reader
  <1>3. CASE User
    <2>1. CASE \E b \in Books : OpenBook(b)
      <3>1. PICK b \in Books : OpenBook(b)
        BY <2>1
      <3>2. <<b, card[b]>> \in Path
        BY <3>1 DEF OpenBook
      <3> QED BY <3>1, <3>2 DEF OpenBook, goToReader
    <2>2. CASE \E b \in Books : RenameBook(b)
      BY <2>2 DEF RenameBook
    <2>3. CASE \E b \in Books : ChangeBook(b)
      BY <2>3 DEF ChangeBook
    <2>4. CASE BackToBook
      BY <2>4 DEF BackToBook, goToReader
    <2>5. CASE NetworkRestart
      BY <2>5 DEF NetworkRestart, RestartToBook
    <2>6. CASE HomeRestart
      BY <2>6 DEF HomeRestart
    <2>7. CASE enterDeepSleep
      BY <2>7 DEF enterDeepSleep
    <2>8. CASE startDeepSleep
      BY <2>8 DEF startDeepSleep
    <2> QED BY <1>3, <2>1, <2>2, <2>3, <2>4, <2>5, <2>6, <2>7, <2>8 DEF User
  <1>4. CASE Reset
    <2>1. CASE Panics
      <3>1. file' \in State \cup {Unreadable} /\ failures' \in Nat
        BY <2>1 DEF Panics, Dies, Saving
      <3> QED BY <2>1, <3>1 DEF Panics, Dies
    <2>2. CASE PowerLoss
      <3>1. file' \in State \cup {Unreadable} /\ failures' \in Nat
        BY <2>2 DEF PowerLoss, Dies, Saving
      <3> QED BY <2>2, <3>1 DEF PowerLoss, Dies
    <2>3. CASE PowerGone
      BY <2>3 DEF PowerGone
    <2> QED BY <1>4, <2>1, <2>2, <2>3 DEF Reset
  <1>5. CASE UNCHANGED vars
    BY <1>5 DEF vars
  <1> QED BY <1>1, <1>2, <1>3, <1>4, <1>5 DEF Next

\* Every handler leaves the main task on the screen it is for.
LEMMA TaskInvStep ==
  ASSUME TypeOK, TaskInv, [Next]_vars
  PROVE  TaskInv'
  <1> USE DEF TypeOK, TaskInv, State, Path, Early, disk, boot, reading, observer
  <1>1. CASE Booting
    <2>1. CASE PowerOn
      BY <2>1 DEF PowerOn
    <2>2. CASE WakeUp
      BY <2>2 DEF WakeUp
    <2>3. CASE SleepAgain
      BY <2>3 DEF SleepAgain
    <2>4. CASE CrashReport
      BY <2>4 DEF CrashReport, Land, Routed
    <2>5. CASE RestartIntoBook
      <3>1. app.open \in Path
        BY <2>5 DEF RestartIntoBook, Resumable
      <3> QED BY <2>5, <3>1 DEF RestartIntoBook, OpenByItself, goToReader, Routed
    <2>6. CASE RestartHome
      BY <2>6 DEF RestartHome, Land, Routed
    <2>7. CASE ButtonHeld
      BY <2>7 DEF ButtonHeld, Land, Routed
    <2>8. CASE PlainBoot
      BY <2>8 DEF PlainBoot, Land, Routed, Resumable
    <2>9. CASE Resume
      <3>1. app.open \in Path
        BY <2>9 DEF Resume, Resumable
      <3> QED BY <2>9, <3>1 DEF Resume, OpenByItself, goToReader, Routed
    <2> QED BY <1>1, <2>1, <2>2, <2>3, <2>4, <2>5, <2>6, <2>7, <2>8, <2>9 DEF Booting
  <1>2. CASE Reader
    <2>1. CASE Missing
      BY <2>1 DEF Missing, Ends, There
    <2>2. CASE Opens
      BY <2>2 DEF Opens, There
    <2>3. CASE Refused
      BY <2>3 DEF Refused
    <2>4. CASE LoadFails
      BY <2>4 DEF LoadFails, Ends
    <2>5. CASE Loads
      BY <2>5 DEF Loads
    <2>6. CASE beginLoanTimeSync
      BY <2>6 DEF beginLoanTimeSync, RestartToBook
    <2>7. CASE PageShown
      BY <2>7 DEF PageShown, Reading
    <2>8. CASE rememberBookOnceRendered
      BY <2>8 DEF rememberBookOnceRendered, Reading
    <2>9. CASE TurnPage
      BY <2>9 DEF TurnPage, Reading
    <2>10. CASE RadioRestart
      BY <2>10 DEF RadioRestart, Reading, RestartToBook
    <2>11. CASE \E to \in {"home", "sync", "packs"} : Leave(to)
      BY <2>11 DEF Leave, Reading
    <2>12. CASE Exit
      BY <2>12 DEF Exit, GoOn
    <2>13. CASE MoveFails
      BY <2>13 DEF MoveFails, GoOn
    <2>14. CASE Move
      BY <2>14 DEF Move
    <2>15. CASE Moved
      BY <2>15 DEF Moved, GoOn
    <2> QED BY <1>2, <2>1, <2>2, <2>3, <2>4, <2>5, <2>6, <2>7, <2>8, <2>9, <2>10, <2>11, <2>12, <2>13, <2>14, <2>15 DEF Reader
  <1>3. CASE User
    <2>1. CASE \E b \in Books : OpenBook(b)
      BY <2>1 DEF OpenBook, goToReader
    <2>2. CASE \E b \in Books : RenameBook(b)
      BY <2>2 DEF RenameBook
    <2>3. CASE \E b \in Books : ChangeBook(b)
      BY <2>3 DEF ChangeBook
    <2>4. CASE BackToBook
      BY <2>4 DEF BackToBook, goToReader
    <2>5. CASE NetworkRestart
      BY <2>5 DEF NetworkRestart, RestartToBook
    <2>6. CASE HomeRestart
      BY <2>6 DEF HomeRestart
    <2>7. CASE enterDeepSleep
      BY <2>7 DEF enterDeepSleep
    <2>8. CASE startDeepSleep
      BY <2>8 DEF startDeepSleep
    <2> QED BY <1>3, <2>1, <2>2, <2>3, <2>4, <2>5, <2>6, <2>7, <2>8 DEF User
  <1>4. CASE Reset
    <2>1. CASE Panics
      BY <2>1 DEF Panics, Dies, Saving
    <2>2. CASE PowerLoss
      BY <2>2 DEF PowerLoss, Dies, Saving
    <2>3. CASE PowerGone
      BY <2>3 DEF PowerGone
    <2> QED BY <1>4, <2>1, <2>2, <2>3 DEF Reset
  <1>5. CASE UNCHANGED vars
    BY <1>5 DEF vars
  <1> QED BY <1>1, <1>2, <1>3, <1>4, <1>5 DEF Next

\* saveToFile() writes what is in memory, and nothing else changes it.
LEMMA SavedInvStep ==
  ASSUME ~SavesFail, SavedInv, [Next]_vars
  PROVE  SavedInv'
  <1> USE DEF SavedInv, Default, Store, disk, boot, reading, observer
  <1>1. CASE Booting
    BY <1>1 DEF Booting, PowerOn, WakeUp, SleepAgain, CrashReport, Land, Routed, RestartIntoBook, OpenByItself,
       goToReader, RestartHome, ButtonHeld, PlainBoot, Resumable, Resume
  <1>2. CASE Reader
    BY <1>2 DEF Reader, Missing, Ends, There, Opens, Refused, LoadFails, Loads, beginLoanTimeSync,
       RestartToBook, PageShown, Reading, rememberBookOnceRendered, TurnPage, RadioRestart, Leave, Exit, GoOn,
       MoveFails, Move, Moved
  <1>3. CASE User
    BY <1>3 DEF User, OpenBook, goToReader, RenameBook, ChangeBook, BackToBook, NetworkRestart, RestartToBook,
       HomeRestart, enterDeepSleep, startDeepSleep
  <1>4. CASE Reset
    BY <1>4 DEF Reset, Panics, Dies, Saving, PowerLoss, PowerGone
  <1>5. CASE UNCHANGED vars
    BY <1>5 DEF vars
  <1> QED BY <1>1, <1>2, <1>3, <1>4, <1>5 DEF Next

\* A boot counts the opening it makes by itself, and only leaving the reader forgets it.
LEMMA LoopInvStep ==
  ASSUME ~SavesFail, Typed, SavedInv, LoopInv, [Next]_vars
  PROVE  LoopInv'
  <1> USE DEF Typed, TypeOK, TaskInv, State, Path, Default, Store, Early, SavedInv, LoopInv, Leaving, disk,
      boot, reading, observer
  <1>1. CASE Booting
    <2>1. CASE PowerOn
      BY <2>1 DEF PowerOn
    <2>2. CASE WakeUp
      BY <2>2 DEF WakeUp
    <2>3. CASE SleepAgain
      BY <2>3 DEF SleepAgain
    <2>4. CASE CrashReport
      BY <2>4 DEF CrashReport, Land, Routed
    <2>5. CASE RestartIntoBook
      BY <2>5 DEF RestartIntoBook, OpenByItself, goToReader, Routed
    <2>6. CASE RestartHome
      BY <2>6 DEF RestartHome, Land, Routed
    <2>7. CASE ButtonHeld
      BY <2>7 DEF ButtonHeld, Land, Routed
    <2>8. CASE PlainBoot
      BY <2>8 DEF PlainBoot, Land, Routed, Resumable
    <2>9. CASE Resume
      BY <2>9 DEF Resume, OpenByItself, goToReader, Routed, Resumable
    <2> QED BY <1>1, <2>1, <2>2, <2>3, <2>4, <2>5, <2>6, <2>7, <2>8, <2>9 DEF Booting
  <1>2. CASE Reader
    <2>1. CASE Missing
      BY <2>1 DEF Missing, Ends, There
    <2>2. CASE Opens
      BY <2>2 DEF Opens, There
    <2>3. CASE Refused
      BY <2>3 DEF Refused
    <2>4. CASE LoadFails
      BY <2>4 DEF LoadFails, Ends
    <2>5. CASE Loads
      BY <2>5 DEF Loads
    <2>6. CASE beginLoanTimeSync
      BY <2>6 DEF beginLoanTimeSync, RestartToBook
    <2>7. CASE PageShown
      BY <2>7 DEF PageShown, Reading
    <2>8. CASE rememberBookOnceRendered
      BY <2>8 DEF rememberBookOnceRendered, Reading
    <2>9. CASE TurnPage
      BY <2>9 DEF TurnPage, Reading
    <2>10. CASE RadioRestart
      BY <2>10 DEF RadioRestart, Reading, RestartToBook
    <2>11. CASE \E to \in {"home", "sync", "packs"} : Leave(to)
      BY <2>11 DEF Leave, Reading
    <2>12. CASE Exit
      BY <2>12 DEF Exit, GoOn
    <2>13. CASE MoveFails
      BY <2>13 DEF MoveFails, GoOn
    <2>14. CASE Move
      BY <2>14 DEF Move
    <2>15. CASE Moved
      <3>1. app'.count = app.count /\ (app.open = None => app'.open = None)
        BY <2>15, NullAssumption DEF Moved
      <3> QED BY <2>15, <3>1 DEF Moved, GoOn
    <2> QED BY <1>2, <2>1, <2>2, <2>3, <2>4, <2>5, <2>6, <2>7, <2>8, <2>9, <2>10, <2>11, <2>12, <2>13, <2>14, <2>15 DEF Reader
  <1>3. CASE User
    BY <1>3 DEF User, OpenBook, goToReader, RenameBook, ChangeBook, BackToBook, NetworkRestart, RestartToBook,
       HomeRestart, enterDeepSleep, startDeepSleep
  <1>4. CASE Reset
    BY <1>4 DEF Reset, Panics, Dies, Saving, PowerLoss, PowerGone
  <1>5. CASE UNCHANGED vars
    BY <1>5 DEF vars
  <1> QED BY <1>1, <1>2, <1>3, <1>4, <1>5 DEF Next

\* A book moves only with the state that names it.
LEMMA PlaceInvStep ==
  ASSUME ~SavesFail, Typed, SavedInv, PlaceInv, [Next]_vars
  PROVE  PlaceInv'
  <1> USE DEF Typed, TypeOK, TaskInv, State, Path, Default, Store, Early, SavedInv, PlaceInv, Noted, There,
      Leaving, disk, boot, reading, observer
  <1>1. CASE Booting
    BY <1>1 DEF Booting, PowerOn, WakeUp, SleepAgain, CrashReport, Land, Routed, RestartIntoBook, OpenByItself,
       goToReader, RestartHome, ButtonHeld, PlainBoot, Resumable, Resume
  <1>2. CASE Reader
    <2>1. CASE Missing
      BY <2>1 DEF Missing, Ends, There
    <2>2. CASE Opens
      BY <2>2 DEF Opens, There
    <2>3. CASE Refused
      BY <2>3 DEF Refused
    <2>4. CASE LoadFails
      BY <2>4 DEF LoadFails, Ends
    <2>5. CASE Loads
      BY <2>5 DEF Loads
    <2>6. CASE beginLoanTimeSync
      BY <2>6 DEF beginLoanTimeSync, RestartToBook
    <2>7. CASE PageShown
      BY <2>7 DEF PageShown, Reading
    <2>8. CASE rememberBookOnceRendered
      BY <2>8 DEF rememberBookOnceRendered, Reading
    <2>9. CASE TurnPage
      BY <2>9 DEF TurnPage, Reading
    <2>10. CASE RadioRestart
      BY <2>10 DEF RadioRestart, Reading, RestartToBook
    <2>11. CASE \E to \in {"home", "sync", "packs"} : Leave(to)
      BY <2>11 DEF Leave, Reading
    <2>12. CASE Exit
      BY <2>12 DEF Exit, GoOn
    <2>13. CASE MoveFails
      BY <2>13 DEF MoveFails, GoOn
    <2>14. CASE Move
      BY <2>14 DEF Move
    <2>15. CASE Moved
      <3>1. remembered /\ screen = "reader" => Store([app EXCEPT !.open = <<book[1], card[book[1]]>>])
        BY <2>15 DEF Moved
      <3>2. remembered /\ screen = "reader" => Noted'
        <4>1. card[book[1]] # "gone" /\ UNCHANGED <<card, book>>
          BY <2>15 DEF Moved
        <4> QED BY <3>1, <4>1
      <3> QED BY <2>15, <3>2 DEF Moved, GoOn
    <2> QED BY <1>2, <2>1, <2>2, <2>3, <2>4, <2>5, <2>6, <2>7, <2>8, <2>9, <2>10, <2>11, <2>12, <2>13, <2>14, <2>15 DEF Reader
  <1>3. CASE User
    BY <1>3 DEF User, OpenBook, goToReader, RenameBook, ChangeBook, BackToBook, NetworkRestart, RestartToBook,
       HomeRestart, enterDeepSleep, startDeepSleep
  <1>4. CASE Reset
    BY <1>4 DEF Reset, Panics, Dies, Saving, PowerLoss, PowerGone
  <1>5. CASE UNCHANGED vars
    BY <1>5 DEF vars
  <1> QED BY <1>1, <1>2, <1>3, <1>4, <1>5 DEF Next

\* goToSleep()'s pass takes the reader down.
LEMMA SleepInvStep ==
  ASSUME ~SavesFail, SleepPassRuns, Typed, SleepInv, [Next]_vars
  PROVE  SleepInv'
  <1> USE DEF Typed, TypeOK, TaskInv, State, Path, Default, Store, Early, SleepInv, Leaving, disk, boot,
      reading, observer
  <1>1. CASE Booting
    BY <1>1 DEF Booting, PowerOn, WakeUp, SleepAgain, CrashReport, Land, Routed, RestartIntoBook, OpenByItself,
       goToReader, RestartHome, ButtonHeld, PlainBoot, Resumable, Resume
  <1>2. CASE Reader
    BY <1>2 DEF Reader, Missing, Ends, There, Opens, Refused, LoadFails, Loads, beginLoanTimeSync,
       RestartToBook, PageShown, Reading, rememberBookOnceRendered, TurnPage, RadioRestart, Leave, Exit, GoOn,
       MoveFails, Move, Moved
  <1>3. CASE User
    BY <1>3 DEF User, OpenBook, goToReader, RenameBook, ChangeBook, BackToBook, NetworkRestart, RestartToBook,
       HomeRestart, enterDeepSleep, startDeepSleep
  <1>4. CASE Reset
    BY <1>4 DEF Reset, Panics, Dies, Saving, PowerLoss, PowerGone
  <1>5. CASE UNCHANGED vars
    BY <1>5 DEF vars
  <1> QED BY <1>1, <1>2, <1>3, <1>4, <1>5 DEF Next

\* From a sleep or a restart in a book to the reader that has it.
LEMMA PromiseInvStep ==
  ASSUME ~SavesFail, Typed, SavedInv, PlaceInv, SleepInv, PromiseInv, [Next]_vars
  PROVE  PromiseInv'
  <1> USE DEF Typed, TypeOK, TaskInv, State, Path, Default, Store, Early, SavedInv, PlaceInv, SleepInv,
      PromiseInv, Noted, There, Leaving, disk, boot, reading, observer
  <1>1. CASE Booting
    <2>1. CASE PowerOn
      BY <2>1, NullAssumption DEF PowerOn
    <2>2. CASE WakeUp
      BY <2>2, NullAssumption DEF WakeUp
    <2>3. CASE SleepAgain
      BY <2>3, NullAssumption DEF SleepAgain
    <2>4. CASE CrashReport
      BY <2>4, NullAssumption DEF CrashReport, Land, Routed
    <2>5. CASE RestartIntoBook
      BY <2>5, NullAssumption DEF RestartIntoBook, OpenByItself, goToReader, Routed
    <2>6. CASE RestartHome
      BY <2>6, NullAssumption DEF RestartHome, Land, Routed
    <2>7. CASE ButtonHeld
      BY <2>7, NullAssumption DEF ButtonHeld, Land, Routed
    <2>8. CASE PlainBoot
      BY <2>8, NullAssumption DEF PlainBoot, Land, Routed, Resumable
    <2>9. CASE Resume
      BY <2>9, NullAssumption DEF Resume, OpenByItself, goToReader, Routed, Resumable
    <2> QED BY <1>1, <2>1, <2>2, <2>3, <2>4, <2>5, <2>6, <2>7, <2>8, <2>9 DEF Booting
  <1>2. CASE Reader
    <2>1. CASE Missing
      BY <2>1 DEF Missing, Ends, There
    <2>2. CASE Opens
      BY <2>2 DEF Opens, There
    <2>3. CASE Refused
      BY <2>3 DEF Refused
    <2>4. CASE LoadFails
      BY <2>4 DEF LoadFails, Ends
    <2>5. CASE Loads
      BY <2>5 DEF Loads
    <2>6. CASE beginLoanTimeSync
      BY <2>6 DEF beginLoanTimeSync, RestartToBook
    <2>7. CASE PageShown
      BY <2>7 DEF PageShown, Reading
    <2>8. CASE rememberBookOnceRendered
      BY <2>8 DEF rememberBookOnceRendered, Reading
    <2>9. CASE TurnPage
      BY <2>9 DEF TurnPage, Reading
    <2>10. CASE RadioRestart
      BY <2>10 DEF RadioRestart, Reading, RestartToBook
    <2>11. CASE \E to \in {"home", "sync", "packs"} : Leave(to)
      BY <2>11 DEF Leave, Reading
    <2>12. CASE Exit
      BY <2>12 DEF Exit, GoOn
    <2>13. CASE MoveFails
      BY <2>13 DEF MoveFails, GoOn
    <2>14. CASE Move
      BY <2>14 DEF Move
    <2>15. CASE Moved
      BY <2>15 DEF Moved, GoOn
    <2> QED BY <1>2, <2>1, <2>2, <2>3, <2>4, <2>5, <2>6, <2>7, <2>8, <2>9, <2>10, <2>11, <2>12, <2>13, <2>14, <2>15 DEF Reader
  <1>3. CASE User
    BY <1>3 DEF User, OpenBook, goToReader, RenameBook, ChangeBook, BackToBook, NetworkRestart, RestartToBook,
       HomeRestart, enterDeepSleep, startDeepSleep
  <1>4. CASE Reset
    BY <1>4 DEF Reset, Panics, Dies, Saving, PowerLoss, PowerGone
  <1>5. CASE UNCHANGED vars
    BY <1>5 DEF vars
  <1> QED BY <1>1, <1>2, <1>3, <1>4, <1>5 DEF Next

-----------------------------------------------------------------------------
(* The theorems.                                                           *)

\* The first boot finds no state.
LEMMA InitTyped ==
  ASSUME Init
  PROVE  Typed /\ SavedInv /\ LoopInv /\ PlaceInv /\ SleepInv /\ PromiseInv
  <1> USE DEF Init
  <1>1. Default \in State
    BY DEF Default, State
  <1>2. TypeOK
    BY <1>1 DEF TypeOK
  <1>3. TaskInv /\ SavedInv
    BY DEF TaskInv, SavedInv, Early
  <1>4. LoopInv
    BY DEF LoopInv, Leaving
  <1>5. PlaceInv /\ SleepInv /\ PromiseInv
    BY DEF PlaceInv, SleepInv, PromiseInv, Leaving
  <1> QED BY <1>2, <1>3, <1>4, <1>5 DEF Typed

\* The card, the screens, the paths and the counts keep their types, whatever is lost.
THEOREM TypeCorrect == Spec => []TypeOK
  <1>1. Init => Typed
    BY InitTyped
  <1>2. Typed /\ [Next]_vars => Typed'
    BY TypeStep, TaskInvStep DEF Typed
  <1> QED BY <1>1, <1>2, PTL DEF Spec, Typed

LEMMA LoopInductive ==
  ASSUME ~SavesFail
  PROVE  Spec => [](Typed /\ SavedInv /\ LoopInv)
  <1>1. Init => Typed /\ SavedInv /\ LoopInv
    BY InitTyped
  <1>2. Typed /\ SavedInv /\ LoopInv /\ [Next]_vars => (Typed /\ SavedInv /\ LoopInv)'
    BY TypeStep, TaskInvStep, SavedInvStep, LoopInvStep DEF Typed
  <1> QED BY <1>1, <1>2, PTL DEF Spec

\* "Clear app state to avoid getting into a boot loop" (main.cpp): if the card takes the state, two openings in a
\* row may end in a reset, one by a restart and one by a boot, and no third is made.
THEOREM NoBootLoop == ASSUME ~SavesFail PROVE Spec => []BootLoopEnds
  <1>1. Typed /\ SavedInv /\ LoopInv => BootLoopEnds
    BY DEF LoopInv, BootLoopEnds
  <1> QED BY <1>1, LoopInductive, PTL

\* Sleeping in a book, or restarting in it: the next boot opens it, where it stands on the card then, if the card
\* takes the state and goToSleep()'s pass takes the reader down.
THEOREM ComesBack == ASSUME ~SavesFail, SleepPassRuns PROVE Spec => []BookComesBack
  <1> DEFINE IInv == Typed /\ SavedInv /\ PlaceInv /\ SleepInv /\ PromiseInv
  <1>1. Init => IInv
    BY InitTyped
  <1>2. IInv /\ [Next]_vars => IInv'
    <2> SUFFICES ASSUME IInv, [Next]_vars PROVE IInv'
      OBVIOUS
    <2>1. Typed' /\ SavedInv'
      BY TypeStep, TaskInvStep, SavedInvStep DEF Typed
    <2>2. PlaceInv' /\ SleepInv' /\ PromiseInv'
      BY PlaceInvStep, SleepInvStep, PromiseInvStep
    <2> QED BY <2>1, <2>2
  <1>3. IInv => BookComesBack
    BY DEF PromiseInv, BookComesBack, Early
  <1> QED BY <1>1, <1>2, <1>3, PTL DEF Spec
=============================================================================
