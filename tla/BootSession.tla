------------------------------ MODULE BootSession ------------------------------
(***************************************************************************)
(* What a boot opens, and who decides it: APP_STATE (CrossPointState) on   *)
(* the card and in memory, the target of a silent restart in RTC memory,   *)
(* the reader that notes and clears its book, and the way into deep sleep. *)
(* Everything here runs on the main task, but the power can go, or the     *)
(* chip reset, between any two steps.                                      *)
(***************************************************************************)
EXTENDS Naturals

CONSTANTS Books,
          None,           \* no book
          Unreadable,     \* a state file that is missing, or was cut short
          SavesFail,      \* a card that may refuse to be written
          SleepPassRuns   \* the one pass of goToSleep() gets to the screen change

Path == Books \X {"shelf", "read"}
State == [open : Path \cup {None}, count : Nat, slept : BOOLEAN]

ASSUME NullAssumption == None \notin Books /\ None \notin Path /\ Unreadable \notin State
ASSUME CardAssumption == SavesFail \in BOOLEAN /\ SleepPassRuns \in BOOLEAN

VARIABLES file,        \* state.json
          app,         \* APP_STATE
          rtc,         \* where a silent restart is to land, kept over a reset
          target,      \* what this boot read there
          panic,       \* this boot follows a panic
          card,        \* where each book is
          screen, pc,  \* what is in front, where the main task is
          next,        \* what the screen in front gives way to
          book,        \* the path in the reader
          page,        \* it has drawn a page
          remembered,  \* and the state names it
          finished,    \* it is to move to the read folder
          promise,     \* observer: the book the next boot owes the user
          auto,        \* observer: the reader was opened by a boot, not by hand
          failures     \* observer: such openings in a row that ended in a reset

disk == <<file, app>>
boot == <<rtc, target, panic>>
reading == <<book, page, remembered, finished>>
observer == <<promise, auto, failures>>
vars == <<file, app, rtc, target, panic, card, screen, pc, next, book, page, remembered, finished,
          promise, auto, failures>>

Default == [open |-> None, count |-> 0, slept |-> FALSE]

There(p) == card[p[1]] = p[2]

Init ==
  /\ file = Unreadable /\ app = Default /\ rtc = "none" /\ target = "none" /\ panic = FALSE
  /\ card \in [Books -> {"shelf", "read", "gone"}]
  /\ screen = "off" /\ pc = "off" /\ next = "home"
  /\ book = None /\ page = FALSE /\ remembered = FALSE /\ finished = FALSE
  /\ promise = None /\ auto = FALSE /\ failures = 0

\* APP_STATE.saveToFile(), whose result nobody looks at here.
Store(state) == app' = state /\ (file' = state \/ (SavesFail /\ file' = file))

-----------------------------------------------------------------------------
(* setup(): the state is read, the restart's target read and cleared. A wake *)
(* from sleep saves the state once more, to arm the splash again.            *)

PowerOn ==
  /\ pc = "off" /\ pc' = "wake"
  /\ app' = IF file = Unreadable THEN Default ELSE file
  /\ target' = rtc /\ rtc' = "none"
  /\ UNCHANGED <<file, panic, card, screen, next, reading, observer>>

WakeUp ==
  /\ pc = "wake" /\ pc' = "route"
  /\ UNCHANGED app /\ (Store(app) \/ UNCHANGED file)
  /\ UNCHANGED <<boot, card, screen, next, reading, observer>>

\* A button let go of too early, or a charger plugged in: back to sleep.
SleepAgain ==
  /\ pc = "wake" /\ target = "none" /\ ~panic /\ pc' = "off"
  /\ UNCHANGED <<disk, boot, card, screen, next, reading, observer>>

\* The routing, in its order. A crash report and Home are the same from here.
Routed == target' = "none" /\ panic' = FALSE /\ UNCHANGED <<rtc, card, next>>
Land == screen' = "home" /\ pc' = "idle" /\ Routed /\ UNCHANGED <<disk, reading>>
goToReader(path) == /\ screen' = "reader" /\ pc' = "enter" /\ book' = path
                    /\ page' = FALSE /\ remembered' = FALSE /\ finished' = FALSE
OpenByItself(path) == goToReader(path) /\ auto' = TRUE /\ Routed /\ UNCHANGED <<promise, failures>>

CrashReport == pc = "route" /\ panic /\ Land /\ UNCHANGED observer

RestartIntoBook ==
  /\ pc = "route" /\ ~panic /\ target = "reader" /\ app.open # None
  /\ OpenByItself(app.open) /\ UNCHANGED disk

RestartHome ==
  /\ pc = "route" /\ ~panic
  /\ target = "home" \/ (target = "reader" /\ app.open = None)
  /\ Land /\ UNCHANGED observer

\* Back, or the button of the recovery mode, is held.
ButtonHeld == pc = "route" /\ ~panic /\ target = "none" /\ Land
              /\ promise' = None /\ UNCHANGED <<auto, failures>>

Resumable == app.open # None /\ app.slept /\ app.count = 0

PlainBoot == pc = "route" /\ ~panic /\ target = "none" /\ ~Resumable /\ Land /\ UNCHANGED observer

\* As Resume, with the opening not counted.
ResumeUncounted ==
  /\ pc = "route" /\ ~panic /\ target = "none" /\ Resumable
  /\ Store([app EXCEPT !.open = None])
  /\ OpenByItself(app.open)

\* The book is forgotten and its opening counted before it is opened.
Resume ==
  /\ pc = "route" /\ ~panic /\ target = "none" /\ Resumable
  /\ Store([open |-> None, count |-> app.count + 1, slept |-> app.slept])
  /\ OpenByItself(app.open)

-----------------------------------------------------------------------------
(* The reader.                                                               *)

OpenBook(b) ==
  /\ pc = "idle" /\ screen = "home" /\ card[b] # "gone"
  /\ goToReader(<<b, card[b]>>) /\ auto' = FALSE /\ failures' = 0
  /\ UNCHANGED <<disk, boot, card, next, promise>>

\* onEnter(): without its file the reader finishes, the state as it was.
Ends == pc' = "exit" /\ next' = "home" /\ finished' = FALSE /\ auto' = FALSE

Missing ==
  /\ pc = "enter" /\ ~There(book) /\ Ends
  /\ UNCHANGED <<disk, boot, card, screen, book, page, remembered, promise, failures>>

Opens ==
  /\ pc = "enter" /\ There(book) /\ pc' = "load"
  /\ IF app.open = None THEN UNCHANGED disk ELSE Store([app EXCEPT !.open = None])
  /\ promise' = IF promise = book[1] THEN None ELSE promise
  /\ UNCHANGED <<boot, card, screen, next, reading, auto, failures>>

\* A protected book is refused with a message, and ends when it is dismissed.
Refused == pc = "load" /\ pc' = "refused"
           /\ UNCHANGED <<disk, boot, card, screen, next, reading, observer>>

LoadFails ==
  /\ pc \in {"load", "refused"} /\ Ends
  /\ UNCHANGED <<disk, boot, card, screen, book, page, remembered, promise, failures>>

Loads == pc = "load" /\ pc' = "idle"
         /\ UNCHANGED <<disk, boot, card, screen, next, reading, observer>>

\* A restart that is to come back to the book, if the state names it.
RestartToBook(named) ==
  /\ rtc' = "reader" /\ pc' = "off" /\ screen' = "off" /\ auto' = FALSE
  /\ promise' = IF named THEN book[1] ELSE None

\* A loan that could not be verified: the clock is set, and the book opened anew.
beginLoanTimeSync ==
  /\ pc = "refused" /\ Store([app EXCEPT !.open = book]) /\ RestartToBook(TRUE) /\ failures' = 0
  /\ UNCHANGED <<target, panic, card, next, reading>>

Reading == pc = "idle" /\ screen = "reader"

PageShown ==
  /\ Reading /\ ~page /\ page' = TRUE
  /\ UNCHANGED <<disk, boot, card, screen, pc, next, book, remembered, finished, observer>>

rememberBookOnceRendered ==
  /\ Reading /\ page /\ ~remembered /\ remembered' = TRUE
  /\ Store([app EXCEPT !.open = book])
  /\ UNCHANGED <<boot, card, screen, pc, next, book, page, finished, observer>>

\* At the end of a book that is not in the read folder yet, and away from it.
TurnPage ==
  /\ Reading /\ page
  /\ finished' \in IF book[2] = "shelf" THEN BOOLEAN ELSE {FALSE}
  /\ UNCHANGED <<disk, boot, card, screen, pc, next, book, page, remembered, observer>>

\* The radio's heap restart, from any shown page.
RadioRestart ==
  /\ Reading /\ page /\ RestartToBook(remembered) /\ UNCHANGED failures
  /\ UNCHANGED <<disk, target, panic, card, next, reading>>

\* By hand, to Home, or to the sync or the word packs, which come back. They let go of the book, and of its
\* move, before they go, except a sync without an account.
Leave(to) ==
  /\ Reading /\ pc' = "exit" /\ next' = to
  /\ \/ to # "packs" /\ UNCHANGED finished
     \/ to # "home" /\ finished' = FALSE
  /\ auto' = FALSE /\ failures' = 0
  /\ UNCHANGED <<disk, boot, card, screen, book, page, remembered, promise>>

GoOn == /\ pc' = IF next = "sleep" THEN "down" ELSE "idle"
        /\ screen' = IF next = "sleep" THEN screen ELSE next

\* As Exit, with the openings still counted.
ExitKeepingCount ==
  /\ pc = "exit" /\ Store(app)
  /\ IF finished THEN pc' = "move" /\ UNCHANGED screen ELSE GoOn
  /\ UNCHANGED <<boot, card, next, reading, observer>>

\* onExit(), then the destructor, which moves a finished book.
Exit ==
  /\ pc = "exit" /\ Store([app EXCEPT !.count = 0])
  /\ IF finished THEN pc' = "move" /\ UNCHANGED screen ELSE GoOn
  /\ UNCHANGED <<boot, card, next, reading, observer>>

MoveFails == pc = "move" /\ GoOn /\ UNCHANGED <<disk, boot, card, next, reading, observer>>

Move ==
  /\ pc = "move" /\ pc' = "moved" /\ card' = [card EXCEPT ![book[1]] = "read"]
  /\ UNCHANGED <<disk, boot, screen, next, reading, observer>>

Moved ==
  /\ pc = "moved" /\ GoOn
  /\ IF app.open = book THEN Store([app EXCEPT !.open = <<book[1], card[book[1]]>>]) ELSE UNCHANGED disk
  /\ UNCHANGED <<boot, card, next, reading, observer>>

-----------------------------------------------------------------------------
(* Elsewhere.                                                                *)

BackToBook ==
  /\ pc = "idle" /\ screen = "packs" /\ goToReader(book)
  /\ UNCHANGED <<disk, boot, card, next, observer>>

\* Leaving the sync, or the packs with the Wi-Fi on.
NetworkRestart ==
  /\ pc = "idle" /\ screen \in {"sync", "packs"} /\ RestartToBook(remembered) /\ UNCHANGED failures
  /\ UNCHANGED <<disk, target, panic, card, next, reading>>

HomeRestart ==
  /\ pc = "idle" /\ screen = "home" /\ rtc' = "home" /\ pc' = "off" /\ screen' = "off"
  /\ UNCHANGED <<disk, target, panic, card, next, reading, observer>>

\* The file browser renames a book, and the state's path with it.
RenameBook(b) ==
  /\ pc = "idle" /\ screen = "home" /\ card[b] # "gone"
  /\ card' = [card EXCEPT ![b] = IF @ = "shelf" THEN "read" ELSE "shelf"]
  /\ book' = <<b, card[b]>> /\ pc' = "moved" /\ next' = "home"
  /\ UNCHANGED <<disk, boot, screen, page, remembered, finished, observer>>

\* Books come and go, in the file browser or on a computer.
ChangeBook(b) ==
  /\ pc = "off" \/ (pc = "idle" /\ screen = "home")
  /\ card' \in {[card EXCEPT ![b] = place] : place \in {"shelf", "read", "gone"}}
  /\ promise' = IF promise = b THEN None ELSE promise
  /\ UNCHANGED <<disk, boot, screen, pc, next, reading, auto, failures>>

\* enterDeepSleep(): saved once, then goToSleep() takes the screen in front away.
enterDeepSleep ==
  /\ pc \in {"idle", "refused"}
  /\ Store([app EXCEPT !.slept = (screen = "reader")])
  /\ \/ screen = "reader" /\ pc' = "exit"
     \/ (screen # "reader" \/ ~SleepPassRuns) /\ pc' = "down"
  /\ next' = "sleep" /\ auto' = FALSE /\ failures' = IF screen = "reader" THEN 0 ELSE failures
  /\ UNCHANGED <<boot, card, screen, reading, promise>>

startDeepSleep ==
  /\ pc = "down" /\ pc' = "off" /\ screen' = "off"
  /\ promise' = IF screen = "reader" /\ remembered THEN book[1] ELSE None
  /\ UNCHANGED <<disk, boot, card, next, reading, auto, failures>>

-----------------------------------------------------------------------------
(* A reset: a panic, or the power. A save that is cut short may leave the    *)
(* state unreadable.                                                         *)

Saving == pc \in {"wake", "route", "enter", "refused", "idle", "exit", "moved"}

Dies ==
  /\ pc # "off" /\ pc' = "off" /\ screen' = "off" /\ target' = "none"
  /\ file' \in IF Saving THEN {file, Unreadable} ELSE {file}
  /\ failures' = IF auto THEN failures + 1 ELSE failures
  /\ auto' = FALSE /\ promise' = None
  /\ UNCHANGED <<app, card, next, reading>>

Panics == Dies /\ panic' = TRUE /\ UNCHANGED rtc

PowerLoss == Dies /\ rtc' = "none" /\ panic' = FALSE

\* The battery runs out in deep sleep, or just as the chip restarts.
PowerGone ==
  /\ pc = "off" /\ rtc' = "none" /\ target' = "none" /\ panic' = FALSE
  /\ promise' = IF rtc = "reader" THEN None ELSE promise
  /\ UNCHANGED <<disk, card, screen, pc, next, reading, auto, failures>>

Booting == PowerOn \/ WakeUp \/ SleepAgain \/ CrashReport \/ RestartIntoBook \/ RestartHome
           \/ ButtonHeld \/ PlainBoot \/ Resume
Reader == \/ Missing \/ Opens \/ Refused \/ LoadFails \/ Loads \/ beginLoanTimeSync
          \/ PageShown \/ rememberBookOnceRendered \/ TurnPage \/ RadioRestart
          \/ (\E to \in {"home", "sync", "packs"} : Leave(to)) \/ Exit \/ MoveFails \/ Move \/ Moved
User == \/ (\E b \in Books : OpenBook(b) \/ RenameBook(b) \/ ChangeBook(b))
        \/ BackToBook \/ NetworkRestart \/ HomeRestart \/ enterDeepSleep \/ startDeepSleep
Reset == Panics \/ PowerLoss \/ PowerGone

Next == Booting \/ Reader \/ User \/ Reset

Spec == Init /\ [][Next]_vars

-----------------------------------------------------------------------------
TypeOK ==
  /\ file \in State \cup {Unreadable} /\ app \in State
  /\ rtc \in {"none", "home", "reader"} /\ target \in {"none", "home", "reader"} /\ panic \in BOOLEAN
  /\ card \in [Books -> {"shelf", "read", "gone"}]
  /\ screen \in {"off", "home", "reader", "sync", "packs"}
  /\ pc \in {"off", "wake", "route", "enter", "load", "refused", "idle", "exit", "move", "moved", "down"}
  /\ next \in {"home", "sync", "packs", "sleep"} /\ book \in Path \cup {None}
  /\ page \in BOOLEAN /\ remembered \in BOOLEAN /\ finished \in BOOLEAN
  /\ promise \in Books \cup {None} /\ auto \in BOOLEAN /\ failures \in Nat

\* "Clear app state to avoid getting into a boot loop if the epub doesn't load" (main.cpp:865): a book that
\* resets the device is opened by itself at most twice, once by a silent restart and once by a boot, over any
\* crashes and power losses, until the user opens or leaves a book.
BootLoopEnds == failures <= 2

\* enterDeepSleep(), silentRestartToReader(), ReaderActivity: a book the user slept in, or that restarted the
\* device, is what the next boot opens, moved to the read folder or not, unless a button, a lost power or a
\* change of the card prevents it.
BookComesBack == promise # None => pc \in {"off", "wake", "route"} \/ (pc = "enter" /\ book[1] = promise)
=============================================================================
