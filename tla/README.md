# TLA+ models of the CrossLingua reader firmware

These modules model parts of the firmware in this repository (an e-ink book reader on an ESP32, with a
translation feature and a Bluetooth page turner), check them on small instances with TLC and prove
their most important properties with TLAPS. Paths below are relative to the repository root.

| Component | Modules | TLC runs | Proofs |
|---|---|---|---|
| Screens, navigation and rendering | `ActivityManager`, `NavStack`, `MCActivityManager` | `screens`, `screens_live` | `ActivityManagerProofs` (12 theorems) |
| Bluetooth page turner's radio | `RadioPolicy`, `BleRuntime` | `ble`, `ble_live` | `BleRuntimeProofs` (7) |
| Translating a chapter | `ChapterTranslation` | `translation`, `translation_faults` | `ChapterTranslationProofs` (9) |
| Translating a book; batches of text | `TranslationBatches`, `BookTranslation`, `MCBookTranslation` | `book` | `BookTranslationProofs` (12) |
| What a boot opens | `BootSession` | `boot` | `BootSessionProofs` (3) |
| Library index | `Arrivals`, `LibraryShelf`, `LibraryIndex`, `MCLibraryIndex` | `library` | `LibraryIndexProofs` (4) |
| Clippings and their synchronisation | `ClippingStore`, `ClippingSync`, `MCClippingSync` | `clippings` | `ClippingSyncProofs` (5) |
| Plugin event outboxes and downloads | `EventQueue`, `PluginEvents`, `MCPluginEvents` | `outbox`, `outbox_old_or_fresh` | `PluginEventsProofs` (6) |

To repeat a run: `tlc -config X.cfg M.tla` with the configuration and module `PROJECT.json` gives for it; to
check the proofs: `tlapm M.tla` for each of the eight modules whose name ends in `Proofs`. Each module's
mutants (definitions named like the one they replace, with a suffix, directly above it) are the
plausible bugs each property was seen to catch.

## 1. The system

One chip, no operating system but FreeRTOS, about 380 KB of RAM with a 48 KB framebuffer, no C++
exceptions (an allocation that fails aborts), an SD card with FAT, a slow e-ink panel, buttons, and the
power can go at any time. Everything happens in these tasks:

* the **main task** (Arduino `loop()`, `src/main.cpp`): input, the page turner's `tick()`,
  `ActivityManager::loop()`, sleep;
* the **render task** (`ActivityManager::renderTaskLoop`): draws the foreground activity under the
  render lock, and inside it lays out chapters;
* **workers** an activity starts: chapter and book translation, the shelf's covers, the page turner's start task;
* the Bluetooth, Wi-Fi and USB stacks of the SDK, whose source is not in the repository.

They meet at a handful of flags, one render mutex, one recursive storage mutex inside `lib/hal`,
task notifications and the SD card.

### Components

Each is listed with its state, operations, partners, what is hard about it and what makes it correct.
*(M)* is modelled, *(P)* partly, *(N)* not modelled.

**Screens, navigation and rendering (M)** `src/activities/ActivityManager.*`, `Activity.*`, `RenderLock.h`.
State: current activity, stack, pending action and activity, result handlers, deferred update, waiter
handle, painted and current visit. Operations: replace, push, pop, start for result, finish, request an
update (deferred, now, and wait), sleep, `loop()`, the render loop. Partners: every screen (callbacks),
main.cpp, the radio (asked before each screen change). Hard: the two tasks interleave; callbacks
navigate and wait; passes end early. Correct: nothing destroyed is drawn; nothing leaks; waits return
and show what was asked for; screens are a stack.

**Bluetooth page turner (P)** `lib/BlePageTurner`, and its host in `main.cpp` and the reader. State: atomics
for a start in flight, its cancellation, a build waiting, a deferred start, an idle stop, a re-arm, a
hold; one visit's attempts; the heap tracker with its RTC memo; the stack itself. Operations:
`tick()`, `startAsync`, `startSync`, `suspend`, `settleStart`, `beforeChapterBuild`, `afterPaint`,
`beforeScreenChange`, `stopNow`, `beforeSleep`, `switchOff`, `status`. Hard: main, render and start
task read and write the flags without a lock; starts and stops take seconds; stack, page and parser
do not fit the heap together. Correct: they never take it together, nobody waits for ever, the
device restarts for its heap at most once.

**Translating a chapter (M)** `src/modules/lingua/activities/ChapterTranslationActivity.*`,
`services/LinguaSectionSupport.cpp`. State: screen state, shared flags, the worker, the framebuffer
(freed to make room for TLS), the files `.tmp_translate`, `.translated.html.part`,
`.translated.html`, `.pairs`, the page cache. Operations: pick languages, connect, start, batch
boundaries, cancel, finish, leave, commit. Hard: the worker and the main task wait for each other; the
render task draws meanwhile; power loss between file operations; leaving at any time. Correct: see section 4.

**Boot, main loop, sleep (P)** `main.cpp`, `CrossPointState.*`, `SilentRestart.h`, `ReaderActivity.cpp`. State:
`APP_STATE` on the card and in memory (open book, load count, whether the last sleep was from the
reader), RTC resume kind, the reader's book. Operations: boot and route, open, remember once drawn, leave, sleep,
silent restart, move to the read folder. Hard: the guard against a book that crashes at
opening is one counter and one path cleared before and restored after; sleep, silent restart and crash
arrive in between. Correct: a book that crashes is not opened again and again by itself; one that does not is resumed.

**Plugin events (M)** `src/util/PluginEvents.cpp`. State: one outbox file per plugin,
downloaded files and their backups, the library's mark. Operations: emit (append, cut off a torn line, drop all
over a cap), drain (deliver in order, stop at a failure, rewrite the rest), download and commit. Hard: power loss,
partial appends, replay. Correct: at least once below the cap, never out of order, a downloaded book is listed.

**Clippings (P)** `src/ClippingStore.cpp`, `src/clippings/ClippingSync.cpp`. State: a file per book with `.tmp`,
`.bak` and a deletion journal; ids and pending flags; the server. Operations: load, add, remove, write,
unload; probe, prepare, send deletions and uploads, pull pages. Hard: replacement by two renames under power
loss, recovery by the next call, lost answers, other devices. Correct: a saved clipping is never lost, a deleted
one does not come back, none is on the server twice, a finished sync agrees with it.

**Library index (M)** `lib/LibraryIndex`. State: index, backup, new file, dirty mark in memory and on the card.
Operations: mark, build (recover, walk, reconcile, emit, install), clear the mark. Hard: a complete index has
to survive every power loss and every failing rename, over formats of several firmwares. Correct: an install is
one step to any reader, arrival numbers stay distinct, the mark goes only when the index lists the card.

**Book translation (M)** `BookTranslationActivity.*`. State: as for a chapter, with the current chapter and the count
of finished ones. Operations: as for a chapter, with a boundary before each chapter and after each batch.
Hard: the framebuffer changes hands at each boundary, between requests that need its memory. Correct: finished
chapters stay, the result tells what is on the card, the run ends.

**Translation batches (P)** `TranslationHtmlRewriter.cpp`, `ParagraphTranslator.cpp`, `TranslatorHttp.cpp`. State: the batch,
the pieces of the reply, counts of failures in a row, limits and waits for memory. Operations: read a
block, flush, wait for memory, request (whole batch or per paragraph), retry, write out, give up. Hard: translations are
picked up by position from replies that may be short or too long. Correct: no block gets another's
translation, nothing untranslated passes for a translation.

**Epub reader screen (P)** `src/activities/reader`. What it does with the radio and the render lock is in
`BleRuntime`; re-opening a chapter after translation in `ChapterTranslation`; opening, remembering and finishing a
book in `BootSession`. Page turns, progress (`ProgressFile.h`: remove, then rename), bookmarks and statistics are not.

**Chapter page cache (P)** `lib/Epub/Epub/Section.cpp`. State: a `.bin` per chapter whose version byte
says incomplete, partial or complete, and its key. Modelled: the key's translation part and the deletion.

**Lingua reader integration (P)**: launching, the pair memo, deleting translations.
**USB drive and Wi-Fi screens (P)**: USB drive is the manager's exclusive kind.
**Remaining screens (N)**: to the manager they are kinds of activity that make any sequence of its
calls. **Shelf's cover worker (N)** `BookShelfActivity.cpp`, **remote button learning and routing (N)**,
**layout, modes, word lens (N)**, **web server, WebDAV, downloads (N)**, **firmware update (N)**,
**trusted time (N)**, **KOReader sync (N)**, **persistent stores (N)**, **hardware abstraction (N)**,
**drawing, fonts, images, documents (N)**: section 8.

### Interactions

```
 buttons -> main.cpp loop -> pageturner tick() -------------> start task -> SDK host
                |                ^   |  settle/hold/status                    |
                v                |   v                                         v
        ActivityManager::loop -- beforeScreenChange()                     shared heap
                |  callbacks     ^                                             ^
                v                | beforeChapterBuild, afterPaint              |
             activities --- RenderLock --- render task -> page, chapter parser +
                |
                +-- translation worker (batch boundaries, framebuffer) -> SD card files
```

The storage protocols meet the rest at a few calls: a plugin's download marks the library index, leaving the
reader may move its book and with it the clippings, a sync runs when the reader is closed, and every one
of them is cut short by the same power losses and restarts.

## 2. Plan

Order: what every screen depends on first, then what can hurt the heap and the user's files.

1. `ActivityManager` with `NavStack` as its abstract specification, liveness, and proofs. *Done.*
2. `ChapterTranslation`: handshake, worker's life, files under power loss, and proofs. *Done.*
3. `RadioPolicy`, `BleRuntime`: start, stop and hold, and proofs. *Done.*
4. `LibraryIndex`, refining `LibraryShelf`, an index that is replaced in one step; `ClippingStore`, composed with
   `ClippingSync`. *Done.* A single abstract "safe replacement" for both was tried and dropped: the clippings' promise
   is about what the user was told, not about files.
5. `PluginEvents`: outboxes and downloads under power loss, refining `EventQueue`, the queues the documentation promises. *Done.*
6. `BootSession`: `APP_STATE`, load count, sleep and resume. *Done.*
7. `TranslationBatches`, and `BookTranslation` composed of it and the worker over the chapters. *Done.*
8. Left: section builds cut short, the shelf's worker, moving and deleting a book with its clippings, the otadata
   slots. Each is small beside what is here; section 8 says what speaks for and against.

`ActivityManager` and `BleRuntime` meet at `beforeScreenChange()` and the render lock. They are not
composed in one state space (a product of a million-state by a million-state machine); instead each
carries the other's side of that interface: `ScreenMayChange`/`RadioBusy` is any answer of the radio,
and `AskScreen`/`ChangeScreen` is the manager's pending action. The same holds for
`ChapterTranslation`, which carries the manager's pushes, pops and render loop as far as they touch it, and for
`BookTranslation`, which leaves those to `ChapterTranslation` and carries the rewriter's steps instead.

## 3. Modules and the code

### `ActivityManager` (with `NavStack`, `MCActivityManager`)

A step is what one task does between two points where the other can tell. Variables have the names of
the members; `mpc`/`rpc` say where the two tasks are, `live` which objects exist, `shown`,
`panelFresh`, `frameFresh` and `owed` are the observer's (what the panel shows, whether it is current,
whether a requested render has begun). Entry points of `loop()` are `SuppressedRelease`, `ExclusiveLoop`,
`HomeGesture`, `LightPanelGesture`, `ActivityLoop`; a callback is any sequence of `startActivityForResult`,
`finish`, `CallbackReplaces`, `CallbackRequest(Now)`, `WaitRegister`, `TakeRenderLock`,
`ChangeState`, `DropRenderLock`, and ends in one of the `Return...` actions; the while loop over the
pending action is `RadioBusy`/`ScreenMayChange`, `LockForPending`, `PopToParent`, `PopLast`+`goHome`,
`Swap`, `FlushUpdate`; the render task is `RenderTake` ... `RenderUnlocks`.

Assumed of code outside it, each seen in `src/`: a callback asks for one screen change (`navigated`),
since activities return after it; only activities of the kinds `menu` and `usb` wait; `remoteTurn` acts on a
shown page; `menu` stands for every screen started for a result.
`MaxVisits` bounds the screen changes the user asks for. The constants describe the build and the
boot: `RadioBuild` (page turner compiled in), `SplashBoot` (boot splash shown). `ChangeState` needs no
`RenderLock`: several activities change what `render()` reads without one
(`ChapterTranslationActivity.cpp:210`, `BookTranslationActivity.cpp:237`).

### `RadioPolicy`, `BleRuntime`

`RadioPolicy` is `RadioPolicy.h` as pure operators: the four verdicts, the re-arm rule, the heap
tracker. `BleRuntime` has one program counter per task and one per call of `suspend()` (`sus[t]`, a
procedure of two tasks). Atomics are read and written one per step. `tick()` is
`TakeScene`, `StepVisit`, `Look`, `Retry`, `StartDecision`, `Claim`...`Spawn`, `IdleStop`,
`serveReader`, `Restart`; the start task `StartBegins` ... `FinishAttempt`; the render task's
`renderBook()` and `makeRoomForChapterBuild()` are `RenderBook` ... `RoomRefused`. `StopFinishes` and
`Link` are the SDK's host, external, modelled from how `SdkRadio.cpp` uses it: a stop is done at once or some time later.

Left out: the S3 profile's start from Home, pairing and scanning screens, the link note, button
routing, a visit's number (only whether it changed). Inputs of the policy that `main.cpp` never sets
(`bookIndexing`, `fileTransferActive`) are constant, and a remote is always chosen. Times (5 s
between retries, 30 s idle, the 3 s and 2 s waits) are nondeterministic: anything may take longer
than anything, and `stopNow()` may always give up after its two seconds (`stopNow`; the sleep then goes on without
`deliverSleepPluginEvents`). `SlowRadio = FALSE` says only that a start or stop ends within the waits of a paint and a build.

### `ChapterTranslation`

The activity (`state`, `mpc`), its worker (`wpc`), the render task (`rpc`, `lock`), the framebuffer
(`fb`) and the chapter's files, each holding nothing or the output of a run (`[run, text]`): `"partial"` until the
run's rewriter has come to its end, then `"whole"`, or `"damaged"` by an error nobody reports. These are a write that
failed (`TranslationHtmlRewriter.cpp:46-48` ignores the result), a read or parse error (843, 851), an input that does not open
(815) or a parser that is not allocated (824), both of which return the result of a chapter without texts, and a `close()` that cannot flush
(`ChapterTranslationActivity.cpp:381`): outcomes of `rewriteFromFile` and `CloseOutput`. `OpenChapter` is what the reader does with them: sidecar or original, pages from the
cache if the key matches. `PowerLoss` keeps only the files; `RestoreImpossible` is the restart after
the framebuffer cannot be reallocated; `StrayWorker` is a worker running on after its activity was
destroyed, which may do anything to that memory: it ends, or the chip restarts. Constants switch on
the environment's faults: `SlowNetwork`, `UnreadableChapter`, `StorageFaults`, `LowMemory`, and
`LightPanel` (a board whose front light panel can open over the activity). An engine's answer is an
outcome of `rewriteFromFile` (its steps are in `TranslationBatches`); languages and text are not represented. Removing a file
succeeds. Not in the model:
`DELETE_TRANSLATIONS` also keeps the `.pairs` file (seen in `LinguaSubmenuActivity.cpp:322-340` and modelled so),
translations a plugin embeds in the book.

### `TranslationBatches`, `BookTranslation` (with `MCBookTranslation`)

`TranslationBatches` is `TranslationHtmlRewriter` with the loop of its translator: `ReadBlock`, `EndOfInput`, the flush,
the wait for memory, a request for the batch or one per paragraph, its outcomes, writing out and the batch boundary.
A block is its number and the length of its text, so "its own translation" is a number that agrees. An engine is a
record of its policy (how it batches, how much, how often it tries again); its outcomes are success, refusal,
rate limit, and replies of another number of pieces. A chapter that ends because it cannot be read on is `EndOfInput`: the
code does not tell the two apart. `RewriteSpec` is the rewriter under any caller.

`BookTranslation` EXTENDS it. The main task is `mpc`, the worker `wpc`, and the worker's `"rewrite"` is where the
rewriter's own steps happen; a boundary is `boundaryPending`/`boundaryAck`, spun on by the worker and served by
`loop()` or by `onExit()`'s wait. `fb` is the framebuffer, `final[c]` the run a chapter's translation is from.
What it shares with the translation of one chapter is modelled there in more detail and left out
here: unreported errors of the rewriter, which damage a committed chapter of a book as they do a single one, the render task and its lock, the scratch and `.part` files, page sources, the light panel, and a worker that runs on
after its activity. The engine does not change during a run of the model; the restart after
a framebuffer that cannot be had again is `PowerLoss`.

### `BootSession`

`setup()` from reading the state to the first screen (`PowerOn`, `WakeUp`, routing), the reader's life as far as it touches
`APP_STATE` (open, refuse, draw, remember, finish, leave, move), and the ways down: sleep, silent restart, panic,
power loss. `promise`, `auto` and `failures` are observers: the book the next boot owes the user, whether the reader was opened by a
boot, how many such openings in a row ended in a reset. `SavesFail` lets the card refuse the state; `SleepPassRuns`
says that the one pass of `loop()` in `goToSleep()` gets to the screen change. `writeFile` of the SDK is external:
power loss leaves the old file, the new one, or one nobody can read.

Simplified: the restart for the radio can come from any drawn page; a KOReader sync is a screen that leaves by restart.
Worth knowing, and as in the code: before `rememberBookOnceRendered()` (`ReaderActivity.cpp:87`) the state
names no book, so a restart then lands on Home; `openEpubPath` is not cleared on the way to Home, so after a power loss
an old `lastSleepFromReader` can resume a book the user had closed (`main.cpp:854-856` says so); a battery that dies in a resumed
session leads to Home, because the load count stays 1 until `onExit()`.

### `Arrivals`, `LibraryShelf`, `LibraryIndex` (with `MCLibraryIndex`)

`Arrivals` is what reconciling a walk of the card with the previous index comes to: kept rows, rows claimed by a moved book of
the same size, and new numbers. `LibraryIndex` is `buildLibraryIndex()` file operation by file operation (`Recover`,
`RestoreBackup`, `WalkUnchanged`, `WalkAndEmit`, `EmitDone`/`EmitFails`, `ParkLive`/`ParkFails`, `SwapIn`/`SwapFails`, `CleanBackup`,
`clearLibraryIndexDirty`, `GiveUp`), with the mark in memory or on the card, transfers, deletions and edits of the
card, power losses, and other firmwares. `LibraryShelf` is the abstract specification: one shelf, rebuilt in one step. The
refinement maps the shelf to what a recovery run now would leave.
A rebuild deferred because a header could not be read is `GiveUp`. Arrival numbers are `uint16_t` in the code and natural numbers
here: what happens after 65,535 arrivals, where `nextFirstSeen` wraps, is outside. Not in it: titles, sort orders, the caps on records and depth, and a folder
`walk()` cannot open (section 7).

### `ClippingStore`, `ClippingSync` (with `MCClippingSync`)

`ClippingStore` is one book's store: `mem` (the index), `store` and `bak` (the files; `.tmp` is never read), the journal,
`dirty`, and `at`, where `writeToFile()` stands. `fate` is the observer: what the user was told of each clipping.
`ClippingSync` adds `clippingSync::run()` and a server other devices write to: probe, `prepareSync`, deletions, uploads, their
mark of success, and pages. A request may not arrive, its answer may be lost, every rename, removal and write can
fail, and power can go at each of them. Upload order is abstracted. As in the code, a sync opens a book only after the reader has
unloaded it, and what a failed save left is saved once more on unloading.
Left out: `writeToFile()` does not look at the result of `flush()` and `close()` of `.tmp` (`LibraryBuilder` does), so a file cut
short there would be swapped in; here a `.tmp` that is swapped in is whole. Torn journal tails are cut off by the code and do not occur.

### `EventQueue`, `PluginEvents` (with `MCPluginEvents`)

`emit` appends to each subscriber's outbox, after cutting off a torn line or dropping an outbox over its cap; the drain is
`Drain`, `SkipOutbox`, `ClearOutbox`, `ReadOutbox`, then per line `DropLine`, `SendRequest`, `RequestFails` or
`Download` and its commit (`Park`, `SwapIn`, `SwapFails`, `Commit`), and `Rewrite`. Drains and emits are calls of
the same task. The budget of four events per drain is shared by the plugins in the order of the table. `Calm` is the moment from which nothing
fails any more. The retry with a fresh token is a part of the request; a plugin has one download destination; the SDK's `writeFile`
keeps the old file when it fails, and a power loss inside it leaves the old file or the new. For the failure `PluginEvents.cpp:453` says so; for
the power loss it is an assumption (the SDK's source is not here, and `BootSession` makes the weaker one, that the file may be unreadable,
under which an outbox could be lost with the events in it). A line that lacks only its newline, and garbage other than a cut line, do not occur.

`EventQueue` is the abstract specification, from `docs/plugin-events.md:225-235`: a queue of events per plugin, with no lines,
files, drains or failures. Its steps say what may be lost: the event that cannot be kept (`Emit`), all that was kept before it (an outbox over
its cap), the oldest when it has no handler (`PassOver`), everything when no event has one (`GiveUp`); and that an event arrives
only when nothing older is outstanding. The refinement maps a queue to the whole lines of its outbox, so the drain's
position, a replay, a failed rewrite and a power loss are steps nobody sees.

## 4. Runs

State counts are TLC's distinct states; every run finishes in three minutes or less.

| Run | Instance | Shows |
|---|---|---|
| `screens` | 8 activities (1 boot, 2 home, 2 menu, panel, sleep, usb), 5 screen changes, no radio; about 1.6 M states | nothing destroyed is drawn; each activity has exactly one owner; Home counts as shown only when it is; handlers get their own child; a wait ends with its own screen shown, in its current state or with that frame coming; refines `NavStack` |
| `screens_live` | 7 activities (the reader for one `menu` and the panel), 2 screen changes, radio and remote page turns; about 63 000 | a wait returns; an update asked for is rendered |
| `ble` | 1 retry, restart after 2 refusals, every heap, builds; about 2.8 M | no chapter beside a radio; no stop of a stack a start is bringing up; a sleep brings up Wi-Fi only with Bluetooth down; one heap restart |
| `ble_live` | no retry, 1 refusal, heap fits; about 391 000 | a screen change comes however start, stop and build delay it; the render lock comes back |
| `translation` | 3 runs, no fault but the light panel and unreadable chapters; about 257 000 | an unfinished run keeps the prior file; pages and pairs come from the translation that is there; a run ends; leaving ends |
| `translation_faults` | 2 runs, 2 power losses, slow network, storage faults, low memory, unreadable chapters; about 448 000 | with all of that: drawing has a buffer; the buffer comes back for a repaint only while the worker is parked; what a run left unfinished is never committed; success means this run's output is in place |
| `book` | 2 chapters, 2 blocks each of length 0, 2 or 3 (batches of 5), 3 kinds of engine, 2 failures or waits in a row, 2 runs, 1 power loss, storage faults; about 886 000 | translations line up; nothing bogus is committed; requests have the heap; finished chapters are kept; results tell the truth; a run ends |
| `boot` | 2 books, any number of boots; about 213 000 | no boot loop; the book slept in comes back |
| `library` | 3 paths, 2 sizes, 3 formats of which 2 share a layout, 2 arrival numbers, symmetry; about 1.5 M | arrival numbers distinct; refines `LibraryShelf` |
| `clippings` | 3 clippings, 4 ids, symmetry; about 585 000 | saved clippings are kept; removed ones stay away; none twice on the server; a sync agrees |
| `outbox` | 2 plugins, 4 events of which 2 download, the second plugin subscribed to one, a cap of 2 lines, 2 events a drain; about 2 M | at least once; refines `EventQueue`, which keeps order; a downloaded book is listed; outboxes empty when faults end |
| `outbox_old_or_fresh` | the same | a counterexample of 12 states, section 7 |

**Why the bounds are enough.** *Screens*: the hazards need a waiter, a screen above another, a
replaced stack and a slot used again for a new object; two slots per kind that can exist twice and five changes give each of
these, and one more visit only repeats them (the proofs cover every bound). *Radio*: retries and
refusals at the limit, one below and one above are all reachable with 1 and 2; screens and visits are
unbounded (states are finite without a bound). *Chapter*: a hazard relates a run to the one before
it and the pages of that one, so two runs show it and the third shows it repeated after a recovery; two
power losses give one during the recovery of the other. *Book*: two texts of 2 and 3 stay below, reach and pass the batch's target of 5
and, with the separator of 1, its limit of 6, so batches of one and two texts, empty blocks among them, and a flush before adding are all there;
limits of 2 are reached, missed by one and reset. A further block (`MaxBlocks = 3`, safety only, 4.9 M states) showed nothing else. *Boot*: two books are the
one in question and another. *Library*: a renamed book, one that takes its number and one in its place need three
paths and two sizes. *Clippings*: an id more than clippings, so that one can be drawn in vain. *Outbox*: a line over the cap, lines within, a torn one;
three lines that can still be read against a budget of two, so one that ends in the middle of an outbox, and one that is used up before the second plugin.

**Deadlock** is checked in every run; `PoweredOff` is the only place where `ActivityManager` may stop.

**Fairness.** FreeRTOS gives both equal-priority tasks time slices and blocks on mutexes with
priority inheritance, so each task that can step does (weak fairness), and one that blocks on a mutex
that is released again and again gets it (strong fairness on `RenderLocks`, `LockForPending` and
`ChangeScreen`). Callbacks return and drop their locks. A pass that ends early
does so for a gesture or a radio that is stopping, so passes that do not end early recur (strong
fairness on `ActivityLoop`, `ExclusiveLoop`, `ScreenMayChange`). A background build progresses when stepped (`FinishBuild`); the wait for room has a time
limit (`RoomRefused`). For the two translations weak fairness of each task is enough, with one addition for the chapter: a translation call
returns (strong fairness on `rewriteFromFile`); in the book the rewriter's own steps take its place. The outboxes need that faults end at some time (`Calm`), that the device comes online again
and again (`Drain`) and that a drain runs (`DrainStep`). Nothing
obliges the user, the activities or the network to do anything else.

## 5. Proofs

All for any value of the constants, and so for any number of activities, visits, retries, runs, chapters, books,
clippings, events and power losses; assumptions on a constant are in the theorem's statement. They follow one scheme:
no listed property is inductive, so a stronger invariant is; each of its parts has a lemma that every step keeps
it, from the parts it rests on; the theorems are consequences.

**`ActivityManagerProofs`.** The inductive invariant `IInv` is needed because no listed property is
inductive: that the render task draws the live foreground depends on who holds the mutex, and ownership
depends on what a pending action promises. Its parts: the types (`DataTypes`, `FlagTypes`);
`MutexInv`, the mutex's holder is where its program holds it; `PendingInv`, what is pending at each
point of the while loop; `Owned` and `Distinct`, ownership; the drawing and waiter properties; `PaintedInv`,
a painted visit that equals the current one was painted by the current activity; `ExclusiveInv`, nothing is
pending over a USB screen. Each part has a lemma `...Step` with the parts it rests on, one step per
group of actions; `Invariance` combines them. `HomeShown` assumes `SplashBoot`: without a splash it
is false (section 7). `Refinement` shows every step is a step of `NavStack` or a stutter, from lemmas
about appending to and cutting a stack.

`HandlersGetTheirChildren` (assuming `~RadioBuild`) adds `LinkInv`, below the foreground a handler names the activity right above its own, and `ChildInv`, the
foreground has a handler only between asking for its child and opening it. Without its assumption
it is false (`ResultHandler.cfg`). `WaitsEndOnTheirScreen` needs none. It adds `ScreenInv` and `FrameInv`: the panel shows the foreground's own
screen from the frame it was published to the notification that ends a wait, the screens that wait stay in front while they do, the panel is never newer
than the last frame, and while the main task waits before a panel that is behind, a frame of the current state is coming. The stronger claim, that the frame shown is of the current state, is false (`WaitShows.cfg`). `WakeUpsAreNeverLost` and `RequestsAreNeverLost` are what
`WaitReturns` and `RequestsAreServed` rest on besides fairness: a notification that is waited for has been given or is the render
task's to give, without a lock the waiter holds; and a request is always written down in some flag, notification or frame.

**`BleRuntimeProofs`.** `MemoInv` (a restart spends the memo, only a radio that came up returns it)
gives `RestartsOnce`. `StartInv` gives the rest: a start runs only under a claim (`ClaimInv`); past
`suspend()`'s look at the claim no start can reach the stack (`StopInv`), because the main task makes
claims itself and is inside its `suspend()` (`CallInv`), and the render task has the lock a start must
have had (`LockInv`). `TypeCorrect` includes that a screen change that was let through always has a screen to go to.
`StartOwnsItsStack` and `RestartsOnce` hold for a radio of any speed;
so does `DeliversWithTheRadioDown`: a `suspend()` that gives up does not let the delivery start, and after one that succeeds only the
main task, which is sleeping, could claim a new start. `PagesArePaintedAlone` and `ChaptersAreBuiltAlone` assume `~SlowRadio`, and with a slow radio
`BuildsAlone` is false (section 7). `NobodyWaitsForNothing` is the same kind of core for `ScreenComes` and `LockComesBack`, for any radio: a
claim that is waited for belongs to a start that runs, a task that waits in `suspend()` has called it, and the turn a build asks
for is asked for only while it waits. No path leaves one of them set behind it.

**`ChapterTranslationProofs`.** Besides types: `PlaceInv` and `WorkerInv` (where the two tasks can be together), `LockInv` and
`BufferInv` (who may draw, who has freed the framebuffer), `ExitInv`, `RunInv` (what the flags say of the run), `OutputInv` and
`WholeInv` (what the `.part` and final file hold), `KeepInv` and `CacheInv` (the file before; pages and pairs).
`HandsTheBufferBack`, `RepaintsOnlyWhileParked`, `CommitsOnlyEndedRuns` and `SuccessMeansCommitted` need no assumption:
`WholeInv` follows an output that has not been cancelled or given up from the end of the rewriter over the commit to the result screen, damaged or not.
`NeverDrawsIntoNothing` needs `~LightPanel`;
`KeepsThePriorTranslation` and `CachesFollowTheTranslation` need `~SlowNetwork`, the first also
`~StorageFaults`, the second `MaxCrashes = 0`. Without its assumption each is false
(section 7), or, for storage faults, the prior file is gone because the rename that should replace it failed.

`WaitsAreNeverInVain` is the safety behind `RunEnds` and `ExitEnds`, without an assumption: a worker parked at a boundary has been acknowledged, is
cancelled, or is about to be served; the frame the main task waits for is requested or being drawn, and the lock is not its
own; the worker `onExit()` waits for has been told to stop and, if it is gone, has said how it ended. It needs `HandInv`
(one boundary at a time is pending, served or acknowledged) and `StartedInv` (what was started runs or has set
`taskDone` or `taskFailed`). `RepaintsOnlyWhileParked` follows from `HandInv`. `BookTranslationProofs` has
both for the book's boundaries.

**`BookTranslationProofs`.** For the rewriter alone, under any caller: `OrderInv` (what was written, the batch and the block held back
are consecutive), `StageInv`, `Aligned` (what has come back so far answers the batch's texts from the first on) give `LinesUp`; `AskedFor` (with no
failure counted, every text without an answer is still to be asked for) gives `NoBogus`. `Rewrites` shows that the book takes only
steps of `RewriteSpec`, which carries both over. For the book: `HandInv` (the framebuffer at each point of a
boundary), `KeptInv` (each damaged chapter is paid for by a refusal, a power loss or the commit in work, counted with the
library's theorems on cardinality), `CountInv`. `LinesUp` needs `~LooseReplies`, `HeapForTheNetwork` `~BufferStuck`, `FinishedKept` `~SlowNetwork`.

**`BootSessionProofs`.** `SavedInv` (the file and memory agree where the code relies on it), `LoopInv` (failures so far against count and path
of the saved state), `PlaceInv` (where the book is), `SleepInv` and `PromiseInv` (what the saved state or the restart's target says of the book owed).
`NoBootLoop` needs `~SavesFail`, `ComesBack` also `SleepPassRuns`.

**`LibraryIndexProofs`.** `StepInv` says what each step of a build may rely on of the three files. Rebuilt shelves are shown to
keep arrival numbers apart: kept ones are below the next number, claims are injective, new ones start there. `RecentlyAddedKeepsItsOrder` is
about the same operators: what stays keeps its number, a row a moved book could take is not left while that book counts as new. `Refinement`: parking,
restoring and cleaning leave unchanged what a recovery would find, and the swap is the abstract rebuild.

**`ClippingSyncProofs`.** `Writing` (what the two files hold at each point of a write), `Fitting` (ids in memory, journal and on the
server belong to the same clippings), `Fated` (what the user was told against memory and files), `Syncing`, `Agreeing` (what a pull has already settled).

**`PluginEventsProofs`.** `DrainInv` (the lines read are the outbox), `Delivery` (an event owed is ahead of the drain in its outbox, has arrived or was given up), `Books`
(a file in place or parked that the library was not told of is due to be downloaded again), `Ordered` (outboxes ascend, what has arrived is below).
`ImplementsThePromise` is the refinement of `EventQueue`: the line a drain is at is the oldest outstanding (`LineIsOldest`, from `Ordered` and `Delivery`), an append
keeps the outbox or nothing of it (`AppendsQueued`), a rewrite loses only what is settled (`BehindIsSettled`).
`ThePromiseKeepsOrder` shows of `EventQueue` alone that it implies `InOrder`.

**Only model-checked.** All liveness (`WaitReturns`, `RequestsAreServed`, `ScreenComes`, `LockComesBack`, `RunEnds`, `ExitEnds`, `BookEnds`,
`OutboxEmpties`): fairness and ENABLED are beyond this prover. For the first seven the state invariants named above are proved: that
nothing is lost and nobody waits for what cannot come, so that what TLC adds is that the owners get on. Every invariant and every
action property or refinement of a run is a theorem. Proved, and not a property of a run, because another property of the run says more or the run has enough
to do: the types, `PendingSafe`, `SingleWaiter`, `ExclusiveKept`, `PagesArePaintedAlone`, `HandsTheBufferBack`, `RepaintsWhileParked` of a book, `Rewrites`, `InOrder`
(by the refinement), and the cores of the liveness properties. Nothing proved depends on a recursive
definition, and the modules have none; facts about sequences come from the library's theorems, not from induction of our own.

## 6. Hazards

`PROJECT.json` lists them, each at its line with the properties that watch it. Eight have none: four are stated and found
violated (`goToSleep()`'s single pass, `SleepScreen.cfg`; a start decided before a build's hold, `BleRefused.cfg` and `BleHoldStuck.cfg`;
a worker that outlives its activity, `WorkerOutlives.cfg`; a damaged chapter that is committed, `CutChapter.cfg`), one
follows from the code alone (`xTaskCreate()`), and three are in parts not modelled (moving a finished book, the shelf's
worker, the progress file).

## 7. Where code and its own words differ

One is listed as a finding with its run, `outbox_old_or_fresh`: a download that replaces a file removes `<dest>.bak`
(`PluginEvents.cpp:347`) before it knows that its own rename will work. After a commit that lost power between its two renames,
that backup is the only copy; if the new rename fails too, nothing is left, and lines 343-344 say that a failed commit "must not lose
both the old file and the fresh download".

The others each have a configuration here that is not among the runs; `tlc -config <cfg> <module>` gives the trace:

| Configuration (module) | Property | What happens |
|---|---|---|
| `WorkerOutlives.cfg` (ChapterTranslation) | `WorkerEndsBeforeItsActivity` | `onExit()` waits five seconds (`ChapterTranslationActivity.cpp:86`) for a worker whose network call may take sixty, then the activity is destroyed under it. The book's exit does the same. What `onExit()` does not outlive is therefore no claim of any run here. |
| `CutChapter.cfg` (ChapterTranslation); also with `StorageFaults` or `LowMemory` in place of `UnreadableChapter` | `CommittedIsWhole` | `rewriteFromFile()` reports neither a failed write (`TranslationHtmlRewriter.cpp:46-48`), a read or parse error (843, 851), an input that does not open (815) nor a parser it cannot allocate (824), and `close()` is not looked at (`ChapterTranslationActivity.cpp:381`). The cut or empty output is committed and shown as a success: on a full card, a translation that stops in mid-chapter. `LinguaSectionSupport.cpp:31-33` says "only renamed into place after a clean, complete write". A book's chapters are written by the same rewriter and committed the same way. |
| `CancelKept.cfg` (ChapterTranslation) | `CancelKeepsPrior` | A Back after the worker's last look at `cancelFlag` (385) shows CANCELLED over a committed new file. |
| `CommitCrash.cfg` (ChapterTranslation) | `TranslationNeverLost` | Power lost between remove (423) and rename (424): the chapter has neither file, though line 420 says "commit atomically". |
| `StalePages.cfg` (ChapterTranslation); with `PairsOfTheTranslation` for the pairs | `PagesOfTheTranslation` | Power lost between the rename and lines 436, 441: the old translation's pages and pairs stay, and nothing later drops them. |
| `ChapterTranslationFaults.cfg` with `LightPanel = TRUE` | `DrawsIntoTheBuffer` | The light panel opened during a run draws while the framebuffer is freed. |
| `LooseReplies.cfg` (MCBookTranslation) | `TranslationsLineUp` | A reply that joins two texts and splits another has the right number of pieces, and the count is all that is compared (`TranslationHtmlRewriter.cpp:306`). |
| `LongParagraph.cfg` (MCBookTranslation) | `NothingLeftOut` | A chapter whose texts are all too long to be sent counts no failure and is committed with nothing translated, which `BookTranslationActivity.cpp:495-498` excludes. |
| `NativePath.cfg` (MCBookTranslation) | `StaysNative` | `batchTextBytes` leaves separators out, so many short paragraphs pass the limit when they are joined and are sent one by one; `TranslationHtmlRewriter.cpp:179-182` says array engines "must stay on their native batch path". |
| `WaitShows.cfg` (MCActivityManager) | `WaitShowsTheState` | A render that was already under way ends a later `requestUpdateAndWait()` with the older state on the panel (activities that change their state outside a `RenderLock`), though `ChapterTranslationActivity.cpp:226-228` counts on the frame; the current one follows (`WaitEndsOnItsScreen`). |
| `HomeShown.cfg` (MCActivityManager) | `HomeShownIsOnPanel` | After a splashless wake `screenVisit` and `paintedVisit` are both 0, so `isForegroundHomeShown()` (`ActivityManager.cpp:429`) is true before Home has drawn; `ActivityManager.h:118` says it has "painted a frame of its own". |
| `SleepScreen.cfg` (MCActivityManager) | `SleepScreenEntered` | `goToSleep()` calls `loop()` once (`ActivityManager.cpp:355`); an early return or the foreground's own request leaves another screen in front when it returns. |
| `ResultHandler.cfg` (MCActivityManager) | `HandlerGetsItsChild` | With a started child held back by the radio, the light panel's push drops it and later its empty result reaches the child's handler. |
| `PendingDropped.cfg` (MCActivityManager) | `NothingPendingIsDropped` | The same push finds `pendingActivity` set, which line 386 says "should never happen in practice". |
| `BleParser.cfg` (BleRuntime) | `NoStackBesideParser` | The stack comes up beside a live parser (background build of a partial chapter), which `main.cpp:361` excludes. |
| `BleRefused.cfg` (BleRuntime) | `NoRefusalForTheLock` | A start decided before a build asked for the heap waits for the build's lock, and the chapter is refused for it. |
| `BleFullSpeed.cfg` (BleRuntime) | `FullSpeedWhileUp` | A build's stop and the main loop's start cross, and the radio runs without the full CPU clock. |
| `BleHoldStuck.cfg` (BleRuntime) | `HoldEnds` | A start decided before a build's hold and failing after it parks the background build whose end the hold waits for. |
| `BleRuntime.cfg` with `SlowRadio = TRUE` | `BuildsAlone` | `status()` reads `running` before `starting` (`Runtime.cpp:627`); a slow start that ends in between is seen as neither. |
| `BootSession.cfg` with `SavesFail = TRUE` | `BootLoopEnds` | The result of `saveToFile()` is ignored (`main.cpp:868`): on a card that cannot be written a book that crashes is opened at every boot. |
| `BootSession.cfg` with `SleepPassRuns = FALSE` | `BookComesBack` | When `goToSleep()`'s one pass of `loop()` ends early, the reader does not leave, and the book is not resumed. |

Found by reading while modelling, without a run:

* `BookTranslationActivity.cpp:444-447` says that "any prior committed translation survives a failed re-translation"; it
  is removed (509) before the rename (510) that may fail, as in `CommitCrash.cfg`. `FinishedChaptersKept` counts exactly these losses.
* `EpubReaderActivity.cpp:176-177` says a failed move "rolls everything back"; the rollback (193) renames the book but not
  the clippings `moveBook()` took along.
* `main.cpp:517-519`: after a `beforeSleep()` that gave up, the events wait, but the sleep goes on, with the Bluetooth stack still coming up or down.
* `LibraryBuilder.cpp:449-453`: a folder that cannot be opened is skipped in silence, and the dirty mark is cleared over an index without its books.
* `xTaskCreate()`'s result is ignored (`ChapterTranslationActivity.cpp:242`, and for a book): without a worker the screen stays in `TRANSLATING`.
* The comment before `EpubReaderActivity.cpp:1565` calls the restart a "no-op on touch boards", which `silentRestartTo` no longer is.

## 8. Not modelled, and why

* **Over the SDK or network libraries, whose source is not in the repository**: hardware abstraction, persistent stores (whole-file JSON through
  the SDK's `writeFile`), web server, WebDAV and downloads (their `.part` files follow the pattern of a plugin's
  download), firmware update (what a half-written otadata slot means is the bootloader's decision), KOReader sync (one exchange
  at the user's request), trusted time. A model would be of the library.
* **Sequential and unit-tested**: remote button learning and routing (a function of times of presses), Lingua layout,
  modes and word lens, drawing, fonts, images, parsers, hyphenation, dictionaries. They are most of the repository's lines, much of them
  generated tables and vendored libraries, and have no order of events for a model checker to vary.
* **Shelf's cover worker**: cancel and join as in the translation's worker, for cover images that can be made again. The join has no time limit and
  ends because the worker looks at its flag between covers.
* **Section builds cut short**: the version byte is written last, so an incomplete file is recognised; what resumes is layout.
* **Moving and deleting a book's clippings**: `moveBook()` has no recovery after a power loss, so the only true statement would be
  that each failing rename is undone.
* **Within modelled parts**: what screens draw and select; HTTP, JSON and tokens of the engines; markup and translations already in a chapter; the S3 profile's
  start from Home, pairing, the link note; the splash flag, recovery screen and a boot without a card; page turns, bookmarks, progress and statistics
  of the reader; sleep from a screen above the reader.
