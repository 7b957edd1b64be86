----------------------------- MODULE LibraryIndex -----------------------------
(***************************************************************************)
(* The index of the library (lib/LibraryIndex): a rebuild walks the card,  *)
(* writes library.new and installs it over library.idx through             *)
(* library.bak. Every file operation is a step of its own, each can fail,  *)
(* and the power can go between any two. The walk, which only reads, is    *)
(* one step: everything here runs on the main task.                        *)
(***************************************************************************)
EXTENDS Arrivals

CONSTANTS Formats,      \* index formats some firmware writes
          Structure,    \* the record layout of each: a firmware of another
                        \* layout cannot even reconcile with the file
          None,         \* no such file
          Torn,         \* a file nobody will read: its writing was cut short, or
                        \* it is a library.new of an earlier build
          MaxArrivals   \* bound: arrival numbers given out

ASSUME FormatsAssumption == Structure \in [Formats -> Nat]
ASSUME NoneAssumption == None \notin [format : Formats, shelf : Shelf] /\ None \notin Shelf /\ Torn # None
                         /\ Torn \notin [format : Formats, shelf : Shelf]

VARIABLES live, backup, fresh,  \* library.idx, library.bak, library.new
          marker,               \* library.dirty is on the card
          dirtyInMemory,
          card, firmware,
          step,                 \* where the build under way stands
          built                 \* what it is writing to library.new

files == <<live, backup, fresh>>
marks == <<marker, dirtyInMemory>>
vars == <<live, backup, fresh, marker, dirtyInMemory, card, firmware, step, built>>

Index == [format : Formats, shelf : Shelf]
Steps == {"idle", "mark", "recover", "restore", "walk", "emit", "park", "swap", "clean", "clear"}

\* LibraryIndexFile::open and openForReconciliation. No file of another format
\* passes the first; the second forgives another sort key, not another layout.
Readable(file) == file \in Index /\ file.format = firmware
Reconcilable(file) == file \in Index /\ Structure[file.format] = Structure[firmware]

Prior(file) == IF Reconcilable(file) THEN file.shelf ELSE EmptyShelf

isLibraryIndexDirty == dirtyInMemory \/ marker

Init ==
  /\ live = None /\ backup = None /\ fresh = None
  /\ marker = FALSE /\ dirtyInMemory = FALSE
  /\ card \in Cards /\ firmware \in Formats
  /\ step = "idle" /\ built = None

-----------------------------------------------------------------------------
(* The card changes. A transfer is followed by a mark; a removal or a rename *)
(* in the file browser is not, nor what a computer does over USB.            *)

TransferBook(p, size) ==
  /\ step = "idle" /\ step' = "mark"
  /\ card' = [card EXCEPT ![p] = size]
  /\ UNCHANGED <<files, marks, firmware, built>>

markLibraryIndexDirty ==
  /\ step = "mark" /\ step' = "idle"
  /\ \/ marker' = TRUE /\ UNCHANGED dirtyInMemory
     \/ ~marker /\ dirtyInMemory' = TRUE /\ UNCHANGED marker   \* cannot be written
  /\ UNCHANGED <<files, card, firmware, built>>

EditCard ==
  /\ step = "idle"
  /\ \E p \in Books(card) :
       card' \in {[card EXCEPT ![p] = NoBook]}
         \cup {[card EXCEPT ![p] = NoBook, ![r] = card[p]] : r \in Paths \ Books(card)}
  /\ UNCHANGED <<files, marks, firmware, step, built>>

-----------------------------------------------------------------------------
(* buildLibraryIndex() and who calls it. *)

\* The library is entered with its index dirty, unreadable or in another mode,
\* the home grid finds none it can read, or the user asks for a rebuild.
StartBuild ==
  /\ step = "idle" /\ step' = "recover"
  /\ UNCHANGED <<files, marks, card, firmware, built>>

\* Deleting a book in the library rebuilds without a mark.
DeleteInLibrary(p) ==
  /\ step = "idle" /\ Readable(live) /\ p \in Rows(live.shelf) /\ step' = "recover"
  /\ card' = [card EXCEPT ![p] = NoBook]
  /\ UNCHANGED <<files, marks, firmware, built>>

\* A failed operation, read or allocation before anything was written.
GiveUp ==
  /\ step \in {"recover", "restore", "walk"} /\ step' = "idle"
  /\ UNCHANGED <<files, marks, card, firmware, built>>

Recovering(liveNow, backupNow, next) ==
  /\ live' = liveNow /\ backup' = backupNow /\ step' = next
  /\ UNCHANGED <<fresh, marks, card, firmware, built>>

\* recoverInterruptedInstall(): a backup alone is the index; of two files the
\* live one counts if it reads, then the backup; two that do not read leave the
\* live one, which may still tell the arrival numbers.
Recover ==
  /\ step = "recover"
  /\ \/ backup = None /\ Recovering(live, None, "walk")
     \/ backup # None /\ live = None /\ Recovering(backup, None, "walk")
     \/ backup # None /\ live # None /\ Readable(live) /\ Recovering(live, None, "walk")
     \/ /\ backup # None /\ live # None /\ ~Readable(live) /\ Readable(backup)
        /\ Recovering(None, backup, "restore")
     \/ /\ backup # None /\ live # None /\ ~Readable(live) /\ ~Readable(backup)
        /\ Recovering(live, None, "walk")

RestoreBackup == step = "restore" /\ Recovering(backup, None, "walk")

\* Every book is where the index has it, and its metadata is reused, which another format's is not:
\* nothing to replace.
WalkUnchanged ==
  /\ step = "walk" /\ Reconcilable(live) /\ Lists(live.shelf, card)
  /\ Readable(live) \/ Rows(live.shelf) = {}
  /\ step' = "clear"
  /\ UNCHANGED <<files, marks, card, firmware, built>>

WalkAndEmit ==
  /\ step = "walk" /\ step' = "emit"
  /\ \E shelf \in Rebuilds(Prior(live), card) :
       shelf.next <= MaxArrivals /\ built' = [format |-> firmware, shelf |-> shelf]
  /\ fresh' = Torn
  /\ UNCHANGED <<live, backup, marks, card, firmware>>

\* The header goes in last and the length is checked; only then the file counts.
EmitDone ==
  /\ step = "emit" /\ fresh' = built /\ built' = None
  /\ step' = IF live = None THEN "swap" ELSE "park"
  /\ UNCHANGED <<live, backup, marks, card, firmware>>

EmitFails ==
  /\ step = "emit" /\ step' = "idle" /\ built' = None
  /\ fresh' \in {None, Torn}
  /\ UNCHANGED <<live, backup, marks, card, firmware>>

(* installNewIndex(), operation by operation. *)

\* As ParkLive, when the old index is removed to make room for the new one.
ParkLiveRemoving ==
  /\ step = "park" /\ step' = "swap"
  /\ live' = None
  /\ UNCHANGED <<backup, fresh, marks, card, firmware, built>>

ParkLive ==
  /\ step = "park" /\ step' = "swap"
  /\ backup' = live /\ live' = None
  /\ UNCHANGED <<fresh, marks, card, firmware, built>>

ParkFails ==
  /\ step = "park" /\ step' = "idle" /\ fresh' \in {None, Torn}
  /\ UNCHANGED <<live, backup, marks, card, firmware, built>>

SwapIn ==
  /\ step = "swap" /\ step' = "clean"
  /\ live' = fresh /\ fresh' = None
  /\ UNCHANGED <<backup, marks, card, firmware, built>>

\* The rollback may fail too: the backup then stays for the next build.
SwapFails ==
  /\ step = "swap" /\ step' = "idle" /\ fresh' \in {None, Torn}
  /\ \/ backup # None /\ live' = backup /\ backup' = None
     \/ UNCHANGED <<live, backup>>
  /\ UNCHANGED <<marks, card, firmware, built>>

CleanBackup ==
  /\ step = "clean" /\ step' = "clear"
  /\ backup' \in {None, backup}
  /\ UNCHANGED <<live, fresh, marks, card, firmware, built>>

clearLibraryIndexDirty ==
  /\ step = "clear" /\ step' = "idle"
  /\ dirtyInMemory' = FALSE /\ marker' \in {FALSE, marker}
  /\ UNCHANGED <<files, card, firmware, built>>

-----------------------------------------------------------------------------
PowerLoss ==
  /\ step' = "idle" /\ dirtyInMemory' = FALSE /\ built' = None
  /\ fresh' = IF fresh = None THEN None ELSE Torn
  /\ UNCHANGED <<live, backup, marker, card, firmware>>

Reflash ==
  /\ step = "idle" /\ firmware' \in Formats \ {firmware}
  /\ dirtyInMemory' = FALSE
  /\ UNCHANGED <<files, marker, card, step, built>>

Build == \/ StartBuild \/ GiveUp \/ Recover \/ RestoreBackup
         \/ WalkUnchanged \/ WalkAndEmit \/ EmitDone \/ EmitFails
         \/ ParkLive \/ ParkFails \/ SwapIn \/ SwapFails
         \/ CleanBackup \/ clearLibraryIndexDirty

Next == \/ \E p \in Paths : DeleteInLibrary(p) \/ \E size \in Sizes : TransferBook(p, size)
        \/ markLibraryIndexDirty \/ EditCard
        \/ Build
        \/ PowerLoss \/ Reflash

Spec == Init /\ [][Next]_vars

-----------------------------------------------------------------------------
\* The file a recovery run now would leave as the index.
Recovered == IF backup = None \/ (live # None /\ (Readable(live) \/ ~Readable(backup)))
             THEN live ELSE backup

\* Whatever is cut short, no file under the name of the index or its backup is
\* one that was not written to its end.
TypeOK ==
  /\ live \in Index \cup {None} /\ backup \in Index \cup {None}
  /\ fresh \in Index \cup {None, Torn} /\ built \in Index \cup {None}
  /\ marker \in BOOLEAN /\ dirtyInMemory \in BOOLEAN
  /\ card \in Cards /\ firmware \in Formats /\ step \in Steps

\* Two books never share a place in "Recently added", in any of the three
\* files, over renames, deletions, failed builds and other firmwares: a row is
\* claimed by one renamed book only, and no number is given out again.
ArrivalsDistinct ==
  \A file \in {live, backup, fresh} : file \in Index => Numbered(file.shelf)

\* Seen through recovery, an install is one step: there is no moment between
\* two file operations, and no failed one, in which a power loss or a deferred
\* rebuild leaves another shelf than the old one or the new; and the mark that
\* the shelf is out of date is withdrawn only when it lists the card.
Abstract == INSTANCE LibraryShelf WITH
            Firmwares <- Formats, NoShelf <- None,
            shelf <- IF Reconcilable(Recovered) THEN Recovered.shelf ELSE None,
            due <- IF marker THEN "card" ELSE IF dirtyInMemory THEN "memory" ELSE "none"
ImplementsShelf == Abstract!Spec
=============================================================================
