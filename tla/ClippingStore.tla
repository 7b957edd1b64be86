----------------------------- MODULE ClippingStore -----------------------------
(***************************************************************************)
(* The clippings of one book (src/ClippingStore.cpp): the index in memory, *)
(* its file, replaced through .tmp and .bak, and the journal of deletions. *)
(* Every rename and removal of the replacement is a step that can fail and *)
(* after which power can go. The .tmp file is never read, so it is not a   *)
(* variable: what is swapped in is the index in memory.                    *)
(***************************************************************************)
EXTENDS Naturals, FiniteSets

CONSTANTS Clips, Ids,
          NoId,      \* a clipping not prepared for a sync
          NotThere,  \* no such clipping
          None       \* no such file

Entry == [id : Ids \cup {NoId}, pending : BOOLEAN]
Content == [Clips -> Entry \cup {NotThere}]

ASSUME EntryAssumption == NotThere \notin Entry
ASSUME FileAssumption == None \notin Content
ASSUME IdAssumption == NoId \notin Ids

VARIABLES store, bak,  \* the file and its backup
          journal,     \* ids in the .deleted file
          mem,         \* the index in memory, of the book that is loaded
          before,      \* the same before the operation under way
          dirty,
          at,          \* where writeToFile() stands
          fate         \* what the reader of the book has been told of a clipping

files == <<store, bak>>
storeVars == <<store, bak, journal, mem, before, dirty, at, fate>>

Empty == [c \in Clips |-> NotThere]
Present(content) == {c \in Clips : content[c] # NotThere}
IdsOf(content) == {content[c].id : c \in Present(content)} \ {NoId}

\* What loadForBook() would read: the backup counts when the file is missing.
Recoverable == IF store # None THEN store ELSE IF bak # None THEN bak ELSE Empty

Fates == {"unmade",   \* never on this device
          "open",     \* being added or removed
          "kept", "removed"}

Write == at' = "begin"

Init == /\ store = None /\ bak = None /\ journal = {}
        /\ mem = Empty /\ before = Empty /\ dirty = FALSE /\ at = "idle"
        /\ fate = [c \in Clips |-> "unmade"]

-----------------------------------------------------------------------------
(* writeToFile(), from its recovery of a backup to the removal of the old file. *)

WriteFails(storeNow, bakNow) ==
  /\ at' = "failed" /\ store' = storeNow /\ bak' = bakNow
  /\ UNCHANGED <<journal, mem, before, dirty, fate>>

WriteBegins ==
  /\ at = "begin"
  /\ \/ WriteFails(store, bak)
     \/ /\ store = None /\ bak # None /\ store' = bak /\ bak' = None /\ at' = "back"
        /\ UNCHANGED <<journal, mem, before, dirty, fate>>
     \/ /\ store = None /\ bak = None /\ at' = "swap"
        /\ UNCHANGED <<files, journal, mem, before, dirty, fate>>
     \/ /\ store # None /\ bak' \in {None, bak} /\ at' = "back"   \* the removal may fail unseen
        /\ UNCHANGED <<store, journal, mem, before, dirty, fate>>

\* As BackUp, when the old file is removed to make room for the new one.
BackUpByRemoving ==
  /\ at = "back" /\ bak = None
  /\ store' = None /\ at' = "swap"
  /\ UNCHANGED <<bak, journal, mem, before, dirty, fate>>

BackUp ==
  /\ at = "back"
  /\ \/ /\ bak = None /\ bak' = store /\ store' = None /\ at' = "swap"
        /\ UNCHANGED <<journal, mem, before, dirty, fate>>
     \/ WriteFails(store, bak)

SwapIn ==
  /\ at = "swap"
  /\ \/ /\ store' = mem /\ at' = IF bak = None THEN "saved" ELSE "clean"
        /\ UNCHANGED <<bak, journal, mem, before, dirty, fate>>
     \/ bak # None /\ WriteFails(bak, None)
     \/ WriteFails(store, bak)   \* nor did the rollback work

CleanUp ==
  /\ at = "clean" /\ at' = "saved"
  /\ bak' \in {None, bak}
  /\ UNCHANGED <<store, journal, mem, before, dirty, fate>>

writeToFile == WriteBegins \/ BackUp \/ SwapIn \/ CleanUp

-----------------------------------------------------------------------------
(* The operations. Each ends, when the write has, in its Saved or Failed part. *)

\* A clipping found on the card was kept, one that is not was not.
loadForBook ==
  /\ at = "idle"
  /\ store' = IF store = None THEN bak ELSE store
  /\ bak' = IF store = None THEN None ELSE bak
  /\ mem' = Recoverable /\ before' = Recoverable /\ dirty' = FALSE
  /\ fate' = [c \in Clips |-> IF fate[c] = "removed" THEN "removed"
                              ELSE IF c \in Present(Recoverable) THEN "kept"
                              ELSE IF fate[c] = "open" THEN "removed" ELSE fate[c]]
  /\ UNCHANGED <<journal, at>>

addClipping(c) ==
  /\ at = "idle"
  /\ mem' = [mem EXCEPT ![c] = [id |-> NoId, pending |-> TRUE]] /\ before' = mem
  /\ fate' = [fate EXCEPT ![c] = "open"] /\ dirty' = TRUE /\ Write
  /\ UNCHANGED <<files, journal>>

\* As removeClippingAt, with only the uploaded clippings journalled.
removeClippingAtJournallingUploads(c) ==
  /\ at = "idle" /\ c \in Present(mem)
  /\ journal' = IF mem[c].pending THEN journal ELSE journal \cup {mem[c].id}
  /\ mem' = [mem EXCEPT ![c] = NotThere] /\ before' = mem
  /\ fate' = [fate EXCEPT ![c] = "open"] /\ dirty' = TRUE /\ Write
  /\ UNCHANGED files

\* The deletion of a clipping with an id is on the card before the clipping goes.
removeClippingAt(c) ==
  /\ at = "idle" /\ c \in Present(mem)
  /\ journal' = IF mem[c].id = NoId THEN journal ELSE journal \cup {mem[c].id}
  /\ mem' = [mem EXCEPT ![c] = NotThere] /\ before' = mem
  /\ fate' = [fate EXCEPT ![c] = "open"] /\ dirty' = TRUE /\ Write
  /\ UNCHANGED files

\* What changed in memory is settled by the write that ended.
Settled == [c \in Clips |-> IF mem[c] = before[c] \/ fate[c] = "removed" THEN fate[c]
                            ELSE IF c \in Present(mem) THEN "kept" ELSE "removed"]
Restored == [c \in Clips |-> IF fate[c] # "open" THEN fate[c]
                             ELSE IF c \in Present(before) THEN "kept" ELSE "removed"]

Saved == /\ at = "saved" /\ at' = "idle" /\ before' = mem /\ dirty' = FALSE
         /\ fate' = Settled
         /\ UNCHANGED <<files, journal, mem>>

\* addClipping(), removeClippingAt() and applyRemote() undo what they did in memory.
Undone == /\ at = "failed" /\ at' = "idle" /\ mem' = before
          /\ fate' = Restored
          /\ UNCHANGED <<files, journal, before, dirty>>

\* prepareSync() and finishUploads() do not: unload() will try to save it again.
LeftDirty == /\ at = "failed" /\ at' = "idle" /\ before' = mem
             /\ UNCHANGED <<files, journal, mem, dirty, fate>>

Unloaded == /\ at' = "idle" /\ mem' = Empty /\ before' = Empty /\ dirty' = FALSE
            /\ UNCHANGED <<files, journal, fate>>

-----------------------------------------------------------------------------
StoreTypeOK ==
  /\ store \in Content \cup {None} /\ bak \in Content \cup {None}
  /\ journal \subseteq Ids /\ mem \in Content /\ before \in Content /\ dirty \in BOOLEAN
  /\ at \in {"idle", "begin", "back", "swap", "clean", "saved", "failed"}
  /\ fate \in [Clips -> Fates]

\* A clipping the reader was told is saved, or has seen, stays on the card until
\* the reader or another device removes it, whatever write fails or is cut short.
KeptOnCard == \A c \in Clips : fate[c] = "kept" => c \in Present(Recoverable)

\* A clipping once removed never comes back, neither from a backup nor from the
\* server it had been uploaded to.
NoneComesBack == \A c \in Clips : fate[c] = "removed" => c \notin Present(Recoverable)
=============================================================================
