----------------------------- MODULE ClippingSync -----------------------------
(***************************************************************************)
(* A book's clippings between the reader, which adds and removes them, the *)
(* synchronisation (clippings/ClippingSync.cpp) and a server other devices *)
(* write to as well. A request may not arrive, and its answer may be lost. *)
(***************************************************************************)
EXTENDS ClippingStore

CONSTANTS Unknown, Deleted   \* of an id, to the server

ASSUME ServerAssumption == Unknown \notin Clips /\ Deleted \notin Clips /\ Unknown # Deleted

VARIABLES pc,
          server,   \* what the server has under each id
          drawn,    \* the clipping an id was drawn for, here or elsewhere
          done,     \* deletions, or uploads, the server has acknowledged
          todo,     \* ids whose entry changed since the page last read
          more      \* the server said another page follows

syncVars == <<pc, server, drawn, done, todo, more>>
vars == <<store, bak, journal, mem, before, dirty, at, fate, pc, server, drawn, done, todo, more>>

Reading == {"reading", "adding"}
Pulling == {"pulling", "applying", "agreed"}
Pcs == {"closed", "probe", "preparing", "deleting", "uploading", "marking",
        "failed", "unloading"}
       \cup Reading \cup Pulling

SyncInit ==
  /\ Init
  /\ pc = "closed" /\ server = [i \in Ids |-> Unknown] /\ drawn = [i \in Ids |-> Unknown]
  /\ done = {} /\ todo = {} /\ more = FALSE

\* unload(): what a failed save left is saved once more, whatever comes of it.
Unload ==
  /\ done' = {} /\ todo' = {} /\ more' = FALSE
  /\ \/ ~dirty /\ Unloaded /\ pc' = "closed"
     \/ dirty /\ Write /\ pc' = "unloading" /\ UNCHANGED <<files, journal, mem, before, dirty, fate>>

UnloadEnds ==
  /\ pc = "unloading" /\ at \in {"saved", "failed"} /\ Unloaded /\ pc' = "closed"
  /\ UNCHANGED <<server, drawn, done, todo, more>>

-----------------------------------------------------------------------------
(* The reader. *)

OpenBook == pc = "closed" /\ loadForBook /\ pc' = "reading"
            /\ UNCHANGED <<server, drawn, done, todo, more>>

\* A clipping is made once, here or on another device.
New(c) == fate[c] = "unmade" /\ \A i \in Ids : drawn[i] # c

Add(c) == pc = "reading" /\ New(c) /\ addClipping(c) /\ pc' = "adding"
          /\ UNCHANGED <<server, drawn, done, todo, more>>

Remove(c) == pc = "reading" /\ removeClippingAt(c) /\ pc' = "adding"
             /\ UNCHANGED <<server, drawn, done, todo, more>>

ChangeEnds == pc = "adding" /\ (Saved \/ Undone) /\ pc' = "reading"
              /\ UNCHANGED <<server, drawn, done, todo, more>>

CloseBook == pc = "reading" /\ at = "idle" /\ Unload /\ UNCHANGED <<server, drawn>>

-----------------------------------------------------------------------------
(* clippingSync::run(). Wherever a step cannot be done, it gives up. *)

StartSync == pc = "closed" /\ loadForBook /\ pc' = "probe"
             /\ UNCHANGED <<server, drawn, done, todo, more>>

GiveUp == pc \in {"probe", "preparing", "deleting", "uploading", "pulling", "failed"} /\ at = "idle"
          /\ Unload /\ UNCHANGED <<server, drawn>>

Probe == pc = "probe" /\ pc' = "preparing"
         /\ UNCHANGED <<storeVars, server, drawn, done, todo, more>>

Undrawn == {i \in Ids : drawn[i] = Unknown}
Unprepared == {c \in Present(mem) : mem[c].id = NoId}
Draws == {f \in [Unprepared -> Undrawn] : \A c, d \in Unprepared : f[c] = f[d] => c = d}

WithIds(f) == [c \in Clips |-> IF c \in Unprepared THEN [mem[c] EXCEPT !.id = f[c]] ELSE mem[c]]
DrawnWith(f) == [i \in Ids |-> IF \E c \in Unprepared : f[c] = i
                              THEN CHOOSE c \in Unprepared : f[c] = i ELSE drawn[i]]

\* As prepareSync, with the new ids left to the save that follows the uploads.
prepareSyncUnsaved ==
  /\ pc = "preparing" /\ at = "idle" /\ pc' = "deleting"
  /\ \E f \in Draws : mem' = WithIds(f) /\ drawn' = DrawnWith(f)
  /\ before' = mem'
  /\ UNCHANGED <<files, journal, dirty, at, fate, server, done, todo, more>>

\* Ids are on the card before any of them is sent.
prepareSync ==
  /\ pc = "preparing" /\ at = "idle"
  /\ \/ Unprepared = {} /\ pc' = "deleting" /\ UNCHANGED <<storeVars, drawn>>
     \/ /\ Unprepared # {} /\ Write /\ dirty' = TRUE
        /\ \E f \in Draws : mem' = WithIds(f) /\ drawn' = DrawnWith(f)
        /\ before' = mem'
        /\ UNCHANGED <<files, journal, fate, pc>>
  /\ UNCHANGED <<server, done, todo, more>>

Prepared ==
  /\ pc = "preparing"
  /\ \/ Saved /\ pc' = "deleting" /\ UNCHANGED <<done, todo, more>>
     \/ LeftDirty /\ pc' = "failed" /\ UNCHANGED <<done, todo, more>>
  /\ UNCHANGED <<server, drawn>>

\* nextDeletion() passes over an id whose clipping is still there: its removal
\* did not get that far.
NextDeletions == journal \ IdsOf(mem)

SendDeletion(i) ==
  /\ pc = "deleting" /\ i \in NextDeletions \ done
  /\ server' = [server EXCEPT ![i] = Deleted]
  /\ \/ done' = done \cup {i} /\ UNCHANGED <<storeVars, pc, todo, more>>
     \/ Unload   \* the answer is lost
  /\ UNCHANGED drawn

finishDeletions ==
  /\ pc = "deleting" /\ NextDeletions \subseteq done
  /\ journal' = {} /\ done' = {} /\ pc' = "uploading"
  /\ UNCHANGED <<files, mem, before, dirty, at, fate, server, drawn, todo, more>>

Pending == {c \in Present(mem) : mem[c].pending}

\* A deletion is final to the server: an upload does not revive it.
SendUpload(c) ==
  /\ pc = "uploading" /\ c \in Pending /\ mem[c].id \notin done
  /\ server' = [server EXCEPT ![mem[c].id] = IF @ = Unknown THEN c ELSE @]
  /\ \/ done' = done \cup {mem[c].id} /\ UNCHANGED <<storeVars, pc, todo, more>>
     \/ Unload
  /\ UNCHANGED drawn

Uploaded == [c \in Clips |-> IF c \in Pending THEN [mem[c] EXCEPT !.pending = FALSE] ELSE mem[c]]

StartPull == pc' = "pulling" /\ todo' = {i \in Ids : server[i] # Unknown} /\ more' = TRUE

finishUploads ==
  /\ pc = "uploading" /\ \A c \in Pending : mem[c].id \in done
  /\ done' = {}
  /\ \/ Pending = {} /\ StartPull /\ UNCHANGED storeVars
     \/ /\ Pending # {} /\ pc' = "marking" /\ Write /\ dirty' = TRUE
        /\ mem' = Uploaded
        /\ before' = mem'
        /\ UNCHANGED <<files, journal, fate, todo, more>>
  /\ UNCHANGED <<server, drawn>>

UploadsMarked ==
  /\ pc = "marking"
  /\ \/ Saved /\ StartPull /\ UNCHANGED done
     \/ LeftDirty /\ pc' = "failed" /\ UNCHANGED <<done, todo, more>>
  /\ UNCHANGED <<server, drawn>>

NextPage == pc' = IF more' THEN "pulling" ELSE "agreed"

LastPageEmpty ==
  /\ pc = "pulling" /\ todo = {} /\ more' = FALSE /\ NextPage
  /\ UNCHANGED <<storeVars, server, drawn, done, todo>>

\* applyRemote(): one entry of the server in memory, then written. An entry
\* that is there already is written again if its revision is another.
Applied(i) ==
  IF server[i] = Deleted
  THEN [c \in Clips |-> IF c \in Present(mem) /\ mem[c].id = i THEN NotThere ELSE mem[c]]
  ELSE [mem EXCEPT ![server[i]] = [id |-> i, pending |-> FALSE]]

applyRemote(i) ==
  /\ mem' = Applied(i) /\ before' = mem
  /\ \/ mem' = mem /\ NextPage /\ UNCHANGED <<files, journal, dirty, at, fate>>
     \/ /\ Write /\ pc' = "applying"
        /\ fate' = [c \in Clips |-> IF mem'[c] = NotThere /\ mem[c] # NotThere THEN "open" ELSE fate[c]]
        /\ UNCHANGED <<files, journal, dirty>>

Page(i) ==
  /\ pc = "pulling" /\ i \in todo
  /\ todo' = todo \ {i} /\ more' = (todo' # {})
  /\ applyRemote(i)
  /\ UNCHANGED <<server, drawn, done>>

\* As PageApplied, with the answer of applyRemote() ignored.
PageAppliedUnchecked ==
  /\ pc = "applying" /\ (Saved \/ Undone)
  /\ pc' = (IF more THEN "pulling" ELSE "agreed")
  /\ UNCHANGED <<server, drawn, done, todo, more>>

PageApplied ==
  /\ pc = "applying"
  /\ \/ Saved /\ pc' = (IF more THEN "pulling" ELSE "agreed")
     \/ Undone /\ pc' = "failed"
  /\ UNCHANGED <<server, drawn, done, todo, more>>

SyncReturns == pc = "agreed" /\ Unload /\ UNCHANGED <<server, drawn>>

-----------------------------------------------------------------------------
(* Other devices, and the power. *)

Changed(i) == IF pc \in Pulling THEN todo \cup {i} ELSE todo

OtherDeviceAdds(c) ==
  /\ New(c)
  /\ \E i \in Undrawn :
       server' = [server EXCEPT ![i] = c] /\ drawn' = [drawn EXCEPT ![i] = c] /\ todo' = Changed(i)
  /\ UNCHANGED <<storeVars, pc, done, more>>

OtherDeviceDeletes(i) ==
  /\ server[i] \in Clips
  /\ server' = [server EXCEPT ![i] = Deleted] /\ todo' = Changed(i)
  /\ UNCHANGED <<storeVars, pc, drawn, done, more>>

PowerLoss ==
  /\ Unloaded /\ pc' = "closed" /\ done' = {} /\ todo' = {} /\ more' = FALSE
  /\ UNCHANGED <<server, drawn>>

WriteSteps == writeToFile /\ UNCHANGED syncVars

Sync == \/ StartSync \/ GiveUp \/ Probe \/ prepareSync \/ Prepared
        \/ \E i \in Ids : SendDeletion(i)
        \/ finishDeletions
        \/ \E c \in Clips : SendUpload(c)
        \/ finishUploads \/ UploadsMarked
        \/ \E i \in Ids : Page(i)
        \/ LastPageEmpty \/ PageApplied \/ SyncReturns

Next == \/ OpenBook \/ CloseBook \/ ChangeEnds \/ UnloadEnds
        \/ \E c \in Clips : Add(c) \/ Remove(c) \/ OtherDeviceAdds(c)
        \/ Sync
        \/ \E i \in Ids : OtherDeviceDeletes(i)
        \/ WriteSteps \/ PowerLoss

Spec == SyncInit /\ [][Next]_vars

-----------------------------------------------------------------------------
TypeOK ==
  /\ StoreTypeOK
  /\ pc \in Pcs /\ server \in [Ids -> Clips \cup {Unknown, Deleted}]
  /\ drawn \in [Ids -> Clips \cup {Unknown}] /\ done \subseteq Ids /\ todo \subseteq Ids /\ more \in BOOLEAN

\* No clipping reaches the server under two ids: one that had been sent keeps
\* its id over every power loss and failed save.
NoTwins == \A i, j \in Ids : server[i] = server[j] /\ server[i] \in Clips => i = j

\* When run() returns true, the card holds what the server has, under the same
\* ids, but for what other devices changed since the last page.
SyncAgrees ==
  pc = "agreed" =>
    /\ \A c \in Present(Recoverable) :
         ~Recoverable[c].pending /\ (Recoverable[c].id \in todo \/ server[Recoverable[c].id] = c)
    /\ \A i \in Ids \ todo : server[i] \in Clips =>
         /\ server[i] \in Present(Recoverable)
         /\ Recoverable[server[i]].id = i
=============================================================================
