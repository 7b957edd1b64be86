-------------------------- MODULE ClippingSyncProofs --------------------------
(***************************************************************************)
(* What the runs check of ClippingSync on a few clippings, proved for any  *)
(* number of clippings, ids, devices' changes, failures and power losses.  *)
(* The invariant has five parts: where a write stands, which ids a content *)
(* may hold, what the reader was told, how far a sync got, and what it has *)
(* brought into agreement.                                                 *)
(***************************************************************************)
EXTENDS ClippingSync, TLAPS

Contents == {mem, before, store, bak} \ {None}
Current == {mem, before, Recoverable}

\* Recoverable is what the operation under way started from until the swap, and
\* what it writes from then on.
Writing ==
  /\ at # "idle" => pc \in {"adding", "preparing", "marking", "applying", "unloading"}
  /\ pc \in {"adding", "marking", "applying", "unloading"} => at # "idle"
  /\ at = "back" => store # None
  /\ at = "swap" => store = None
  /\ at \in {"clean", "saved"} => store = mem
  /\ at = "idle" \/ pc \in {"preparing", "marking", "unloading"} => before = mem
  /\ pc = "closed" => mem = Empty
  /\ pc # "closed" /\ at \notin {"clean", "saved"} => Present(before) = Present(Recoverable)
  /\ pc \in {"probe", "deleting", "uploading", "pulling", "agreed"} \/ (pc = "preparing" /\ at = "idle") =>
       mem = Recoverable

\* An id in any content was drawn for the clipping that has it, and the server
\* knows it once the clipping is not pending. What counts also has the id under
\* which the server has the clipping.
Fitting ==
  /\ \A i \in journal : drawn[i] # Unknown
  /\ \A i \in Ids : drawn[i] = Unknown => server[i] = Unknown
  /\ \A i \in Ids : server[i] \in Clips => drawn[i] = server[i]
  /\ \A x \in Contents : \A c \in Present(x) :
       /\ x[c].id # NoId => drawn[x[c].id] = c
       /\ ~x[c].pending => x[c].id # NoId /\ server[x[c].id] # Unknown
  /\ \A x \in Current : \A c \in Present(x) :
       /\ \A i \in Ids : server[i] = c => x[c].id = i
       /\ fate[c] = "unmade" => x[c].id # NoId

\* A clipping that is gone, or is going, is on the server only under an id whose
\* deletion is still in the journal.
Fated ==
  /\ \A c \in Clips : fate[c] \in {"open", "removed"} =>
       \A i \in Ids : server[i] = c => i \in journal
  /\ \A c \in Clips : fate[c] = "removed" => c \notin Present(mem)
  /\ pc # "closed" => \A c \in Clips :
       /\ fate[c] = "open" => (c \in Present(mem)) # (c \in Present(before))
       /\ fate[c] = "kept" => c \in Present(mem) /\ c \in Present(before)
       /\ fate[c] = "unmade" => c \notin Present(before)

Syncing ==
  /\ pc \notin {"deleting", "uploading"} => done = {}
  /\ pc = "deleting" => \A i \in done : server[i] = Deleted
  /\ pc = "uploading" => \A i \in done : server[i] # Unknown
  /\ pc \in {"uploading", "marking"} \cup Pulling => journal = {}
  /\ pc \in {"deleting", "uploading", "marking"} \/ (pc = "preparing" /\ at # "idle") =>
       \A c \in Present(mem) : mem[c].id # NoId
  /\ pc = "marking" => \A c \in Present(mem) : ~mem[c].pending

Agreeing ==
  pc \in Pulling =>
    /\ \A i \in todo : server[i] # Unknown
    /\ \A c \in Present(mem) : ~mem[c].pending /\ (mem[c].id \in todo \/ server[mem[c].id] = c)
    /\ \A i \in Ids \ todo : server[i] \in Clips =>
         server[i] \in Present(mem) /\ mem[server[i]].id = i

IInv == TypeOK /\ Writing /\ Fitting /\ Fated /\ Syncing /\ Agreeing
        /\ KeptOnCard /\ NoneComesBack /\ NoTwins

-----------------------------------------------------------------------------
(* The helpers of the actions that change every clipping at once. *)

\* The content with an id for each clipping that had none: nothing else changes.
LEMMA Ided ==
  ASSUME TypeOK, NEW f \in Draws
  PROVE  /\ WithIds(f) \in Content
         /\ \A c \in Unprepared : WithIds(f)[c].id = f[c] /\ WithIds(f)[c].pending = mem[c].pending
         /\ \A c \in Clips \ Unprepared : WithIds(f)[c] = mem[c]
         /\ Present(WithIds(f)) = Present(mem)
         /\ \A c \in Present(mem) : WithIds(f)[c].id # NoId
<1>1. \A c \in Unprepared : c \in Clips /\ mem[c] \in Entry /\ f[c] \in Ids
  BY DEF TypeOK, StoreTypeOK, Content, Unprepared, Present, Draws, Undrawn
<1>2. \A c \in Unprepared : [mem[c] EXCEPT !.id = f[c]] \in Entry
  BY <1>1 DEF Entry
<1>3. \A c \in Unprepared : /\ [mem[c] EXCEPT !.id = f[c]].id = f[c]
                            /\ [mem[c] EXCEPT !.id = f[c]].pending = mem[c].pending
  BY <1>1 DEF Entry
<1>4. \A c \in Clips : WithIds(f)[c] = IF c \in Unprepared THEN [mem[c] EXCEPT !.id = f[c]] ELSE mem[c]
  BY DEF WithIds
<1>5. WithIds(f) \in Content
  BY <1>2 DEF WithIds, Content, TypeOK, StoreTypeOK
<1>6. Present(WithIds(f)) = Present(mem)
  BY <1>2, <1>4, EntryAssumption DEF Present, Unprepared
<1>7. \A c \in Present(mem) : WithIds(f)[c].id # NoId
  BY <1>1, <1>3, <1>4, IdAssumption DEF Present, Unprepared
<1> QED BY <1>1, <1>3, <1>4, <1>5, <1>6, <1>7

\* The new ids were drawn by nobody before, and those drawn before stay as they were.
LEMMA DrawnIds ==
  ASSUME TypeOK, NEW f \in Draws
  PROVE  /\ DrawnWith(f) \in [Ids -> Clips \cup {Unknown}]
         /\ \A c \in Unprepared : f[c] \in Undrawn /\ DrawnWith(f)[f[c]] = c
         /\ \A i \in Ids \ Undrawn : DrawnWith(f)[i] = drawn[i]
         /\ \A i \in Ids : DrawnWith(f)[i] = drawn[i] \/ DrawnWith(f)[i] \in Unprepared
<1>1. Unprepared \subseteq Clips
  BY DEF Unprepared, Present
<1>2. \A c \in Unprepared : f[c] \in Undrawn /\ f[c] \in Ids
  BY DEF Draws, Undrawn
<1>3. \A i \in Ids : IF \E c \in Unprepared : f[c] = i
                    THEN \E c \in Unprepared : f[c] = i /\ DrawnWith(f)[i] = c
                    ELSE DrawnWith(f)[i] = drawn[i]
  BY DEF DrawnWith
<1>4. \A c \in Unprepared : DrawnWith(f)[f[c]] = c
  BY <1>2, <1>3 DEF Draws
<1>5. DrawnWith(f) = [i \in Ids |-> DrawnWith(f)[i]]
  BY DEF DrawnWith
<1>6. \A i \in Ids : DrawnWith(f)[i] \in Clips \cup {Unknown}
  BY <1>1, <1>3 DEF TypeOK
<1> QED BY <1>2, <1>3, <1>4, <1>5, <1>6

\* The content with no clipping pending.
LEMMA Marked ==
  ASSUME TypeOK
  PROVE  /\ Uploaded \in Content
         /\ \A c \in Present(mem) : Uploaded[c].id = mem[c].id /\ ~Uploaded[c].pending
         /\ \A c \in Clips : c \notin Pending => Uploaded[c] = mem[c]
         /\ Present(Uploaded) = Present(mem)
<1>1. \A c \in Present(mem) : mem[c] \in Entry
  BY DEF TypeOK, StoreTypeOK, Content, Present
<1>2. \A c \in Pending : c \in Present(mem) /\ c \in Clips
  BY DEF Pending, Present
<1>3. \A c \in Pending : /\ [mem[c] EXCEPT !.pending = FALSE] \in Entry
                         /\ [mem[c] EXCEPT !.pending = FALSE].id = mem[c].id
                         /\ ~[mem[c] EXCEPT !.pending = FALSE].pending
  BY <1>1, <1>2 DEF Entry
<1>4. \A c \in Clips : Uploaded[c] = IF c \in Pending THEN [mem[c] EXCEPT !.pending = FALSE] ELSE mem[c]
  BY DEF Uploaded
<1>5. Uploaded \in Content
  BY <1>3 DEF Uploaded, Content, TypeOK, StoreTypeOK
<1>6. Present(Uploaded) = Present(mem)
  BY <1>2, <1>3, <1>4, EntryAssumption DEF Present
<1> QED BY <1>1, <1>2, <1>3, <1>4, <1>5, <1>6 DEF Pending, Present

-----------------------------------------------------------------------------
(* One lemma for each action: the nine parts of the invariant survive it. *)

\* The reader opens the book: what is found on the card is kept from then on.
LEMMA KeptOpenBook == ASSUME IInv, OpenBook PROVE IInv'
<1> USE EntryAssumption, FileAssumption, IdAssumption, ServerAssumption
        DEF files, storeVars, syncVars, IInv, OpenBook, loadForBook
<1>1. TypeOK'
  BY DEF TypeOK, StoreTypeOK, Content, Fates, Reading, Pcs, Empty, Recoverable
<1>2. Writing'
  BY DEF Writing, Recoverable
<1>3. Fitting'
  BY DEF Fitting, Contents, Current, Present, Recoverable, Empty
<1>4. Fated'
  BY DEF Fated, KeptOnCard, NoneComesBack
<1>5. Syncing'
  BY DEF Syncing, Pulling
<1>6. Agreeing'
  BY DEF Agreeing, Pulling
<1>7. KeptOnCard' /\ NoneComesBack'
  BY DEF Recoverable, KeptOnCard, NoneComesBack
<1>8. NoTwins'
  BY DEF NoTwins
<1> QED BY <1>1, <1>2, <1>3, <1>4, <1>5, <1>6, <1>7, <1>8 DEF IInv

\* The reader leaves the book, with what a failed save left written once more.
LEMMA KeptCloseBook == ASSUME IInv, CloseBook PROVE IInv'
<1> USE EntryAssumption, FileAssumption, IdAssumption, ServerAssumption
        DEF files, storeVars, syncVars, IInv, CloseBook, Unload, Unloaded
<1>1. TypeOK'
  BY DEF TypeOK, StoreTypeOK, Content, Pcs, Empty, Write
<1>2. Writing'
  BY DEF Writing, Recoverable, Write
<1>3. Fitting'
  BY DEF Fitting, Contents, Current, Present, Recoverable, Empty
<1>4. Fated'
  BY DEF Fated, Present, Empty
<1>5. Syncing'
  BY DEF Syncing, Pulling
<1>6. Agreeing'
  BY DEF Agreeing, Pulling
<1>7. KeptOnCard' /\ NoneComesBack'
  BY DEF Recoverable, KeptOnCard, NoneComesBack
<1>8. NoTwins'
  BY DEF NoTwins
<1> QED BY <1>1, <1>2, <1>3, <1>4, <1>5, <1>6, <1>7, <1>8 DEF IInv

\* The write of an addition or a removal has ended: it stands, or is undone.
LEMMA KeptChangeEnds == ASSUME IInv, ChangeEnds PROVE IInv'
<1> USE EntryAssumption, FileAssumption, IdAssumption, ServerAssumption
        DEF files, storeVars, syncVars, IInv, ChangeEnds, Saved, Undone
<1>1. TypeOK'
  BY DEF TypeOK, StoreTypeOK, Entry, Fates, Reading, Pcs, Recoverable, Syncing, Settled,
    Restored
<1>2. Writing'
  BY DEF TypeOK, StoreTypeOK, Writing, Recoverable
<1>3. Fitting'
  BY DEF Fitting, Contents, Current, Present, Recoverable, Settled, Restored
<1>4. Fated'
  BY DEF TypeOK, StoreTypeOK, Writing, Fated, Present, KeptOnCard, NoneComesBack, Fates,
    Settled, Restored
<1>5. Syncing'
  BY DEF Syncing, Pulling
<1>6. Agreeing'
  BY DEF Agreeing, Pulling
<1>7. KeptOnCard' /\ NoneComesBack'
  BY DEF TypeOK, StoreTypeOK, Writing, Recoverable, KeptOnCard, NoneComesBack, Settled, Restored
<1>8. NoTwins'
  BY DEF NoTwins
<1> QED BY <1>1, <1>2, <1>3, <1>4, <1>5, <1>6, <1>7, <1>8 DEF IInv

\* The last save of an unload has ended, whatever came of it.
LEMMA KeptUnloadEnds == ASSUME IInv, UnloadEnds PROVE IInv'
<1> USE EntryAssumption, FileAssumption, IdAssumption, ServerAssumption
        DEF files, storeVars, syncVars, IInv, UnloadEnds, Unloaded
<1>1. TypeOK'
  BY DEF TypeOK, StoreTypeOK, Content, Pcs, Empty
<1>2. Writing'
  BY DEF Writing
<1>3. Fitting'
  BY DEF Fitting, Contents, Current, Present, Recoverable, Empty
<1>4. Fated'
  BY DEF Fated, Present, Empty
<1>5. Syncing'
  BY DEF Syncing, Pulling
<1>6. Agreeing'
  BY DEF Agreeing, Pulling
<1>7. KeptOnCard' /\ NoneComesBack'
  BY DEF Recoverable, KeptOnCard, NoneComesBack
<1>8. NoTwins'
  BY DEF NoTwins
<1> QED BY <1>1, <1>2, <1>3, <1>4, <1>5, <1>6, <1>7, <1>8 DEF IInv

\* A clipping is added in memory: it is new, so no content and no id knows it.
LEMMA KeptAdd == ASSUME IInv, NEW c \in Clips, Add(c) PROVE IInv'
<1> USE EntryAssumption, FileAssumption, IdAssumption, ServerAssumption
        DEF files, storeVars, syncVars, IInv, Add, addClipping
<1>1. TypeOK'
  BY DEF TypeOK, StoreTypeOK, Content, Entry, Fates, Reading, Pcs, Write
<1>2. Writing'
  BY DEF Writing, Recoverable, Write
<1>3. Fitting'
  BY DEF TypeOK, StoreTypeOK, Content, Fitting, Contents, Current, Present, Recoverable, New
<1>4. Fated'
  <2>1. /\ pc = "reading" /\ at = "idle" /\ before = mem /\ fate[c] = "unmade" /\ journal' = journal
        /\ server' = server /\ before' = mem /\ pc' = "adding" /\ fate' = [fate EXCEPT ![c] = "open"]
        /\ mem' = [mem EXCEPT ![c] = [id |-> NoId, pending |-> TRUE]] /\ TypeOK /\ \A i \in Ids : drawn[i] # c
    BY DEF Add, addClipping, New, IInv, Writing
  <2>2. [id |-> NoId, pending |-> TRUE] \in Entry
    BY DEF Entry
  <2>3. Present(mem') = Present(mem) \cup {c} /\ c \notin Present(mem)
    <3>1. mem'[c] \in Entry /\ \A d \in Clips \ {c} : mem'[d] = mem[d]
      BY <2>1, <2>2 DEF TypeOK, StoreTypeOK, Content
    <3> QED BY <2>1, <3>1 DEF Present, IInv, Fated
  <2>4. \A i \in Ids : server[i] # c
    BY <2>1 DEF IInv, Fitting
  <2> QED BY <2>1, <2>3, <2>4 DEF IInv, Fated, TypeOK, StoreTypeOK
<1>5. Syncing'
  BY DEF Syncing, Pulling
<1>6. Agreeing'
  BY DEF Agreeing, Pulling
<1>7. KeptOnCard' /\ NoneComesBack'
  BY DEF Recoverable, KeptOnCard, NoneComesBack
<1>8. NoTwins'
  BY DEF NoTwins
<1> QED BY <1>1, <1>2, <1>3, <1>4, <1>5, <1>6, <1>7, <1>8 DEF IInv

\* A clipping is removed in memory, its id being in the journal by then.
LEMMA KeptRemove == ASSUME IInv, NEW c \in Clips, Remove(c) PROVE IInv'
<1> USE EntryAssumption, FileAssumption, IdAssumption, ServerAssumption
        DEF files, storeVars, syncVars, IInv, Remove, removeClippingAt
<1>1. TypeOK'
  BY DEF TypeOK, StoreTypeOK, Content, Entry, Fates, Reading, Pcs, Present, Write
<1>2. Writing'
  BY DEF Writing, Recoverable, Write
<1>3. Fitting'
  BY DEF TypeOK, StoreTypeOK, Content, Fitting, Contents, Current, Present, Recoverable
<1>4. Fated'
  BY DEF TypeOK, StoreTypeOK, Content, Writing, Fitting, Contents, Current, Fated, Present
<1>5. Syncing'
  BY DEF Syncing, Pulling
<1>6. Agreeing'
  BY DEF Agreeing, Pulling
<1>7. KeptOnCard' /\ NoneComesBack'
  BY DEF Recoverable, KeptOnCard, NoneComesBack
<1>8. NoTwins'
  BY DEF NoTwins
<1> QED BY <1>1, <1>2, <1>3, <1>4, <1>5, <1>6, <1>7, <1>8 DEF IInv

\* Another device adds a clipping of its own, under an id nobody had drawn.
LEMMA KeptOtherDeviceAdds == ASSUME IInv, NEW c \in Clips, OtherDeviceAdds(c) PROVE IInv'
<1> USE EntryAssumption, FileAssumption, IdAssumption, ServerAssumption
        DEF files, storeVars, syncVars, IInv, OtherDeviceAdds
<1>1. TypeOK'
  BY DEF TypeOK, StoreTypeOK, Undrawn, Changed
<1>2. Writing'
  BY DEF Writing, Recoverable
<1>3. Fitting'
  BY DEF TypeOK, StoreTypeOK, Content, Entry, Writing, Fitting, Contents, Current, Present,
    Recoverable, New, Undrawn
<1>4. Fated'
  BY DEF Fated, New
<1>5. Syncing'
  BY DEF Fitting, Contents, Current, Syncing, Undrawn
<1>6. Agreeing'
  BY DEF TypeOK, StoreTypeOK, Agreeing, Undrawn, Changed
<1>7. KeptOnCard' /\ NoneComesBack'
  BY DEF Recoverable, KeptOnCard, NoneComesBack
<1>8. NoTwins'
  BY DEF NoTwins, Fitting, Current, New
<1> QED BY <1>1, <1>2, <1>3, <1>4, <1>5, <1>6, <1>7, <1>8 DEF IInv

\* Another device deletes a clipping, which brings nothing back.
LEMMA KeptOtherDeviceDeletes == ASSUME IInv, NEW i \in Ids, OtherDeviceDeletes(i) PROVE IInv'
<1> USE EntryAssumption, FileAssumption, IdAssumption, ServerAssumption
        DEF files, storeVars, syncVars, IInv, OtherDeviceDeletes
<1>1. TypeOK'
  BY DEF TypeOK, StoreTypeOK, Changed
<1>2. Writing'
  BY DEF Writing, Recoverable
<1>3. Fitting'
  BY DEF Fitting, Contents, Current, Present, Recoverable
<1>4. Fated'
  BY DEF Fated
<1>5. Syncing'
  BY DEF Syncing
<1>6. Agreeing'
  BY DEF Agreeing, Changed
<1>7. KeptOnCard' /\ NoneComesBack'
  BY DEF Recoverable, KeptOnCard, NoneComesBack
<1>8. NoTwins'
  BY DEF NoTwins
<1> QED BY <1>1, <1>2, <1>3, <1>4, <1>5, <1>6, <1>7, <1>8 DEF IInv

\* A sync loads the book as the reader does.
LEMMA KeptStartSync == ASSUME IInv, StartSync PROVE IInv'
<1> USE EntryAssumption, FileAssumption, IdAssumption, ServerAssumption
        DEF files, storeVars, syncVars, IInv, StartSync, loadForBook
<1>1. TypeOK'
  BY DEF TypeOK, StoreTypeOK, Content, Fates, Pcs, Empty, Recoverable
<1>2. Writing'
  BY DEF Writing, Recoverable
<1>3. Fitting'
  BY DEF Fitting, Contents, Current, Present, Recoverable, Empty
<1>4. Fated'
  BY DEF Fated, KeptOnCard, NoneComesBack
<1>5. Syncing'
  BY DEF Syncing, Pulling
<1>6. Agreeing'
  BY DEF Agreeing, Pulling
<1>7. KeptOnCard' /\ NoneComesBack'
  BY DEF Recoverable, KeptOnCard, NoneComesBack
<1>8. NoTwins'
  BY DEF NoTwins
<1> QED BY <1>1, <1>2, <1>3, <1>4, <1>5, <1>6, <1>7, <1>8 DEF IInv

\* A sync gives up between two requests.
LEMMA KeptGiveUp == ASSUME IInv, GiveUp PROVE IInv'
<1> USE EntryAssumption, FileAssumption, IdAssumption, ServerAssumption
        DEF files, storeVars, syncVars, IInv, GiveUp, Unload, Unloaded
<1>1. TypeOK'
  BY DEF TypeOK, StoreTypeOK, Content, Pcs, Empty, Write
<1>2. Writing'
  BY DEF Writing, Recoverable, Write
<1>3. Fitting'
  BY DEF Fitting, Contents, Current, Present, Recoverable, Empty
<1>4. Fated'
  BY DEF Fated, Present, Empty
<1>5. Syncing'
  BY DEF Syncing, Pulling
<1>6. Agreeing'
  BY DEF Agreeing, Pulling
<1>7. KeptOnCard' /\ NoneComesBack'
  BY DEF Recoverable, KeptOnCard, NoneComesBack
<1>8. NoTwins'
  BY DEF NoTwins
<1> QED BY <1>1, <1>2, <1>3, <1>4, <1>5, <1>6, <1>7, <1>8 DEF IInv

\* The server answers the probe.
LEMMA KeptProbe == ASSUME IInv, Probe PROVE IInv'
<1> USE EntryAssumption, FileAssumption, IdAssumption, ServerAssumption
        DEF files, storeVars, syncVars, IInv, Probe
<1>1. TypeOK'
  BY DEF TypeOK, StoreTypeOK, Pcs
<1>2. Writing'
  BY DEF Writing, Recoverable
<1>3. Fitting'
  BY DEF Fitting, Contents, Current, Recoverable
<1>4. Fated'
  BY DEF Fated
<1>5. Syncing'
  BY DEF Writing, Syncing, Pulling
<1>6. Agreeing'
  BY DEF Agreeing, Pulling
<1>7. KeptOnCard' /\ NoneComesBack'
  BY DEF Recoverable, KeptOnCard, NoneComesBack
<1>8. NoTwins'
  BY DEF NoTwins
<1> QED BY <1>1, <1>2, <1>3, <1>4, <1>5, <1>6, <1>7, <1>8 DEF IInv

\* Ids are drawn for the clippings that have none: every part but the types looks only at
\* clippings with an id, or at ids that were drawn.
LEMMA KeptprepareSync == ASSUME IInv, prepareSync PROVE IInv'
<1> USE EntryAssumption, FileAssumption, IdAssumption, ServerAssumption
<1>0. pc = "preparing" /\ at = "idle" /\ UNCHANGED <<store, bak, journal, fate, server, done, todo, more>>
      /\ mem = before
  BY DEF prepareSync, IInv, Writing, files, storeVars
<1>1. CASE Unprepared = {} /\ pc' = "deleting" /\ UNCHANGED <<storeVars, drawn>>
  <2>1. UNCHANGED <<mem, before, dirty, at, drawn>>
    BY <1>1 DEF storeVars
  <2>2. TypeOK' /\ Agreeing' /\ KeptOnCard' /\ NoneComesBack' /\ NoTwins'
    BY <1>0, <1>1, <2>1 DEF IInv, TypeOK, StoreTypeOK, Pcs, Agreeing, Pulling, KeptOnCard,
                            NoneComesBack, NoTwins, Recoverable, Present
  <2>3. Writing'
    <3>1. mem = Recoverable
      BY <1>0 DEF IInv, Writing
    <3> QED BY <1>0, <1>1, <2>1, <3>1 DEF IInv, Writing, Recoverable, Present
  <2>4. Fated' /\ Fitting'
    BY <1>0, <1>1, <2>1 DEF IInv, Fated, Fitting, Contents, Current, Recoverable, Present
  <2>5. Syncing'
    BY <1>0, <1>1, <2>1 DEF IInv, Syncing, Pulling, Unprepared, Present
  <2> QED BY <2>2, <2>3, <2>4, <2>5 DEF IInv
<1>2. CASE at' = "begin" /\ dirty' = TRUE /\ pc' = pc /\ before' = mem'
           /\ \E f \in Draws : mem' = WithIds(f) /\ drawn' = DrawnWith(f)
  <2>1. PICK f \in Draws : mem' = WithIds(f) /\ drawn' = DrawnWith(f)
    BY <1>2
  <2>2. TypeOK
    BY DEF IInv
  <2>3. /\ mem' \in Content
        /\ \A c \in Unprepared : mem'[c].id = f[c] /\ mem'[c].pending = mem[c].pending
        /\ \A c \in Clips \ Unprepared : mem'[c] = mem[c]
        /\ Present(mem') = Present(mem)
        /\ \A c \in Present(mem) : mem'[c].id # NoId
    BY <2>1, <2>2, Ided
  <2>4. /\ drawn' \in [Ids -> Clips \cup {Unknown}]
        /\ \A c \in Unprepared : f[c] \in Undrawn /\ drawn'[f[c]] = c
        /\ \A i \in Ids \ Undrawn : drawn'[i] = drawn[i]
        /\ \A i \in Ids : drawn'[i] = drawn[i] \/ drawn'[i] \in Unprepared
    BY <2>1, <2>2, DrawnIds
  <2>5. Recoverable' = Recoverable
    BY <1>0 DEF Recoverable
  <2>6. TypeOK'
    BY <1>0, <1>2, <2>2, <2>3, <2>4 DEF TypeOK, StoreTypeOK
  <2>7. Writing'
    BY <1>0, <1>2, <2>3, <2>5 DEF IInv, Writing, Present
  <2>8. Fitting'
    <3>0. \A i \in journal : drawn'[i] # Unknown
      BY <2>2, <2>4 DEF IInv, Fitting, Undrawn, TypeOK, StoreTypeOK
    <3>1. \A i \in Ids : drawn'[i] = Unknown => server'[i] = Unknown
      BY <1>0, <2>4 DEF IInv, Fitting, Undrawn
    <3>2. \A i \in Ids : server'[i] \in Clips => drawn'[i] = server'[i]
      BY <1>0, <2>4 DEF IInv, Fitting, Undrawn
    <3>3. \A x \in {store, bak} \ {None} : \A c \in Present(x) :
            /\ x[c].id # NoId => drawn'[x[c].id] = c
            /\ ~x[c].pending => x[c].id # NoId /\ server[x[c].id] # Unknown
      <4> SUFFICES ASSUME NEW x \in {store, bak} \ {None}, NEW c \in Present(x)
                   PROVE  /\ x[c].id # NoId => drawn'[x[c].id] = c
                          /\ ~x[c].pending => x[c].id # NoId /\ server[x[c].id] # Unknown
        OBVIOUS
      <4>1. x \in Content /\ c \in Clips /\ x[c] \in Entry
        BY <2>2 DEF TypeOK, StoreTypeOK, Content, Present
      <4>2. x[c].id \in Ids \cup {NoId}
        BY <4>1 DEF Entry
      <4>3. x[c].id # NoId => drawn[x[c].id] = c
        BY DEF IInv, Fitting, Contents
      <4> QED BY <4>1, <4>2, <4>3, <2>4 DEF IInv, Fitting, Contents, Undrawn
    <3>4. \A c \in Present(mem) :
            /\ mem'[c].id # NoId => drawn'[mem'[c].id] = c
            /\ ~mem'[c].pending => mem'[c].id # NoId /\ server[mem'[c].id] # Unknown
            /\ \A i \in Ids : server[i] = c => mem'[c].id = i
            /\ mem'[c].id # NoId
      <4> SUFFICES ASSUME NEW c \in Present(mem)
                   PROVE  /\ mem'[c].id # NoId => drawn'[mem'[c].id] = c
                          /\ ~mem'[c].pending => mem'[c].id # NoId /\ server[mem'[c].id] # Unknown
                          /\ \A i \in Ids : server[i] = c => mem'[c].id = i
        BY <2>3
      <4>1. /\ c \in Clips /\ mem[c].id \in Ids \cup {NoId}
            /\ mem[c].id # NoId => drawn[mem[c].id] = c
            /\ ~mem[c].pending => mem[c].id # NoId /\ server[mem[c].id] # Unknown
            /\ \A i \in Ids : server[i] = c => mem[c].id = i
        BY <2>2 DEF TypeOK, StoreTypeOK, Content, Entry, Present, IInv, Fitting, Contents, Current
      <4>2. CASE c \in Unprepared
        BY <2>3, <2>4, <4>1, <4>2 DEF Unprepared
      <4>3. CASE c \notin Unprepared
        BY <2>3, <2>4, <4>1, <4>3 DEF Unprepared, Undrawn
      <4> QED BY <4>2, <4>3
    <3>5. \A c \in Present(Recoverable) :
            /\ \A i \in Ids : server[i] = c => Recoverable[c].id = i
            /\ fate[c] = "unmade" => Recoverable[c].id # NoId
      BY DEF IInv, Fitting, Current
    <3> QED BY <1>0, <1>2, <2>3, <2>5, <3>0, <3>1, <3>2, <3>3, <3>4, <3>5 DEF Fitting, Contents, Current, Present
  <2>9. Fated'
    BY <1>0, <1>2, <2>3 DEF IInv, Fated, Writing
  <2>10. Syncing' /\ Agreeing'
    BY <1>0, <1>2, <2>3 DEF IInv, Syncing, Agreeing, Pulling
  <2>11. KeptOnCard' /\ NoneComesBack' /\ NoTwins'
    BY <1>0, <2>5 DEF IInv, KeptOnCard, NoneComesBack, NoTwins, Present
  <2> QED BY <2>6, <2>7, <2>8, <2>9, <2>10, <2>11 DEF IInv
<1> QED BY <1>1, <1>2 DEF prepareSync, Write

\* The new ids are on the card, or the sync has failed.
LEMMA KeptPrepared == ASSUME IInv, Prepared PROVE IInv'
<1> USE EntryAssumption, FileAssumption, IdAssumption, ServerAssumption
        DEF files, storeVars, syncVars, IInv, Prepared, Saved, LeftDirty
<1>1. TypeOK'
  BY DEF TypeOK, StoreTypeOK, Fates, Pcs, Settled
<1>2. Writing'
  BY DEF TypeOK, StoreTypeOK, Writing, Recoverable
<1>3. Fitting'
  BY DEF Fitting, Contents, Current, Present, Recoverable, Settled
<1>4. Fated'
  BY DEF Writing, Fated, Settled
<1>5. Syncing'
  BY DEF Syncing, Pulling
<1>6. Agreeing'
  BY DEF Agreeing, Pulling
<1>7. KeptOnCard' /\ NoneComesBack'
  BY DEF Writing, Recoverable, KeptOnCard, NoneComesBack, Settled
<1>8. NoTwins'
  BY DEF NoTwins
<1> QED BY <1>1, <1>2, <1>3, <1>4, <1>5, <1>6, <1>7, <1>8 DEF IInv

\* A deletion is sent; its answer may be lost. A clipping it could bring back is gone.
LEMMA KeptSendDeletion == ASSUME IInv, NEW i \in Ids, SendDeletion(i) PROVE IInv'
<1> USE EntryAssumption, FileAssumption, IdAssumption, ServerAssumption
        DEF files, storeVars, syncVars, IInv, SendDeletion, Unload, Unloaded
<1>1. TypeOK'
  BY DEF TypeOK, StoreTypeOK, Content, Pcs, Empty, Write
<1>2. Writing'
  BY DEF Writing, Recoverable, Write
<1>3. Fitting'
  BY DEF Fitting, Contents, Current, Present, Recoverable, NextDeletions, Empty
<1>4. Fated'
  BY DEF Fated, Present, Empty
<1>5. Syncing'
  BY DEF TypeOK, StoreTypeOK, Syncing, Pulling
<1>6. Agreeing'
  BY DEF Agreeing, Pulling
<1>7. KeptOnCard' /\ NoneComesBack'
  BY DEF Recoverable, KeptOnCard, NoneComesBack
<1>8. NoTwins'
  BY DEF NoTwins
<1> QED BY <1>1, <1>2, <1>3, <1>4, <1>5, <1>6, <1>7, <1>8 DEF IInv

\* The journal goes when the server has every deletion in it: no clipping that is gone is
\* left there under an id of the journal.
LEMMA KeptfinishDeletions == ASSUME IInv, finishDeletions PROVE IInv'
<1> USE EntryAssumption, FileAssumption, IdAssumption, ServerAssumption
        DEF files, storeVars, syncVars, IInv, finishDeletions
<1>1. TypeOK'
  BY DEF TypeOK, StoreTypeOK, Pcs
<1>2. Writing'
  BY DEF Writing, Recoverable
<1>3. Fitting'
  BY DEF Fitting, Contents, Current, Recoverable
<1>4. Fated'
  BY DEF TypeOK, StoreTypeOK, Writing, Fitting, Contents, Current, Fated, Syncing,
    NextDeletions, IdsOf
<1>5. Syncing'
  BY DEF Syncing
<1>6. Agreeing'
  BY DEF Agreeing, Pulling
<1>7. KeptOnCard' /\ NoneComesBack'
  BY DEF Recoverable, KeptOnCard, NoneComesBack
<1>8. NoTwins'
  BY DEF NoTwins
<1> QED BY <1>1, <1>2, <1>3, <1>4, <1>5, <1>6, <1>7, <1>8 DEF IInv

\* A clipping is uploaded under its own id, so it has no twin; the answer may be lost.
LEMMA KeptSendUpload == ASSUME IInv, NEW c \in Clips, SendUpload(c) PROVE IInv'
<1> USE EntryAssumption, FileAssumption, IdAssumption, ServerAssumption
        DEF files, storeVars, syncVars, IInv, SendUpload, Unload, Unloaded
<1>1. TypeOK'
  BY DEF TypeOK, StoreTypeOK, Content, Entry, Reading, Pulling, Pcs, Empty, Recoverable,
    Syncing, Present, Pending, Write
<1>2. Writing'
  BY DEF Writing, Recoverable, Write
<1>3. Fitting'
  BY DEF Writing, Fitting, Contents, Current, Present, Recoverable, Pending, Empty
<1>4. Fated'
  BY DEF Writing, Fated, Present, Pending, Empty
<1>5. Syncing'
  BY DEF TypeOK, StoreTypeOK, Content, Entry, Present, Syncing, Pending
<1>6. Agreeing'
  BY DEF Agreeing, Pulling
<1>7. KeptOnCard' /\ NoneComesBack'
  BY DEF Recoverable, KeptOnCard, NoneComesBack
<1>8. NoTwins'
  BY DEF NoTwins, Fitting, Current, Pending
<1> QED BY <1>1, <1>2, <1>3, <1>4, <1>5, <1>6, <1>7, <1>8 DEF IInv

\* What the server has acknowledged is no longer pending.
LEMMA KeptfinishUploads == ASSUME IInv, finishUploads PROVE IInv'
<1> USE EntryAssumption, FileAssumption, IdAssumption, ServerAssumption
<1>0. /\ pc = "uploading" /\ at = "idle" /\ mem = before /\ mem = Recoverable
      /\ \A c \in Pending : mem[c].id \in done
      /\ done' = {} /\ UNCHANGED <<server, drawn, store, bak, journal, fate>>
      /\ Recoverable' = Recoverable /\ journal = {} /\ TypeOK
  BY DEF finishUploads, IInv, Writing, Syncing, files, storeVars, Recoverable
<1>1. \A c \in Present(mem) : mem[c].id \in Ids /\ server[mem[c].id] # Unknown
  <2>1. \A c \in Present(mem) : mem[c].id \in Ids
    BY <1>0 DEF TypeOK, StoreTypeOK, Content, Entry, Present, IInv, Syncing
  <2>2. \A c \in Present(mem) : ~mem[c].pending => server[mem[c].id] # Unknown
    BY DEF IInv, Fitting, Contents, TypeOK, StoreTypeOK
  <2>3. \A c \in Pending : server[mem[c].id] # Unknown
    BY <1>0 DEF IInv, Syncing
  <2> QED BY <2>1, <2>2, <2>3 DEF Pending
<1>2. CASE Pending = {} /\ StartPull /\ UNCHANGED storeVars
  <2>1. UNCHANGED <<mem, before, dirty, at>> /\ pc' = "pulling"
        /\ todo' = {i \in Ids : server[i] # Unknown} /\ more' = TRUE
    BY <1>2 DEF storeVars, StartPull
  <2>2. TypeOK' /\ NoTwins' /\ KeptOnCard' /\ NoneComesBack'
    BY <1>0, <2>1 DEF IInv, TypeOK, StoreTypeOK, Pcs, Pulling, KeptOnCard, NoneComesBack, NoTwins, Present
  <2>3. Writing' /\ Fated' /\ Syncing'
    BY <1>0, <2>1 DEF IInv, Writing, Fated, Syncing, Pulling, Present
  <2>4. Fitting'
    <3>1. Contents' = Contents /\ Current' = Current
      BY <1>0, <2>1 DEF Contents, Current
    <3> QED BY <1>0, <3>1 DEF IInv, Fitting, Present
  <2>5. Agreeing'
    BY <1>0, <1>1, <1>2, <2>1 DEF Agreeing, Pending, Present
  <2> QED BY <2>2, <2>3, <2>4, <2>5 DEF IInv
<1>3. CASE /\ pc' = "marking" /\ at' = "begin" /\ dirty' = TRUE /\ mem' = Uploaded /\ before' = mem'
           /\ UNCHANGED <<todo, more>>
  <2>1. /\ mem' \in Content
        /\ \A c \in Present(mem) : mem'[c].id = mem[c].id /\ ~mem'[c].pending
        /\ \A c \in Clips : c \notin Pending => mem'[c] = mem[c]
        /\ Present(mem') = Present(mem)
    BY <1>0, <1>3, Marked
  <2>2. TypeOK'
    BY <1>0, <1>3, <2>1 DEF TypeOK, StoreTypeOK, Pcs
  <2>3. Writing'
    BY <1>0, <1>3, <2>1 DEF Writing, Present
  <2>4. Fitting'
    <3>1. \A c \in Present(mem) :
            /\ mem'[c].id # NoId => drawn[mem'[c].id] = c
            /\ mem'[c].id # NoId /\ server[mem'[c].id] # Unknown
            /\ \A i \in Ids : server[i] = c => mem'[c].id = i
      BY <1>0, <1>1, <2>1 DEF IInv, Fitting, Contents, Current, TypeOK, StoreTypeOK
    <3> QED BY <1>0, <1>3, <2>1, <3>1 DEF IInv, Fitting, Contents, Current, Present
  <2>5. Fated'
    BY <1>0, <1>3, <2>1 DEF IInv, Fated
  <2>6. Syncing' /\ Agreeing'
    BY <1>0, <1>1, <1>3, <2>1 DEF Syncing, Agreeing, Pulling
  <2>7. KeptOnCard' /\ NoneComesBack' /\ NoTwins'
    BY <1>0 DEF IInv, KeptOnCard, NoneComesBack, NoTwins, Present
  <2> QED BY <2>2, <2>3, <2>4, <2>5, <2>6, <2>7 DEF IInv
<1> QED BY <1>2, <1>3 DEF finishUploads, Write

\* The marks are on the card, and every entry of the server is still to be read.
LEMMA KeptUploadsMarked == ASSUME IInv, UploadsMarked PROVE IInv'
<1> USE EntryAssumption, FileAssumption, IdAssumption, ServerAssumption
        DEF files, storeVars, syncVars, IInv, UploadsMarked, Saved, LeftDirty
<1>1. TypeOK'
  BY DEF TypeOK, StoreTypeOK, Fates, Pulling, Pcs, Settled, StartPull
<1>2. Writing'
  BY DEF TypeOK, StoreTypeOK, Writing, Recoverable, StartPull
<1>3. Fitting'
  BY DEF Fitting, Contents, Current, Present, Recoverable, Settled
<1>4. Fated'
  BY DEF Writing, Fated, Settled
<1>5. Syncing'
  BY DEF Syncing
<1>6. Agreeing'
  BY DEF TypeOK, StoreTypeOK, Content, Entry, Fitting, Contents, Current, Present, Syncing,
    Agreeing, Pulling, StartPull
<1>7. KeptOnCard' /\ NoneComesBack'
  BY DEF Writing, Recoverable, KeptOnCard, NoneComesBack, Settled
<1>8. NoTwins'
  BY DEF NoTwins
<1> QED BY <1>1, <1>2, <1>3, <1>4, <1>5, <1>6, <1>7, <1>8 DEF IInv

\* One entry of the server is applied: either nothing changes or a write begins.
LEMMA KeptPage == ASSUME IInv, NEW i \in Ids, Page(i) PROVE IInv'
<1> USE EntryAssumption, FileAssumption, IdAssumption, ServerAssumption
<1>0. /\ pc = "pulling" /\ i \in todo /\ at = "idle" /\ mem = before /\ mem = Recoverable
      /\ todo' = todo \ {i} /\ mem' = Applied(i) /\ before' = mem
      /\ UNCHANGED <<server, drawn, done, store, bak, journal, dirty>>
      /\ Recoverable' = Recoverable /\ journal = {} /\ server[i] # Unknown /\ TypeOK
  BY DEF Page, applyRemote, IInv, Writing, Syncing, Agreeing, files, Recoverable, Pulling, TypeOK, StoreTypeOK
<1>1. \A c \in Present(mem) :
        /\ c \in Clips /\ mem[c] \in Entry /\ ~mem[c].pending /\ mem[c].id \in Ids
        /\ drawn[mem[c].id] = c /\ server[mem[c].id] # Unknown
        /\ mem[c].id \in todo \/ server[mem[c].id] = c
        /\ \A j \in Ids : server[j] = c => mem[c].id = j
  BY <1>0 DEF IInv, Fitting, Contents, Current, Agreeing, Pulling, TypeOK, StoreTypeOK, Content, Entry, Present
<1>2. \A j \in Ids \ todo : server[j] \in Clips => server[j] \in Present(mem) /\ mem[server[j]].id = j
  BY <1>0 DEF IInv, Agreeing, Pulling
<1>3. /\ mem' \in Content
      /\ \A c \in Present(mem') :
           /\ c \in Clips /\ ~mem'[c].pending /\ mem'[c].id \in Ids
           /\ drawn[mem'[c].id] = c /\ server[mem'[c].id] # Unknown
           /\ mem'[c].id \in todo' \/ server[mem'[c].id] = c
           /\ \A j \in Ids : server[j] = c => mem'[c].id = j
      /\ \A j \in Ids \ todo' : server[j] \in Clips => server[j] \in Present(mem') /\ mem'[server[j]].id = j
      /\ \A c \in Clips : /\ c \in Present(mem) /\ c \notin Present(mem') => \A j \in Ids : server[j] # c
                          /\ c \notin Present(mem) /\ c \in Present(mem') => server[i] = c
  <2>1. CASE server[i] = Deleted
    <3>1. mem' = [c \in Clips |-> IF c \in Present(mem) /\ mem[c].id = i THEN NotThere ELSE mem[c]]
      BY <1>0, <2>1 DEF Applied
    <3>2. mem' \in Content
      BY <1>0, <3>1 DEF TypeOK, StoreTypeOK, Content
    <3>3. \A c \in Clips : mem'[c] = IF c \in Present(mem) /\ mem[c].id = i THEN NotThere ELSE mem[c]
      BY <3>1
    <3>4. Present(mem') = {c \in Present(mem) : mem[c].id # i}
      BY <1>1, <3>3 DEF Present
    <3> QED BY <1>0, <1>1, <1>2, <2>1, <3>2, <3>3, <3>4 DEF Present
  <2>2. CASE server[i] # Deleted
    <3> DEFINE d == server[i]
    <3>1. d \in Clips /\ drawn[i] = d /\ mem' = [mem EXCEPT ![d] = [id |-> i, pending |-> FALSE]]
      BY <1>0, <2>2 DEF Applied, TypeOK, IInv, Fitting
    <3>2. [id |-> i, pending |-> FALSE] \in Entry
      BY DEF Entry
    <3>3. /\ mem' \in Content /\ mem'[d] = [id |-> i, pending |-> FALSE]
          /\ \A c \in Clips \ {d} : mem'[c] = mem[c]
          /\ Present(mem') = Present(mem) \cup {d}
      <4>1. /\ mem' \in Content /\ mem'[d] = [id |-> i, pending |-> FALSE]
            /\ \A c \in Clips \ {d} : mem'[c] = mem[c]
        BY <1>0, <3>1, <3>2 DEF TypeOK, StoreTypeOK, Content
      <4> QED BY <3>1, <3>2, <4>1 DEF Present
    <3>4. mem'[d].id = i /\ ~mem'[d].pending
      BY <3>3
    <3>5. \A j \in Ids : server[j] = d => j = i
      BY <3>1 DEF IInv, NoTwins
    <3>6. \A c \in Present(mem) : c # d => mem[c].id # i
      BY <1>1, <3>1
    <3> HIDE DEF d
    <3>7. \A c \in Present(mem') :
           /\ c \in Clips /\ ~mem'[c].pending /\ mem'[c].id \in Ids
           /\ drawn[mem'[c].id] = c /\ server[mem'[c].id] # Unknown
           /\ mem'[c].id \in todo' \/ server[mem'[c].id] = c
           /\ \A j \in Ids : server[j] = c => mem'[c].id = j
      <4>1. d = server[i]
        BY DEF d
      <4> SUFFICES ASSUME NEW c \in Present(mem')
                   PROVE  /\ c \in Clips /\ ~mem'[c].pending /\ mem'[c].id \in Ids
                          /\ drawn[mem'[c].id] = c /\ server[mem'[c].id] # Unknown
                          /\ mem'[c].id \in todo' \/ server[mem'[c].id] = c
                          /\ \A j \in Ids : server[j] = c => mem'[c].id = j
        OBVIOUS
      <4>2. CASE c = d
        BY <1>0, <3>1, <3>4, <3>5, <4>1, <4>2
      <4>3. CASE c # d
        BY <1>0, <1>1, <3>3, <3>6, <4>3
      <4> QED BY <4>2, <4>3
    <3>8. \A j \in Ids \ todo' : server[j] \in Clips =>
            server[j] \in Present(mem') /\ mem'[server[j]].id = j
      BY <1>0, <1>2, <3>3, <3>4, <3>5 DEF d
    <3>9. \A c \in Clips : /\ c \in Present(mem) => c \in Present(mem')
                           /\ c \notin Present(mem) /\ c \in Present(mem') => server[i] = c
      BY <3>3 DEF d
    <3> QED BY <3>3, <3>7, <3>8, <3>9
  <2> QED BY <2>1, <2>2
<1>4. \/ UNCHANGED <<at, fate>> /\ mem' = mem /\ pc' \in {"pulling", "agreed"}
      \/ /\ at' = "begin" /\ pc' = "applying"
         /\ fate' = [c \in Clips |-> IF mem'[c] = NotThere /\ mem[c] # NotThere THEN "open" ELSE fate[c]]
  BY DEF Page, applyRemote, NextPage, Write
<1>5. \A c \in Clips : fate'[c] = IF c \in Present(mem) /\ c \notin Present(mem') THEN "open" ELSE fate[c]
  BY <1>0, <1>4 DEF Present, TypeOK, StoreTypeOK
<1>6. more' \in BOOLEAN /\ fate' \in [Clips -> Fates]
  BY <1>0, <1>4 DEF Page, TypeOK, StoreTypeOK, Fates
<1>7. TypeOK'
  BY <1>0, <1>3, <1>4, <1>6 DEF TypeOK, StoreTypeOK, Pcs, Pulling
<1>8. Writing'
  BY <1>0, <1>4 DEF Writing, Present, IInv
<1>9. Fated'
  <2>1. \A c \in Clips : fate[c] # "open"
    BY <1>0 DEF IInv, Fated
  <2>2. \A c \in Clips : fate'[c] \in {"open", "removed"} => \A j \in Ids : server[j] # c
    BY <1>0, <1>3, <1>5 DEF IInv, Fated
  <2>3. \A c \in Clips : fate[c] = "removed" => c \notin Present(mem')
    BY <1>0, <1>3 DEF IInv, Fated
  <2>4. \A c \in Clips : /\ fate[c] = "kept" => c \in Present(mem)
                         /\ fate[c] = "unmade" => c \notin Present(mem)
    BY <1>0 DEF IInv, Fated
  <2> QED BY <1>0, <1>5, <2>1, <2>2, <2>3, <2>4 DEF Fated
<1>10. Fitting'
  <2>1. \A c \in Present(mem) : /\ \A j \in Ids : server[j] = c => mem[c].id = j
                                /\ mem[c].id # NoId
    BY <1>1
  <2> QED BY <1>0, <1>3, <2>1 DEF IInv, Fitting, Contents, Current
<1>11. Syncing' /\ Agreeing'
  BY <1>0, <1>3, <1>4 DEF IInv, Syncing, Agreeing, Pulling
<1>12. KeptOnCard' /\ NoneComesBack' /\ NoTwins'
  BY <1>0, <1>5 DEF IInv, KeptOnCard, NoneComesBack, NoTwins, Present
<1> QED BY <1>7, <1>8, <1>9, <1>10, <1>11, <1>12 DEF IInv

\* The last page has no entry.
LEMMA KeptLastPageEmpty == ASSUME IInv, LastPageEmpty PROVE IInv'
<1> USE EntryAssumption, FileAssumption, IdAssumption, ServerAssumption
        DEF files, storeVars, syncVars, IInv, LastPageEmpty
<1>1. TypeOK'
  BY DEF TypeOK, StoreTypeOK, Pulling, Pcs, NextPage
<1>2. Writing'
  BY DEF Writing, Recoverable, NextPage
<1>3. Fitting'
  BY DEF Fitting, Contents, Current, Recoverable
<1>4. Fated'
  BY DEF Fated
<1>5. Syncing'
  BY DEF Syncing, Pulling, NextPage
<1>6. Agreeing'
  BY DEF Agreeing, Pulling
<1>7. KeptOnCard' /\ NoneComesBack'
  BY DEF Recoverable, KeptOnCard, NoneComesBack
<1>8. NoTwins'
  BY DEF NoTwins
<1> QED BY <1>1, <1>2, <1>3, <1>4, <1>5, <1>6, <1>7, <1>8 DEF IInv

\* The write of an entry has ended, or is undone and the sync fails.
LEMMA KeptPageApplied == ASSUME IInv, PageApplied PROVE IInv'
<1> USE EntryAssumption, FileAssumption, IdAssumption, ServerAssumption
        DEF files, storeVars, syncVars, IInv, PageApplied, Saved, Undone
<1>1. TypeOK'
  BY DEF TypeOK, StoreTypeOK, Fates, Pulling, Pcs, Settled, Restored
<1>2. Writing'
  BY DEF TypeOK, StoreTypeOK, Writing, Recoverable
<1>3. Fitting'
  BY DEF Fitting, Contents, Current, Present, Recoverable, Settled, Restored
<1>4. Fated'
  BY DEF TypeOK, StoreTypeOK, Writing, Fated, Present, KeptOnCard, NoneComesBack, Fates,
    Settled, Restored
<1>5. Syncing'
  BY DEF Syncing, Pulling
<1>6. Agreeing'
  BY DEF Agreeing, Pulling
<1>7. KeptOnCard' /\ NoneComesBack'
  BY DEF TypeOK, StoreTypeOK, Writing, Recoverable, KeptOnCard, NoneComesBack, Settled, Restored
<1>8. NoTwins'
  BY DEF NoTwins
<1> QED BY <1>1, <1>2, <1>3, <1>4, <1>5, <1>6, <1>7, <1>8 DEF IInv

\* The sync returns.
LEMMA KeptSyncReturns == ASSUME IInv, SyncReturns PROVE IInv'
<1> USE EntryAssumption, FileAssumption, IdAssumption, ServerAssumption
        DEF files, storeVars, syncVars, IInv, SyncReturns, Unload, Unloaded
<1>1. TypeOK'
  BY DEF TypeOK, StoreTypeOK, Content, Pcs, Empty, Write
<1>2. Writing'
  BY DEF Writing, Recoverable, Write
<1>3. Fitting'
  BY DEF Fitting, Contents, Current, Present, Recoverable, Empty
<1>4. Fated'
  BY DEF Fated, Present, Empty
<1>5. Syncing'
  BY DEF Syncing, Pulling
<1>6. Agreeing'
  BY DEF Agreeing, Pulling
<1>7. KeptOnCard' /\ NoneComesBack'
  BY DEF Recoverable, KeptOnCard, NoneComesBack
<1>8. NoTwins'
  BY DEF NoTwins
<1> QED BY <1>1, <1>2, <1>3, <1>4, <1>5, <1>6, <1>7, <1>8 DEF IInv

\* The power goes between any two steps: the files stay as they are.
LEMMA KeptPowerLoss == ASSUME IInv, PowerLoss PROVE IInv'
<1> USE EntryAssumption, FileAssumption, IdAssumption, ServerAssumption
        DEF files, storeVars, syncVars, IInv, PowerLoss, Unloaded
<1>1. TypeOK'
  BY DEF TypeOK, StoreTypeOK, Content, Pcs, Empty
<1>2. Writing'
  BY DEF Writing
<1>3. Fitting'
  BY DEF Fitting, Contents, Current, Present, Recoverable, Empty
<1>4. Fated'
  BY DEF Fated, Present, Empty
<1>5. Syncing'
  BY DEF Syncing, Pulling
<1>6. Agreeing'
  BY DEF Agreeing, Pulling
<1>7. KeptOnCard' /\ NoneComesBack'
  BY DEF Recoverable, KeptOnCard, NoneComesBack
<1>8. NoTwins'
  BY DEF NoTwins
<1> QED BY <1>1, <1>2, <1>3, <1>4, <1>5, <1>6, <1>7, <1>8 DEF IInv

\* A step of the write: until the swap the old content is recoverable, after it the new one.
LEMMA KeptWriteSteps == ASSUME IInv, WriteSteps PROVE IInv'
<1> USE EntryAssumption, FileAssumption, IdAssumption, ServerAssumption
        DEF files, storeVars, syncVars, IInv, WriteSteps, writeToFile, WriteBegins, BackUp,
          SwapIn, CleanUp
<1>1. TypeOK'
  BY DEF TypeOK, StoreTypeOK, WriteFails
<1>2. Writing'
  BY DEF Writing, Recoverable, WriteFails
<1>3. Fitting'
  BY DEF TypeOK, StoreTypeOK, Writing, Fitting, Contents, Current, Recoverable, WriteFails
<1>4. Fated'
  BY DEF Fated, WriteFails
<1>5. Syncing'
  BY DEF Syncing, WriteFails
<1>6. Agreeing'
  BY DEF Agreeing, WriteFails
<1>7. KeptOnCard' /\ NoneComesBack'
  BY DEF TypeOK, StoreTypeOK, Writing, Recoverable, KeptOnCard, NoneComesBack, Fated, WriteFails
<1>8. NoTwins'
  BY DEF NoTwins
<1> QED BY <1>1, <1>2, <1>3, <1>4, <1>5, <1>6, <1>7, <1>8 DEF IInv

-----------------------------------------------------------------------------
(* The theorems. *)

\* With no clipping anywhere, every part holds.
LEMMA InvariantHoldsAtFirst == ASSUME SyncInit PROVE IInv
<1> USE EntryAssumption, FileAssumption, IdAssumption, ServerAssumption
<1>1. Empty \in Content /\ Present(Empty) = {} /\ Recoverable = Empty
  BY DEF SyncInit, Init, Empty, Content, Present, Recoverable
<1>2. TypeOK
  BY <1>1 DEF SyncInit, Init, TypeOK, StoreTypeOK, Fates, Pcs
<1>3. Writing /\ Fated /\ Syncing /\ Agreeing
  BY <1>1 DEF SyncInit, Init, Writing, Fated, Syncing, Agreeing, Pulling
<1>4. Fitting
  BY <1>1 DEF SyncInit, Init, Fitting, Contents, Current
<1>5. KeptOnCard /\ NoneComesBack /\ NoTwins
  BY <1>1 DEF SyncInit, Init, KeptOnCard, NoneComesBack, NoTwins
<1> QED BY <1>2, <1>3, <1>4, <1>5 DEF IInv

\* A step that changes nothing.
LEMMA KeptStuttering == ASSUME IInv, UNCHANGED vars PROVE IInv'
<1>1. UNCHANGED <<TypeOK, Writing, Fitting, Fated>>
  BY DEF vars, TypeOK, StoreTypeOK, Writing, Fitting, Fated, Contents, Current, Recoverable, Present
<1>2. UNCHANGED <<Syncing, Agreeing, KeptOnCard, NoneComesBack, NoTwins>>
  BY DEF vars, Syncing, Agreeing, KeptOnCard, NoneComesBack, NoTwins, Recoverable, Present
<1> QED BY <1>1, <1>2 DEF IInv

LEMMA InvariantKept == ASSUME IInv, [Next]_vars PROVE IInv'
<1>1. ASSUME Sync PROVE IInv'
  BY <1>1, KeptStartSync, KeptGiveUp, KeptProbe, KeptprepareSync, KeptPrepared, KeptSendDeletion,
     KeptfinishDeletions, KeptSendUpload, KeptfinishUploads, KeptUploadsMarked, KeptPage,
     KeptLastPageEmpty, KeptPageApplied, KeptSyncReturns DEF Sync
<1>2. ASSUME \E c \in Clips : Add(c) \/ Remove(c) \/ OtherDeviceAdds(c) PROVE IInv'
  BY <1>2, KeptAdd, KeptRemove, KeptOtherDeviceAdds
<1>3. ASSUME \E i \in Ids : OtherDeviceDeletes(i) PROVE IInv'
  BY <1>3, KeptOtherDeviceDeletes
<1>4. ASSUME OpenBook \/ CloseBook \/ ChangeEnds \/ UnloadEnds PROVE IInv'
  BY <1>4, KeptOpenBook, KeptCloseBook, KeptChangeEnds, KeptUnloadEnds
<1> QED BY <1>1, <1>2, <1>3, <1>4, KeptWriteSteps, KeptPowerLoss, KeptStuttering DEF Next

\* The invariant of every reachable state.
LEMMA Invariance == Spec => []IInv
<1> QED BY InvariantHoldsAtFirst, InvariantKept, PTL DEF Spec

\* ClippingStore.h:24-43, ClippingSync.cpp:134-215: the state keeps its types.
THEOREM TypeCorrect == Spec => []TypeOK
<1>1. IInv => TypeOK
  BY DEF IInv
<1> QED BY <1>1, Invariance, PTL

\* ClippingStore.cpp:631-650: a clipping that was saved, or found on the card, can
\* be loaded again whichever rename fails and wherever the power goes.
THEOREM Kept == Spec => []KeptOnCard
<1>1. IInv => KeptOnCard
  BY DEF IInv
<1> QED BY <1>1, Invariance, PTL

\* ClippingStore.cpp:232-246, 353-376: a clipping that was removed comes back
\* neither from a backup nor from the server.
THEOREM NoneBack == Spec => []NoneComesBack
<1>1. IInv => NoneComesBack
  BY DEF IInv
<1> QED BY <1>1, Invariance, PTL

\* ClippingStore.cpp:326-341: an id is on the card before it is sent, so that a
\* clipping sent again after a lost answer or a power loss has the same id.
THEOREM SentOnce == Spec => []NoTwins
<1>1. IInv => NoTwins
  BY DEF IInv
<1> QED BY <1>1, Invariance, PTL

\* ClippingSync.cpp:191-215: a sync that returns true has brought the card and the
\* server together, save for what other devices changed behind the last page.
THEOREM Agreement == Spec => []SyncAgrees
<1>1. IInv => SyncAgrees
  BY DEF IInv, SyncAgrees, Writing, Agreeing, Pulling
<1> QED BY <1>1, Invariance, PTL
=============================================================================
