----------------------------- MODULE PluginEvents -----------------------------
(***************************************************************************)
(* The outboxes of the plugins (util/PluginEvents.cpp): emit() appends an  *)
(* event to the file of every subscriber, drain() replays them, when the   *)
(* device is online, through the plugin's handlers: a request, or a        *)
(* download that replaces a file on the card. All of it runs on the main   *)
(* task, so nothing is emitted during a drain; any file operation or       *)
(* request can fail, and the power can go at any time. The retry with a    *)
(* fresh token is a part of the request.                                   *)
(***************************************************************************)
EXTENDS Naturals, Sequences, SequencesExt

CONSTANTS Plugins,     \* 1..Plugins, in the order of the subscription table
          Events,      \* 1..Events, in the order they are emitted
          Subscribed,  \* what each plugin has a subscription for
          Downloads,   \* events whose handler is a download
          MaxOutbox,   \* lines: an outbox beyond is dropped
          MaxEvents,   \* handled in one drain
          NoFile

ASSUME SizesAssumption ==
  /\ Plugins \in Nat \ {0} /\ Events \in Nat /\ MaxOutbox \in Nat /\ MaxEvents \in Nat \ {0}
  /\ Subscribed \in [1..Plugins -> SUBSET (1..Events)] /\ Downloads \subseteq 1..Events
ASSUME NoFileAssumption == NoFile \notin Nat

VARIABLES emitted,   \* how many events were
          outbox, 
          dest, bak, \* the file the downloads of a plugin go to
          listed,    \* the library is due to list it
          cur,       \* whose outbox the drain is at
          at,        \* where it stands
          raw, pos,  \* the lines it read, how many it is done with
          budget, hadDest,
          arrived,   \* events the server has seen, or whose file was installed
          dropped,   \* events that were given up
          calm       \* from here on the card works, and the servers answer

drainVars == <<cur, at, raw, pos, budget, hadDest>>
vars == <<emitted, outbox, dest, bak, listed, cur, at, raw, pos, budget, hadDest, arrived, dropped, calm>>

Plugin == 1..Plugins
Event == 1..Events

\* Lines that are no event: one that was cut short, and one that an event was
\* then appended to.
Torn == 0
Corrupt == Events + 1
Line == 0..(Events + 1)
Queued(queue) == ToSet(queue) \cap Event

File == Event \cup {0, NoFile}   \* 0 is a file that was there before

\* readFileToString() reads no more than this, and no empty file.
Readable(queue) == queue # <<>> /\ Len(queue) <= MaxOutbox + 1

Init ==
  /\ emitted = 0 /\ outbox = [p \in Plugin |-> <<>>]
  /\ dest = [p \in Plugin |-> 0] /\ bak = [p \in Plugin |-> NoFile]
  /\ listed = [p \in Plugin |-> TRUE]
  /\ cur = 0 /\ at = "idle" /\ raw = <<>> /\ pos = 0 /\ budget = 0 /\ hadDest = FALSE
  /\ arrived = [p \in Plugin |-> {}] /\ dropped = [p \in Plugin |-> {}] /\ calm = FALSE

-----------------------------------------------------------------------------
(* emit() *)

EndsTorn(queue) == queue # <<>> /\ Last(queue) = Torn
Appended(queue, e) == IF EndsTorn(queue) THEN Append(Front(queue), Corrupt) ELSE Append(queue, e)
Cut(queue) == IF EndsTorn(queue) THEN queue ELSE Append(queue, Torn)

\* An outbox over the cap is removed first; one that cannot be grows on.
Kept(queue) == IF Len(queue) > MaxOutbox THEN <<>> ELSE queue
Bases(queue) == IF calm THEN {Kept(queue)} ELSE {queue, Kept(queue)}

\* What an append comes to: done; not opened, or cut back to the last complete
\* line; left torn when that fails as well.
Appends(queue, e) ==
  {Appended(q, e) : q \in Bases(queue)}
  \cup (IF calm THEN {} ELSE Bases(queue) \cup {Cut(q) : q \in Bases(queue)})

Outboxes(p, e) == IF e \in Subscribed[p] THEN Appends(outbox[p], e) ELSE {outbox[p]}

emit ==
  /\ at = "idle" /\ emitted < Events
  /\ emitted' = emitted + 1
  /\ outbox' \in {q \in [Plugin -> UNION {Outboxes(p, emitted') : p \in Plugin}] :
                    \A p \in Plugin : q[p] \in Outboxes(p, emitted')}
  /\ dropped' = [p \in Plugin |->
       dropped[p] \cup (((Queued(outbox[p]) \cup {emitted'}) \cap Subscribed[p]) \ Queued(outbox'[p]))]
  /\ UNCHANGED <<calm, dest, bak, listed, drainVars, arrived>>

-----------------------------------------------------------------------------
(* drain() *)

Drain == /\ at = "idle" /\ at' = "open" /\ cur' = 1 /\ budget' = MaxEvents
         /\ UNCHANGED <<calm, emitted, outbox, dest, bak, listed, raw, pos, hadDest, arrived, dropped>>

NextOutbox == /\ at' = IF cur < Plugins /\ budget' > 0 THEN "open" ELSE "idle"
              /\ cur' = IF cur < Plugins /\ budget' > 0 THEN cur + 1 ELSE 0
              /\ raw' = <<>> /\ pos' = 0 /\ hadDest' = FALSE

\* Nothing to read, or the outbox or the manifest cannot be read for now.
SkipOutbox == /\ at = "open" /\ (calm => ~Readable(outbox[cur])) /\ UNCHANGED budget /\ NextOutbox
              /\ UNCHANGED <<calm, emitted, outbox, dest, bak, listed, arrived, dropped>>

\* The manifest has no handlers: the outbox would never get shorter.
ClearOutbox == /\ at = "open" /\ Readable(outbox[cur]) /\ UNCHANGED budget /\ NextOutbox
               /\ outbox' = [outbox EXCEPT ![cur] = <<>>]
               /\ dropped' = [dropped EXCEPT ![cur] = @ \cup Queued(outbox[cur])]
               /\ UNCHANGED <<calm, emitted, dest, bak, listed, arrived>>

ReadOutbox == /\ at = "open" /\ Readable(outbox[cur])
              /\ at' = "deliver" /\ raw' = outbox[cur] /\ pos' = 0
              /\ UNCHANGED <<calm, emitted, outbox, dest, bak, listed, cur, budget, hadDest, arrived, dropped>>

AtLine == at = "deliver" /\ pos < Len(raw) /\ budget > 0
CurrentLine == raw[pos + 1]

Delivered == at' = "deliver" /\ pos' = pos + 1 /\ budget' = budget - 1 /\ UNCHANGED <<cur, raw>>
Stalled == at' = "stalled" /\ UNCHANGED <<cur, raw, pos, budget>>
Arrives(e) == arrived' = [arrived EXCEPT ![cur] = @ \cup {e}]

\* As DropLine, with a corrupt line kept as one that could not be delivered.
DropLineKeepingCorrupt ==
  /\ AtLine
  /\ \/ /\ CurrentLine \in Event /\ Delivered
        /\ dropped' = [dropped EXCEPT ![cur] = @ \cup {CurrentLine}]
     \/ CurrentLine \notin Event /\ Stalled /\ UNCHANGED dropped
  /\ UNCHANGED <<calm, emitted, outbox, dest, bak, listed, hadDest, arrived>>

\* A corrupt line, or one whose handler has gone, counts as delivered.
DropLine == /\ AtLine
            /\ dropped' = [dropped EXCEPT ![cur] = @ \cup ({CurrentLine} \cap Event)]
            /\ Delivered /\ UNCHANGED <<calm, emitted, outbox, dest, bak, listed, hadDest, arrived>>

SendRequest ==
  /\ AtLine /\ CurrentLine \in Event \ Downloads
  /\ Arrives(CurrentLine) /\ Delivered
  /\ UNCHANGED <<calm, emitted, outbox, dest, bak, listed, hadDest, dropped>>

\* As RequestFails, with the line tried again after the others.
RequestFailsPostponing ==
  /\ ~calm /\ AtLine /\ CurrentLine \in Event
  /\ raw' = Append(RemoveAt(raw, pos + 1), CurrentLine)
  /\ UNCHANGED <<calm, emitted, outbox, dest, bak, listed, cur, at, pos, budget, hadDest, arrived, dropped>>

\* The request does not arrive, is refused, or its answer is lost.
RequestFails ==
  /\ ~calm /\ AtLine /\ CurrentLine \in Event
  /\ \/ UNCHANGED arrived
     \/ CurrentLine \notin Downloads /\ Arrives(CurrentLine)
  /\ Stalled /\ UNCHANGED <<calm, emitted, outbox, dest, bak, listed, hadDest, dropped>>

\* The backup is removed, if that works.
WithoutBackup == bak' = [bak EXCEPT ![cur] = NoFile] \/ (~calm /\ UNCHANGED bak)

\* As Download, without a download when the file is there.
DownloadUnlessThere ==
  /\ AtLine /\ CurrentLine \in Downloads
  /\ hadDest' = (dest[cur] # NoFile)
  /\ \/ dest[cur] = CurrentLine /\ Arrives(CurrentLine) /\ Delivered /\ UNCHANGED bak
     \/ /\ dest[cur] # CurrentLine /\ WithoutBackup /\ at' = IF hadDest' THEN "park" ELSE "swap"
        /\ UNCHANGED <<cur, raw, pos, budget, arrived>>
  /\ UNCHANGED <<calm, emitted, outbox, dest, listed, dropped>>

\* The download is complete; a backup from earlier goes.
Download ==
  /\ AtLine /\ CurrentLine \in Downloads
  /\ WithoutBackup
  /\ hadDest' = (dest[cur] # NoFile) /\ at' = IF hadDest' THEN "park" ELSE "swap"
  /\ UNCHANGED <<calm, emitted, outbox, dest, listed, cur, raw, pos, budget, arrived, dropped>>

Park ==
  /\ at = "park" /\ bak[cur] = NoFile
  /\ bak' = [bak EXCEPT ![cur] = dest[cur]] /\ dest' = [dest EXCEPT ![cur] = NoFile] /\ at' = "swap"
  /\ UNCHANGED <<calm, emitted, outbox, listed, cur, raw, pos, budget, hadDest, arrived, dropped>>

ParkFails == at = "park" /\ (calm => bak[cur] # NoFile) /\ Stalled /\ UNCHANGED <<calm, emitted, outbox, dest, bak, listed, hadDest, arrived, dropped>>

SwapIn ==
  /\ at = "swap" /\ at' = "commit"
  /\ dest' = [dest EXCEPT ![cur] = CurrentLine] /\ listed' = [listed EXCEPT ![cur] = FALSE]
  /\ UNCHANGED <<calm, emitted, outbox, bak, cur, raw, pos, budget, hadDest, arrived, dropped>>

\* The old file is put back, if that works.
SwapFails ==
  /\ ~calm /\ at = "swap" /\ Stalled
  /\ \/ hadDest /\ dest' = [dest EXCEPT ![cur] = bak[cur]] /\ bak' = [bak EXCEPT ![cur] = NoFile]
     \/ UNCHANGED <<dest, bak>>
  /\ UNCHANGED <<calm, emitted, outbox, listed, hadDest, arrived, dropped>>

\* The backup goes, and a book makes the library due for a rebuild.
Commit ==
  /\ at = "commit"
  /\ WithoutBackup
  /\ listed' = [listed EXCEPT ![cur] = TRUE] /\ Arrives(CurrentLine) /\ Delivered
  /\ UNCHANGED <<calm, emitted, outbox, dest, hadDest, dropped>>

\* What was delivered leaves the outbox, which is removed or written anew.
Done == at = "stalled" \/ (at = "deliver" /\ (pos = Len(raw) \/ budget = 0))
RestSkipping == SubSeq(raw, pos + 2, Len(raw))   \* as Rest, without the line that failed
Rest == SubSeq(raw, pos + 1, Len(raw))

Rewrite ==
  /\ Done /\ UNCHANGED budget /\ NextOutbox
  /\ outbox' = [outbox EXCEPT ![cur] = Rest]
  /\ UNCHANGED <<calm, emitted, dest, bak, listed, arrived, dropped>>

\* What was delivered will be replayed.
RewriteFails ==
  /\ ~calm /\ Done /\ UNCHANGED budget /\ NextOutbox
  /\ UNCHANGED <<calm, emitted, outbox, dest, bak, listed, arrived, dropped>>

PowerLoss ==
  /\ ~calm /\ at # "idle" /\ at' = "idle" /\ cur' = 0 /\ raw' = <<>> /\ pos' = 0 /\ budget' = 0 /\ hadDest' = FALSE
  /\ UNCHANGED <<calm, emitted, outbox, dest, bak, listed, arrived, dropped>>

\* The faults come to an end.
Calm == ~calm /\ calm' = TRUE
        /\ UNCHANGED <<emitted, outbox, dest, bak, listed, drainVars, arrived, dropped>>

DrainStep ==
  \/ SkipOutbox \/ ClearOutbox \/ ReadOutbox
  \/ DropLine \/ SendRequest \/ RequestFails
  \/ Download \/ Park \/ ParkFails \/ SwapIn \/ SwapFails \/ Commit
  \/ Rewrite \/ RewriteFails

Next == emit \/ Drain \/ DrainStep \/ PowerLoss \/ Calm

\* The device comes online again and again, and a drain runs to its end.
Fairness == WF_vars(Calm) /\ WF_vars(Drain) /\ WF_vars(DrainStep)

Spec == Init /\ [][Next]_vars
FairSpec == Spec /\ Fairness

-----------------------------------------------------------------------------
TypeOK ==
  /\ emitted \in 0..Events /\ outbox \in [Plugin -> Seq(Line)]
  /\ dest \in [Plugin -> File] /\ bak \in [Plugin -> File] /\ listed \in [Plugin -> BOOLEAN]
  /\ cur \in 0..Plugins /\ at \in {"idle", "open", "deliver", "park", "swap", "commit", "stalled"}
  /\ raw \in Seq(Line) /\ pos \in 0..Len(raw) /\ budget \in 0..MaxEvents /\ hadDest \in BOOLEAN
  /\ arrived \in [Plugin -> SUBSET Event] /\ dropped \in [Plugin -> SUBSET Event]
  /\ calm \in BOOLEAN

\* Delivery is at least once: an event that was queued and not given up stays
\* in the outbox until the server has it, over every failure and power loss.
AtLeastOnce ==
  \A p \in Plugin : (1..emitted) \cap Subscribed[p] \subseteq ToSet(outbox[p]) \cup arrived[p] \cup dropped[p]

\* And in order: no event overtakes an earlier one, over failures, replays and
\* power losses. (One without a handler is passed over; a manifest that has one
\* again when the line is replayed is the exception.)
InOrder ==
  [][\A p \in Plugin : \A e \in arrived'[p] \ (arrived[p] \cup dropped[p]) : \A d \in arrived[p] : d < e]_vars

\* The outboxes are the queues of the documentation: emit(), a drain, a failure, a replay or a power loss
\* is a step of theirs, or one that nobody sees.
Queues == INSTANCE EventQueue WITH kept <- [p \in Plugin |-> Queued(outbox[p])]
ImplementsEventQueue == Queues!SafeSpec

\* A book that was downloaded and that the library is not due to list is
\* downloaded again, unless the outbox was given up.
FreshBookIsDue ==
  \A p \in Plugin : listed[p] \/ dest[p] = NoFile \/ dest[p] \in ToSet(outbox[p]) \cup dropped[p]

\* Once events stop coming, the card works and the servers answer, every outbox
\* is emptied, whatever is in it and whichever plugin comes first, but for one that
\* is too long to be read: the next event drops that one.
OutboxEmpties == \A p \in Plugin : <>[](outbox[p] = <<>> \/ Len(outbox[p]) > MaxOutbox + 1)

\* A failed commit does not lose both the old file and the fresh download.
OldOrFresh == [][at = "swap" /\ at' = "stalled" => dest'[cur] # NoFile \/ bak'[cur] # NoFile]_vars
=============================================================================
