-------------------------- MODULE PluginEventsProofs --------------------------
(***************************************************************************)
(* That events are delivered at least once and in order, and that books    *)
(* are listed, for any number of plugins and events and over any failures  *)
(* and power losses. While an outbox is being drained, what is still to be *)
(* delivered of it is what lies ahead in the lines that were read.  So the *)
(* outboxes are the queues of EventQueue, and those keep order.            *)
(***************************************************************************)
EXTENDS PluginEvents, SequenceTheorems, TLAPS

Working == {"deliver", "park", "swap", "commit", "stalled"}
Draining(p) == p = cur /\ at \in Working
Ahead(p) == IF Draining(p) THEN {raw[k] : k \in (pos + 1)..Len(raw)} ELSE ToSet(outbox[p])

\* The lines read are those of the outbox until it is rewritten.
DrainInv ==
  /\ at # "idle" => cur \in Plugin
  /\ at \in Working => outbox[cur] = raw
  /\ at \in {"park", "swap", "commit"} => pos < Len(raw) /\ raw[pos + 1] \in Downloads /\ budget > 0

Owed(p) == (1..emitted) \cap Subscribed[p]
Delivery == \A p \in Plugin : Owed(p) \subseteq Ahead(p) \cup arrived[p] \cup dropped[p]

\* A file the library is not due to list will be downloaded again.
Due(p, file) == \/ listed[p] \/ file = NoFile \/ file \in dropped[p]
                \/ file \in Downloads /\ file \in Ahead(p)
Books == /\ \A p \in Plugin : Due(p, dest[p])
         /\ at = "swap" /\ hadDest => Due(cur, bak[cur])

\* An outbox holds what was emitted and is subscribed to, in that order.
Sorted(queue) == \A j, k \in 1..Len(queue) :
  j < k /\ queue[j] \in Event /\ queue[k] \in Event => queue[j] < queue[k]
Ordered == \A p \in Plugin :
  /\ Sorted(outbox[p])
  /\ \A k \in 1..Len(outbox[p]) : outbox[p][k] \in Event => outbox[p][k] \in Owed(p)
  /\ arrived[p] \subseteq 1..emitted
  /\ \A e \in Owed(p) \ (arrived[p] \cup dropped[p]) : \A d \in arrived[p] : d < e

IInv == TypeOK /\ DrainInv /\ Delivery /\ Books /\ Ordered

-----------------------------------------------------------------------------
(* Types. *)

LEMMA Numbers == /\ Plugins \in Nat \ {0} /\ Events \in Nat /\ MaxEvents \in Nat \ {0} /\ MaxOutbox \in Nat
                 /\ Plugin \subseteq Nat /\ Event \subseteq Nat /\ Line \subseteq Nat /\ Event \subseteq Line
                 /\ Torn \in Line /\ Corrupt \in Line /\ Torn \notin Event /\ Corrupt \notin Event
                 /\ Downloads \subseteq Event /\ NoFile \notin Event
<1>1. /\ Plugins \in Nat \ {0} /\ Events \in Nat /\ MaxEvents \in Nat \ {0} /\ MaxOutbox \in Nat
      /\ Downloads \subseteq Event
  BY SizesAssumption DEF Event
<1>2. Plugin \subseteq Nat /\ Event \subseteq Nat /\ Line \subseteq Nat /\ Event \subseteq Line
  BY <1>1 DEF Plugin, Event, Line
<1>3. Torn \in Line /\ Corrupt \in Line /\ Torn \notin Event /\ Corrupt \notin Event
  BY <1>1 DEF Event, Line, Torn, Corrupt
<1>4. NoFile \notin Event
  BY <1>2, NoFileAssumption
<1> QED BY <1>1, <1>2, <1>3, <1>4

\* What is left of lines when the last is cut off.
LEMMA FrontOfLines ==
  ASSUME NEW queue \in Seq(Line), queue # <<>>
  PROVE  /\ Front(queue) \in Seq(Line) /\ Len(Front(queue)) = Len(queue) - 1
         /\ \A k \in 1..(Len(queue) - 1) : Front(queue)[k] = queue[k]
<1> DEFINE n == Len(queue) - 1
           front == SubSeq(queue, 1, n)
<1>1. n \in Nat /\ \A i \in 1..n : queue[i] \in Line
  OBVIOUS
<1> HIDE DEF n
<1>2. front \in Seq(Line) /\ Len(front) = n /\ \A k \in 1..n : front[k] = queue[k]
  BY <1>1, SubSeqProperties
<1>3. Front(queue) = front /\ n = Len(queue) - 1
  BY DEF Front, n
<1> HIDE DEF front
<1> QED BY <1>2, <1>3

\* What an append leaves holds no event but the old ones, in their order, and the new one.
LEMMA AppendsKeepOrder ==
  ASSUME NEW queue \in Seq(Line), NEW e \in Event, NEW result \in Appends(queue, e)
  PROVE  /\ result \in Seq(Line)
         /\ \A k \in 1..Len(result) : result[k] \in Event =>
              result[k] = e \/ (k \in 1..Len(queue) /\ result[k] = queue[k])
         /\ \A j, k \in 1..Len(result) : j < k /\ result[k] \in Event /\ result[j] \in Event =>
              j \in 1..Len(queue) /\ result[j] = queue[j]
<1> USE Numbers
<1>1. PICK base \in Bases(queue) : result = Appended(base, e) \/ result = base \/ result = Cut(base)
  <2>1. result \in {Appended(q, e) : q \in Bases(queue)} \cup Bases(queue) \cup {Cut(q) : q \in Bases(queue)}
    BY DEF Appends
  <2> QED BY <2>1
<1>2. base \in {queue, <<>>} /\ base \in Seq(Line)
  <2>1. Kept(queue) \in {queue, <<>>}
    BY DEF Kept
  <2>2. base \in {queue, Kept(queue)}
    BY <1>1 DEF Bases
  <2>3. base \in {queue, <<>>} /\ <<>> \in Seq(Line)
    BY <2>1, <2>2
  <2>4. CASE base = queue
    BY <2>4
  <2>5. CASE base = <<>>
    BY <2>3, <2>5
  <2> QED BY <2>3, <2>4, <2>5
<1>3. /\ Append(base, e) \in Seq(Line) /\ Len(Append(base, e)) = Len(base) + 1
      /\ Append(base, e)[Len(base) + 1] = e
      /\ \A k \in 1..Len(base) : Append(base, e)[k] = base[k]
  BY <1>2
<1>4. /\ Append(base, Torn) \in Seq(Line) /\ Len(Append(base, Torn)) = Len(base) + 1
      /\ Append(base, Torn)[Len(base) + 1] = Torn
      /\ \A k \in 1..Len(base) : Append(base, Torn)[k] = base[k]
  BY <1>2
<1>6. \A k \in 1..Len(base) : k \in 1..Len(queue) /\ base[k] = queue[k]
  BY <1>2
<1>7. Len(base) \in Nat
  BY <1>2
<1> HIDE DEF Event, Line, Torn, Corrupt
<1>8. CASE result = base
  BY <1>2, <1>6, <1>8
<1>9. CASE result = Append(base, e)
  BY <1>3, <1>6, <1>7, <1>9
<1>10. CASE result = Append(base, Torn)
  BY <1>4, <1>6, <1>7, <1>10
<1>11. CASE base # <<>> /\ result = Append(Front(base), Corrupt)
  <2>1. Len(base) \in Nat \ {0}
    BY <1>2, <1>11
  <2>2. /\ Front(base) \in Seq(Line) /\ Len(Front(base)) = Len(base) - 1
        /\ \A k \in 1..(Len(base) - 1) : Front(base)[k] = base[k]
    BY <1>2, <1>11, FrontOfLines
  <2>3. /\ result \in Seq(Line) /\ Len(result) = Len(base) /\ result[Len(base)] = Corrupt
        /\ \A k \in 1..(Len(base) - 1) : result[k] = base[k]
    <3> DEFINE front == Front(base)
    <3>1. front \in Seq(Line) /\ Len(front) = Len(base) - 1 /\ result = Append(front, Corrupt)
          /\ \A k \in 1..(Len(base) - 1) : front[k] = base[k]
      BY <1>11, <2>2
    <3> HIDE DEF front
    <3> QED BY <2>1, <3>1
  <2> QED BY <1>6, <2>1, <2>3
<1> QED BY <1>1, <1>8, <1>9, <1>10, <1>11 DEF Appended, Cut, EndsTorn

\* Each plugin's outbox changes only for an event it has a subscription for.
LEMMA EmitOutboxes ==
  ASSUME TypeOK, emit
  PROVE  /\ outbox' \in [Plugin -> Seq(Line)]
         /\ \A p \in Plugin : outbox'[p] = outbox[p] \/
              (emitted' \in Subscribed[p] /\ outbox'[p] \in Appends(outbox[p], emitted'))
<1>1. /\ \A p \in Plugin : outbox'[p] \in Outboxes(p, emitted')
      /\ DOMAIN outbox' = Plugin /\ outbox' = [p \in Plugin |-> outbox'[p]]
  BY DEF emit
<1>2. \A p \in Plugin : outbox'[p] = outbox[p] \/
        (emitted' \in Subscribed[p] /\ outbox'[p] \in Appends(outbox[p], emitted'))
  BY <1>1 DEF Outboxes
<1>3. emitted' \in Event
  BY Numbers DEF emit, TypeOK, Event
<1>4. \A p \in Plugin : outbox'[p] \in Seq(Line)
  BY <1>2, <1>3, AppendsKeepOrder DEF TypeOK
<1> QED BY <1>1, <1>2, <1>4

\* The lines that are left are lines.
LEMMA RestIsQueue ==
  ASSUME TypeOK
  PROVE  /\ Rest \in Seq(Line) /\ Len(Rest) = Len(raw) - pos
         /\ \A k \in 1..(Len(raw) - pos) : Rest[k] = raw[pos + k]
<1>1. raw \in Seq(Line) /\ pos \in 0..Len(raw) /\ Len(raw) \in Nat
  BY DEF TypeOK
<1> DEFINE m == pos + 1
           n == Len(raw)
           rest == SubSeq(raw, m, n)
<1>2. m \in Int /\ n \in Int /\ \A k \in m..n : raw[k] \in Line
  BY <1>1
<1> HIDE DEF m, n
<1>3. /\ rest \in Seq(Line) /\ Len(rest) = IF m <= n THEN n - m + 1 ELSE 0
      /\ \A k \in 1..(n - m + 1) : rest[k] = raw[m + k - 1]
  BY <1>2, SubSeqProperties
<1>4. Rest = rest /\ m = pos + 1 /\ n = Len(raw)
  BY DEF Rest, m, n
<1> HIDE DEF rest
<1> QED BY <1>1, <1>3, <1>4

LEMMA TypeStep == ASSUME TypeOK, DrainInv, [Next]_vars PROVE TypeOK'
<1> USE Numbers DEF TypeOK, drainVars
<1>1. ASSUME emit PROVE TypeOK'
  <2>1. outbox' \in [Plugin -> Seq(Line)]
    BY <1>1, EmitOutboxes
  <2>2. emitted' \in Event /\ emitted' \in 0..Events
    BY <1>1 DEF emit, Event
  <2>3. dropped' \in [Plugin -> SUBSET Event]
    BY <1>1, <2>2 DEF emit, Queued
  <2> QED BY <1>1, <2>1, <2>2, <2>3 DEF emit
<1>2. ASSUME Drain PROVE TypeOK'
  BY <1>2 DEF Drain, Plugin
<1>3. ASSUME NextOutbox, budget' = budget,
             UNCHANGED <<calm, emitted, dest, bak, listed, arrived>>,
             outbox' \in [Plugin -> Seq(Line)], dropped' \in [Plugin -> SUBSET Event]
      PROVE TypeOK'
  <2>1. cur' \in 0..Plugins
    BY <1>3 DEF NextOutbox
  <2>2. raw' \in Seq(Line) /\ pos' \in 0..Len(raw')
    BY <1>3 DEF NextOutbox
  <2> QED BY <1>3, <2>1, <2>2 DEF NextOutbox
<1>4. ASSUME SkipOutbox \/ RewriteFails PROVE TypeOK'
  BY <1>3, <1>4 DEF SkipOutbox, RewriteFails
<1>5. ASSUME ClearOutbox PROVE TypeOK'
  <2>1. outbox' \in [Plugin -> Seq(Line)]
    <3>1. <<>> \in Seq(Line)
      OBVIOUS
    <3> QED BY <1>5, <3>1 DEF ClearOutbox
  <2>2. dropped' \in [Plugin -> SUBSET Event]
    BY <1>5 DEF ClearOutbox, Queued
  <2> QED BY <1>3, <1>5, <2>1, <2>2 DEF ClearOutbox
<1>6. ASSUME ReadOutbox PROVE TypeOK'
  <2>1. raw' \in Seq(Line) /\ pos' = 0 /\ Len(raw') \in Nat
    BY <1>6 DEF ReadOutbox, DrainInv
  <2> QED BY <1>6, <2>1 DEF ReadOutbox
<1>8. ASSUME Delivered, pos < Len(raw), budget > 0,
             UNCHANGED <<calm, emitted, outbox, dest>>, bak' \in [Plugin -> File], listed' \in [Plugin -> BOOLEAN],
             hadDest' = hadDest, arrived' \in [Plugin -> SUBSET Event], dropped' \in [Plugin -> SUBSET Event]
      PROVE TypeOK'
  BY <1>8 DEF Delivered
<1>9. ASSUME DropLine PROVE TypeOK'
  BY <1>8, <1>9 DEF DropLine, AtLine
<1>10. ASSUME SendRequest PROVE TypeOK'
  BY <1>8, <1>10 DEF SendRequest, AtLine, Arrives
<1>11. ASSUME Commit PROVE TypeOK'
  <2>1. CurrentLine \in Event /\ cur \in Plugin
    BY <1>11 DEF Commit, CurrentLine, DrainInv
  <2>2. arrived' \in [Plugin -> SUBSET Event] /\ bak' \in [Plugin -> File]
    BY <1>11, <2>1 DEF Commit, WithoutBackup, Arrives, File
  <2> QED BY <1>8, <1>11, <2>2 DEF Commit, DrainInv
<1>12. ASSUME Stalled, UNCHANGED <<calm, emitted, outbox, listed, hadDest, dropped>>,
              dest' \in [Plugin -> File], bak' \in [Plugin -> File], arrived' \in [Plugin -> SUBSET Event]
       PROVE TypeOK'
  BY <1>12 DEF Stalled
<1>13. ASSUME RequestFails PROVE TypeOK'
  BY <1>12, <1>13 DEF RequestFails, Arrives
<1>14. ASSUME ParkFails PROVE TypeOK'
  BY <1>12, <1>14 DEF ParkFails
<1>15. ASSUME SwapFails PROVE TypeOK'
  BY <1>12, <1>15 DEF SwapFails, File, DrainInv
<1>16. ASSUME Download PROVE TypeOK'
  BY <1>16 DEF Download, WithoutBackup, File
<1>17. ASSUME Park PROVE TypeOK'
  BY <1>17 DEF Park, File, DrainInv
<1>18. ASSUME SwapIn PROVE TypeOK'
  BY <1>18 DEF SwapIn, CurrentLine, File, DrainInv
<1>19. ASSUME Rewrite PROVE TypeOK'
  <2>1. outbox' \in [Plugin -> Seq(Line)]
    BY <1>19, RestIsQueue DEF Rewrite
  <2> QED BY <1>3, <1>19, <2>1 DEF Rewrite
<1>20. ASSUME PowerLoss PROVE TypeOK'
  <2>1. raw' \in Seq(Line) /\ pos' \in 0..Len(raw') /\ cur' \in 0..Plugins /\ budget' \in 0..MaxEvents
    BY <1>20 DEF PowerLoss
  <2> QED BY <1>20, <2>1 DEF PowerLoss
<1>21. ASSUME Calm \/ UNCHANGED vars PROVE TypeOK'
  BY <1>21 DEF Calm, vars
<1> QED BY <1>1, <1>2, <1>4, <1>5, <1>6, <1>9, <1>10, <1>11, <1>13, <1>14, <1>15, <1>16, <1>17, <1>18, <1>19,
          <1>20, <1>21 DEF Next, DrainStep

LEMMA DrainInvStep == ASSUME TypeOK, DrainInv, [Next]_vars PROVE DrainInv'
<1> USE Numbers DEF DrainInv, drainVars, Working
<1>1. ASSUME NextOutbox PROVE DrainInv'
  BY <1>1 DEF NextOutbox, TypeOK, Plugin
<1>2. ASSUME emit \/ Calm \/ UNCHANGED vars PROVE DrainInv'
  BY <1>2 DEF emit, Calm, vars
<1>3. ASSUME Drain \/ PowerLoss PROVE DrainInv'
  BY <1>3 DEF Drain, PowerLoss, Plugin
<1>4. ASSUME SkipOutbox \/ ClearOutbox \/ Rewrite \/ RewriteFails PROVE DrainInv'
  BY <1>1, <1>4 DEF SkipOutbox, ClearOutbox, Rewrite, RewriteFails
<1>5. ASSUME ReadOutbox PROVE DrainInv'
  BY <1>5 DEF ReadOutbox
<1>6. ASSUME DropLine \/ SendRequest \/ Commit PROVE DrainInv'
  BY <1>6 DEF DropLine, SendRequest, Commit, Delivered, AtLine
<1>7. ASSUME RequestFails \/ ParkFails \/ SwapFails PROVE DrainInv'
  BY <1>7 DEF RequestFails, ParkFails, SwapFails, Stalled, AtLine
<1>8. ASSUME Download PROVE DrainInv'
  BY <1>8 DEF Download, AtLine, CurrentLine
<1>9. ASSUME Park \/ SwapIn PROVE DrainInv'
  BY <1>9 DEF Park, SwapIn
<1> QED BY <1>2, <1>3, <1>4, <1>5, <1>6, <1>7, <1>8, <1>9 DEF Next, DrainStep

-----------------------------------------------------------------------------
(* What is still to be delivered. *)

\* What lies ahead of a drain is in the outbox that is drained.
LEMMA AheadIsQueued ==
  ASSUME TypeOK, DrainInv, NEW p \in Plugin
  PROVE  Ahead(p) \subseteq ToSet(outbox[p])
<1>1. outbox[p] \in Seq(Line) /\ raw \in Seq(Line) /\ pos \in Nat
  BY DEF TypeOK
<1>2. CASE Draining(p)
  BY <1>1, <1>2 DEF Ahead, Draining, DrainInv, ToSet
<1>3. CASE ~Draining(p)
  BY <1>3 DEF Ahead
<1> QED BY <1>2, <1>3

\* Before the first line of an outbox is done with, all of it lies ahead.
LEMMA AheadAtFirst ==
  ASSUME NEW p \in Plugin, TypeOK', DrainInv', pos' = 0 \/ ~Draining(p)'
  PROVE  Ahead(p)' = ToSet(outbox[p])'
<1>1. outbox'[p] \in Seq(Line) /\ raw' \in Seq(Line)
  BY DEF TypeOK
<1>2. CASE Draining(p)'
  BY <1>1, <1>2 DEF Ahead, Draining, DrainInv, ToSet
<1>3. CASE ~Draining(p)'
  BY <1>3 DEF Ahead
<1> QED BY <1>2, <1>3

\* A step that delivers a line leaves the others ahead.
LEMMA AheadDelivered ==
  ASSUME TypeOK, DrainInv, Delivered, at \in Working, pos < Len(raw), UNCHANGED outbox,
         NEW p \in Plugin, NEW e \in Ahead(p)
  PROVE  e \in Ahead(p)' \/ (p = cur /\ e = CurrentLine)
<1>1. raw \in Seq(Line) /\ pos \in 0..Len(raw) /\ Len(raw) \in Nat
  BY DEF TypeOK
<1>2. raw' = raw /\ pos' = pos + 1 /\ cur' = cur /\ at' \in Working
  BY DEF Delivered, Working
<1>3. CASE p = cur
  <2>1. PICK k \in (pos + 1)..Len(raw) : e = raw[k]
    BY <1>3 DEF Ahead, Draining
  <2>2. k = pos + 1 \/ k \in (pos' + 1)..Len(raw')
    BY <1>1, <1>2, <2>1
  <2> QED BY <1>2, <1>3, <2>1, <2>2 DEF Ahead, Draining, CurrentLine
<1>4. CASE p # cur
  BY <1>2, <1>4 DEF Ahead, Draining
<1> QED BY <1>3, <1>4

\* What lies ahead stays there until it has arrived or is given up, and what is
\* downloaded until the library is due to list it.
LEMMA AheadStep ==
  ASSUME TypeOK, DrainInv, TypeOK', DrainInv', Drain \/ DrainStep \/ PowerLoss \/ Calm \/ UNCHANGED vars,
         NEW p \in Plugin, NEW e \in Event, e \in Ahead(p)
  PROVE  \/ e \in Ahead(p)' \/ e \in dropped'[p]
         \/ e \in arrived'[p] /\ (e \in Downloads => listed'[p])
<1> USE Numbers DEF TypeOK
<1>1. e \in ToSet(outbox[p])
  BY AheadIsQueued
<1>2. ASSUME UNCHANGED outbox, pos' = 0 PROVE e \in Ahead(p)'
  BY <1>1, <1>2, AheadAtFirst
<1>3. ASSUME UNCHANGED <<outbox, raw, pos, cur>>, at \in Working <=> at' \in Working PROVE e \in Ahead(p)'
  BY <1>3 DEF Ahead, Draining
<1>4. CASE Drain
  <2>1. ~Draining(p)'
    BY <1>4 DEF Drain, Draining, Working
  <2> QED BY <1>1, <1>4, <2>1, AheadAtFirst DEF Drain
<1>5. CASE SkipOutbox \/ ReadOutbox \/ RewriteFails \/ PowerLoss
  BY <1>2, <1>5 DEF SkipOutbox, ReadOutbox, RewriteFails, PowerLoss, NextOutbox
<1>6. CASE Calm \/ UNCHANGED vars
  BY <1>3, <1>6 DEF Calm, vars, drainVars
<1>7. CASE RequestFails \/ ParkFails \/ SwapFails \/ Download \/ Park \/ SwapIn
  BY <1>3, <1>7 DEF RequestFails, ParkFails, SwapFails, Download, Park, SwapIn, Stalled, AtLine, Working
<1>8. CASE DropLine
  <2>1. e \in Ahead(p)' \/ (p = cur /\ e = CurrentLine)
    BY <1>8, AheadDelivered DEF DropLine, AtLine, Working
  <2> QED BY <1>8, <2>1 DEF DropLine
<1>9. CASE SendRequest
  <2>1. e \in Ahead(p)' \/ (p = cur /\ e = CurrentLine)
    BY <1>9, AheadDelivered DEF SendRequest, AtLine, Working
  <2> QED BY <1>9, <2>1 DEF SendRequest, Arrives
<1>10. CASE Commit
  <2>1. e \in Ahead(p)' \/ (p = cur /\ e = CurrentLine)
    BY <1>10, AheadDelivered DEF Commit, Working, DrainInv
  <2> QED BY <1>10, <2>1 DEF Commit, Arrives
<1>11. CASE ClearOutbox
  <2>1. p # cur => e \in Ahead(p)'
    <3>1. ~Draining(p)'
      BY <1>11 DEF ClearOutbox, NextOutbox, Draining, Working
    <3> QED BY <1>1, <1>11, <3>1, AheadAtFirst DEF ClearOutbox
  <2>2. p = cur => e \in dropped'[p]
    BY <1>1, <1>11 DEF ClearOutbox, Queued
  <2> QED BY <2>1, <2>2
<1>12. CASE Rewrite
  <2>1. ~Draining(p)'
    BY <1>12 DEF Rewrite, NextOutbox, Draining, Working
  <2>2. p # cur => e \in Ahead(p)'
    BY <1>1, <1>12, <2>1, AheadAtFirst DEF Rewrite
  <2>3. ASSUME p = cur PROVE e \in Ahead(p)'
    <3>1. outbox'[p] = Rest
      BY <1>12, <2>3 DEF Rewrite
    <3>2. PICK k \in (pos + 1)..Len(raw) : e = raw[k]
      BY <1>12, <2>3 DEF Rewrite, Done, Ahead, Draining, Working
    <3> DEFINE j == k - pos
               rest == Rest
    <3>3. j \in 1..(Len(raw) - pos) /\ pos + j = k
      BY <3>2
    <3> HIDE DEF j, rest
    <3>4. rest \in Seq(Line) /\ j \in 1..Len(rest) /\ rest[j] = e
      BY <3>2, <3>3, RestIsQueue DEF rest
    <3>5. e \in ToSet(rest)
      BY <3>4 DEF ToSet
    <3> QED BY <2>1, <3>1, <3>5, AheadAtFirst DEF rest
  <2> QED BY <2>2, <2>3
<1> QED BY <1>4, <1>5, <1>6, <1>7, <1>8, <1>9, <1>10, <1>11, <1>12 DEF DrainStep

\* Only emit() adds to what is owed, and nothing that has arrived or was given up is forgotten.
LEMMA NothingForgotten ==
  ASSUME TypeOK, Drain \/ DrainStep \/ PowerLoss \/ Calm \/ UNCHANGED vars
  PROVE  /\ emitted' = emitted
         /\ \A p \in Plugin : arrived[p] \subseteq arrived'[p] /\ dropped[p] \subseteq dropped'[p]
<1> USE DEF TypeOK, drainVars, Arrives
<1>1. CASE Drain \/ PowerLoss \/ Calm \/ UNCHANGED vars
  BY <1>1 DEF Drain, PowerLoss, Calm, vars
<1>2. CASE SkipOutbox \/ ClearOutbox \/ ReadOutbox \/ Rewrite \/ RewriteFails
  BY <1>2 DEF SkipOutbox, ClearOutbox, ReadOutbox, Rewrite, RewriteFails
<1>3. CASE DropLine \/ SendRequest \/ RequestFails \/ Commit
  BY <1>3 DEF DropLine, SendRequest, RequestFails, Commit
<1>4. CASE Download \/ Park \/ ParkFails \/ SwapIn \/ SwapFails
  BY <1>4 DEF Download, Park, ParkFails, SwapIn, SwapFails
<1> QED BY <1>1, <1>2, <1>3, <1>4 DEF DrainStep

\* An event that was emitted is ahead, has arrived or was given up.
LEMMA DeliveryStep ==
  ASSUME TypeOK, DrainInv, TypeOK', DrainInv', Delivery, [Next]_vars
  PROVE  Delivery'
<1> USE Numbers
<1> SUFFICES ASSUME NEW p \in Plugin, NEW e \in Owed(p)'
             PROVE  e \in Ahead(p)' \cup arrived'[p] \cup dropped'[p]
  BY DEF Delivery
<1>1. CASE emit
  <2>1. ~Draining(p) /\ ~Draining(p)'
    BY <1>1 DEF emit, drainVars, Draining, Working
  <2>2. e \in Event /\ (e = emitted' \/ e \in Owed(p)) /\ e \in Subscribed[p]
    <3>1. emitted \in Nat /\ emitted' = emitted + 1 /\ emitted' <= Events
      BY <1>1 DEF emit, TypeOK
    <3> QED BY <3>1 DEF Owed, Event
  <2>3. e \in Queued(outbox[p]) \cup {emitted'} \/ e \in arrived[p] \cup dropped[p]
    BY <2>1, <2>2 DEF Delivery, Ahead, Queued
  <2>4. e \in Queued(outbox'[p]) \/ e \in arrived'[p] \cup dropped'[p]
    BY <1>1, <2>2, <2>3 DEF emit, TypeOK
  <2> QED BY <2>1, <2>4 DEF Ahead, Queued
<1>2. CASE ~emit
  <2>0. emitted' = emitted /\ emitted \in 0..Events
    BY <1>2, NothingForgotten DEF Next, TypeOK
  <2>1. e \in Owed(p) /\ e \in Event
    BY <2>0 DEF Owed, Event
  <2>2. arrived[p] \subseteq arrived'[p] /\ dropped[p] \subseteq dropped'[p]
    BY <1>2, NothingForgotten DEF Next
  <2>3. e \in Ahead(p) => e \in Ahead(p)' \cup arrived'[p] \cup dropped'[p]
    BY <1>2, <2>1, AheadStep DEF Next
  <2> QED BY <2>1, <2>2, <2>3 DEF Delivery
<1> QED BY <1>1, <1>2

\* The files of a download: the new one lies ahead when it is put in place, and
\* the old one is put back only within the same download.
LEMMA BooksStep ==
  ASSUME TypeOK, DrainInv, Ordered, TypeOK', DrainInv', Books, [Next]_vars
  PROVE  Books'
<1> USE Numbers
<1>0. emitted' = emitted => ~emit
  BY DEF emit, TypeOK
<1>1. ASSUME ~emit, NEW p \in Plugin, NEW file, Due(p, file), listed'[p] = listed[p] \/ listed'[p]
      PROVE  Due(p, file)'
  <2>1. CASE listed[p] \/ file = NoFile
    BY <1>1, <2>1 DEF Due
  <2>2. CASE file \in dropped[p]
    <3>1. dropped[p] \subseteq dropped'[p]
      BY <1>1, NothingForgotten DEF Next
    <3> QED BY <2>2, <3>1 DEF Due
  <2>3. CASE file \in Downloads /\ file \in Ahead(p)
    BY <1>1, <2>3, AheadStep DEF Due, Next
  <2> QED BY <1>1, <2>1, <2>2, <2>3 DEF Due
<1>2. CASE emit
  <2>1. /\ \A p \in Plugin : ~Draining(p) /\ ~Draining(p)'
        /\ listed' = listed /\ dest' = dest /\ at' = "idle"
    BY <1>2 DEF emit, drainVars, Draining, Working
  <2>2. ASSUME NEW p \in Plugin PROVE Due(p, dest[p])'
    <3>1. CASE listed[p] \/ dest[p] = NoFile
      BY <2>1, <3>1 DEF Due
    <3>2. dropped[p] \subseteq dropped'[p]
      BY <1>2 DEF emit
    <3>3. CASE dest[p] \in Downloads /\ dest[p] \in Ahead(p)
      <4>1. dest[p] \in Queued(outbox[p]) /\ p \in 1..Plugins
        BY <2>1, <3>3 DEF Ahead, Queued, Plugin
      <4>2. dest[p] \in Subscribed[p]
        <5>1. PICK k \in 1..Len(outbox[p]) : dest[p] = outbox[p][k] /\ outbox[p][k] \in Event
          BY <4>1 DEF Queued, ToSet, TypeOK
        <5>2. outbox[p][k] \in Owed(p)
          BY <5>1 DEF Ordered
        <5> QED BY <5>1, <5>2 DEF Owed
      <4>3. dest[p] \in Queued(outbox'[p]) \cup dropped'[p]
        BY <1>2, <4>1, <4>2 DEF emit
      <4> QED BY <2>1, <3>3, <4>3 DEF Due, Ahead, Queued
    <3> QED BY <2>1, <3>1, <3>2, <3>3 DEF Books, Due
  <2> QED BY <2>1, <2>2 DEF Books
<1>3. CASE Drain \/ SkipOutbox \/ ClearOutbox \/ ReadOutbox \/ DropLine \/ SendRequest \/ RequestFails \/ ParkFails
           \/ Rewrite \/ RewriteFails \/ PowerLoss \/ Commit
  <2>1. UNCHANGED <<emitted, dest>> /\ at' # "swap"
    BY <1>3 DEF Drain, SkipOutbox, ClearOutbox, ReadOutbox, DropLine, SendRequest, RequestFails, ParkFails,
         Rewrite, RewriteFails, PowerLoss, Commit, NextOutbox, Delivered, Stalled
  <2>2. ASSUME NEW p \in Plugin PROVE listed'[p] = listed[p] \/ listed'[p]
    <3>1. CASE Commit
      BY <3>1 DEF Commit, TypeOK
    <3>2. CASE ~Commit
      BY <1>3, <3>2 DEF Drain, SkipOutbox, ClearOutbox, ReadOutbox, DropLine, SendRequest, RequestFails,
           ParkFails, Rewrite, RewriteFails, PowerLoss
    <3> QED BY <3>1, <3>2
  <2> QED BY <1>0, <1>1, <2>1, <2>2 DEF Books
<1>4. CASE Calm \/ UNCHANGED vars
  <2>1. UNCHANGED <<emitted, dest, bak, listed, at, hadDest, cur>>
    BY <1>4 DEF Calm, vars, drainVars
  <2>2. cur \in Plugin \/ at # "swap"
    BY DEF DrainInv
  <2> QED BY <1>0, <1>1, <2>1, <2>2 DEF Books
<1>5. CASE Download
  BY <1>0, <1>1, <1>5 DEF Download, Books, AtLine
<1>6. CASE Park
  BY <1>0, <1>1, <1>6 DEF Park, Books, Due, DrainInv
<1>7. CASE SwapIn
  <2>1. /\ cur \in Plugin /\ cur' = cur /\ emitted' = emitted /\ at' = "commit"
        /\ \A p \in Plugin \ {cur} : listed'[p] = listed[p] /\ dest'[p] = dest[p]
    BY <1>7 DEF SwapIn, DrainInv, TypeOK
  <2>2. dest'[cur] = CurrentLine /\ CurrentLine \in Downloads
    BY <1>7, <2>1 DEF SwapIn, DrainInv, CurrentLine, TypeOK
  <2>3. CurrentLine \in Ahead(cur)'
    <3>1. pos + 1 \in (pos + 1)..Len(raw)
      BY <1>7 DEF SwapIn, DrainInv, TypeOK
    <3> QED BY <1>7, <3>1 DEF SwapIn, Ahead, Draining, Working, CurrentLine
  <2>4. Due(cur, dest[cur])'
    BY <2>1, <2>2, <2>3 DEF Due
  <2>5. \A p \in Plugin \ {cur} : Due(p, dest[p])'
    BY <1>0, <1>1, <2>1 DEF Books
  <2> QED BY <2>1, <2>4, <2>5 DEF Books
<1>8. CASE SwapFails
  <2>1. /\ cur \in Plugin /\ emitted' = emitted /\ listed' = listed /\ at' # "swap"
    BY <1>8 DEF SwapFails, Stalled, DrainInv
  <2>2. ASSUME NEW p \in Plugin PROVE Due(p, dest[p]) /\ (hadDest => Due(cur, bak[cur]))
    BY <1>8 DEF SwapFails, Books
  <2>3. CASE dest' = dest
    BY <1>0, <1>1, <2>1, <2>2, <2>3 DEF Books
  <2>4. CASE hadDest /\ dest' = [dest EXCEPT ![cur] = bak[cur]]
    <3>1. dest'[cur] = bak[cur] /\ \A p \in Plugin \ {cur} : dest'[p] = dest[p]
      BY <2>1, <2>4 DEF TypeOK
    <3> QED BY <1>0, <1>1, <2>1, <2>2, <2>4, <3>1 DEF Books
  <2> QED BY <1>8, <2>3, <2>4 DEF SwapFails
<1> QED BY <1>2, <1>3, <1>4, <1>5, <1>6, <1>7, <1>8 DEF Next, DrainStep

-----------------------------------------------------------------------------
(* Order. *)

\* An outbox keeps its order: what is appended is the latest event, and what is
\* written anew is the end of what was there.
LEMMA QueuesStep ==
  ASSUME TypeOK, DrainInv, Ordered, [Next]_vars, NEW p \in Plugin
  PROVE  /\ Sorted(outbox'[p])
         /\ \A k \in 1..Len(outbox'[p]) : outbox'[p][k] \in Event => outbox'[p][k] \in Owed(p)'
<1> USE Numbers
<1>1. /\ Sorted(outbox[p]) /\ outbox[p] \in Seq(Line) /\ Len(outbox[p]) \in Nat
      /\ \A k \in 1..Len(outbox[p]) : outbox[p][k] \in Event => outbox[p][k] \in Owed(p)
  BY DEF Ordered, TypeOK
<1>2. Owed(p) \subseteq Owed(p)'
  <2>1. emitted' \in {emitted, emitted + 1} /\ emitted \in Nat
    BY NothingForgotten DEF Next, emit, TypeOK
  <2> QED BY <2>1 DEF Owed
<1>3. CASE outbox'[p] = outbox[p]
  BY <1>1, <1>2, <1>3
<1>4. CASE outbox'[p] = <<>>
  <2>1. Len(outbox'[p]) = 0
    BY <1>4
  <2> QED BY <2>1 DEF Sorted
<1>5. CASE emit /\ emitted' \in Subscribed[p] /\ outbox'[p] \in Appends(outbox[p], emitted')
  <2> DEFINE e == emitted'
             new == outbox'[p]
             old == outbox[p]
  <2>1. e = emitted + 1 /\ emitted \in Nat /\ e \in Event /\ e \in Owed(p)'
    <3>1. emitted' = emitted + 1 /\ emitted \in Nat /\ emitted' <= Events
      BY <1>5 DEF emit, TypeOK
    <3> QED BY <1>5, <3>1 DEF Event, Owed
  <2>2. /\ new \in Seq(Line)
        /\ \A k \in 1..Len(new) : new[k] \in Event => new[k] = e \/ (k \in 1..Len(old) /\ new[k] = old[k])
        /\ \A j, k \in 1..Len(new) : j < k /\ new[k] \in Event /\ new[j] \in Event =>
             j \in 1..Len(old) /\ new[j] = old[j]
    BY <1>1, <1>5, <2>1, AppendsKeepOrder
  <2>3. \A k \in 1..Len(old) : old[k] \in Event => old[k] < e
    BY <1>1, <2>1 DEF Owed
  <2> HIDE DEF e, new, old
  <2>4. \A k \in 1..Len(new) : new[k] \in Event => new[k] \in Owed(p)'
    BY <1>1, <1>2, <2>1, <2>2 DEF old
  <2>5. Sorted(new)
    <3> SUFFICES ASSUME NEW j \in 1..Len(new), NEW k \in 1..Len(new),
                        j < k, new[j] \in Event, new[k] \in Event
                 PROVE  new[j] < new[k]
      BY DEF Sorted
    <3>1. j \in 1..Len(old) /\ new[j] = old[j]
      BY <2>2
    <3>2. CASE new[k] = e
      BY <2>3, <3>1, <3>2
    <3>3. CASE k \in 1..Len(old) /\ new[k] = old[k]
      BY <1>1, <3>1, <3>3 DEF Sorted, old
    <3> QED BY <2>2, <3>2, <3>3
  <2> QED BY <2>4, <2>5 DEF new
<1>6. CASE Rewrite /\ p = cur
  <2>1. outbox'[p] = Rest /\ outbox[p] = raw /\ pos \in Nat
    BY <1>6 DEF Rewrite, Done, AtLine, DrainInv, Working, TypeOK
  <2> DEFINE rest == Rest
  <2>2. Len(rest) = Len(raw) - pos /\ \A k \in 1..(Len(raw) - pos) : rest[k] = raw[pos + k]
    BY RestIsQueue
  <2> HIDE DEF rest
  <2>3. \A k \in 1..Len(rest) : rest[k] \in Event => rest[k] \in Owed(p)'
    BY <1>1, <1>2, <2>1, <2>2
  <2>4. Sorted(rest)
    <3> SUFFICES ASSUME NEW j \in 1..Len(rest), NEW k \in 1..Len(rest),
                        j < k, rest[j] \in Event, rest[k] \in Event
                 PROVE  rest[j] < rest[k]
      BY DEF Sorted
    <3>1. pos + j \in 1..Len(raw) /\ pos + k \in 1..Len(raw) /\ pos + j < pos + k
      BY <1>1, <2>1, <2>2
    <3>2. rest[j] = raw[pos + j] /\ rest[k] = raw[pos + k]
      BY <2>2
    <3> QED BY <1>1, <2>1, <3>1, <3>2 DEF Sorted
  <2> QED BY <2>1, <2>3, <2>4 DEF rest
<1>7. CASE emit
  BY <1>3, <1>5, <1>7, EmitOutboxes
<1>8. CASE ClearOutbox \/ Rewrite
  BY <1>3, <1>4, <1>6, <1>8 DEF ClearOutbox, Rewrite, TypeOK
<1>9. CASE ~emit /\ ~ClearOutbox /\ ~Rewrite
  <2>1. outbox' = outbox
    BY <1>9 DEF Next, DrainStep, Drain, SkipOutbox, ReadOutbox, DropLine, SendRequest, RequestFails, Download, Park,
       ParkFails, SwapIn, SwapFails, Commit, RewriteFails, PowerLoss, Calm, vars
  <2> QED BY <1>3, <2>1
<1> QED BY <1>7, <1>8, <1>9

\* What arrives is the first line that lies ahead, so all that is owed comes after it.
LEMMA ArrivalStep ==
  ASSUME TypeOK, DrainInv, Ordered, Delivery, [Next]_vars, NEW p \in Plugin, NEW e \in arrived'[p] \ arrived[p]
  PROVE  /\ e \in Owed(p) /\ ~emit
         /\ \A d \in Owed(p) \ (arrived[p] \cup dropped[p]) : d = e \/ e < d
<1> USE Numbers
<1>1. /\ p = cur /\ e = CurrentLine /\ e \in Event /\ at \in Working /\ pos < Len(raw) /\ ~emit
  <2>1. SendRequest \/ RequestFails \/ Commit
    BY DEF Next, emit, DrainStep, Drain, SkipOutbox, ClearOutbox, ReadOutbox, DropLine, Download, Park,
       ParkFails, SwapIn, SwapFails, Rewrite, RewriteFails, PowerLoss, Calm, vars
  <2>2. /\ at \in Working /\ pos < Len(raw) /\ CurrentLine \in Event
    BY <2>1 DEF SendRequest, RequestFails, Commit, AtLine, DrainInv, Working, CurrentLine
  <2>3. arrived' = [arrived EXCEPT ![cur] = @ \cup {CurrentLine}]
    BY <2>1 DEF SendRequest, RequestFails, Commit, Arrives
  <2>4. ~emit
    BY <2>2 DEF emit, Working
  <2> QED BY <2>2, <2>3, <2>4 DEF TypeOK
<1>2. raw = outbox[p] /\ pos \in Nat /\ Len(raw) \in Nat /\ Sorted(raw)
      /\ \A k \in 1..Len(raw) : raw[k] \in Event => raw[k] \in Owed(p)
  BY <1>1 DEF Ordered, DrainInv, TypeOK
<1>3. e \in Owed(p)
  BY <1>1, <1>2 DEF CurrentLine
<1>4. ASSUME NEW d \in Owed(p) \ (arrived[p] \cup dropped[p]) PROVE d = e \/ e < d
  <2>1. PICK k \in (pos + 1)..Len(raw) : d = raw[k]
    BY <1>1, <1>4 DEF Delivery, Ahead, Draining
  <2>2. d \in Event
    BY <1>4, SizesAssumption DEF Owed, TypeOK, Event, Plugin
  <2>3. CASE k = pos + 1
    BY <1>1, <2>1, <2>3 DEF CurrentLine
  <2>4. CASE k # pos + 1
    BY <1>1, <1>2, <2>1, <2>2, <2>4 DEF Sorted, CurrentLine
  <2> QED BY <2>3, <2>4
<1> QED BY <1>1, <1>3, <1>4

LEMMA OrderedStep == ASSUME TypeOK, DrainInv, Ordered, Delivery, TypeOK', [Next]_vars PROVE Ordered'
<1> USE Numbers
<1> SUFFICES ASSUME NEW p \in Plugin
             PROVE  /\ arrived'[p] \subseteq 1..emitted'
                    /\ \A e \in Owed(p)' \ (arrived'[p] \cup dropped'[p]) : \A d \in arrived'[p] : d < e
  BY QueuesStep DEF Ordered
<1>1. emitted \in Nat /\ emitted' \in Nat /\ arrived[p] \subseteq 1..emitted
  BY DEF TypeOK, Ordered
<1>2. CASE emit
  <2>1. emitted' = emitted + 1 /\ arrived'[p] = arrived[p] /\ dropped[p] \subseteq dropped'[p]
    BY <1>2 DEF emit, TypeOK
  <2>2. \A e \in Owed(p)' : e \in Owed(p) \/ e = emitted'
    BY <1>1, <2>1 DEF Owed
  <2> QED BY <1>1, <2>1, <2>2 DEF Ordered
<1>3. CASE ~emit
  <2>1. emitted' = emitted /\ arrived[p] \subseteq arrived'[p] /\ dropped[p] \subseteq dropped'[p]
    BY <1>3, NothingForgotten DEF Next
  <2>2. \A e \in arrived'[p] \ arrived[p] : e \in Owed(p) /\
          \A d \in Owed(p) \ (arrived[p] \cup dropped[p]) : d = e \/ e < d
    BY ArrivalStep
  <2> QED BY <1>1, <2>1, <2>2 DEF Ordered, Owed
<1> QED BY <1>2, <1>3

-----------------------------------------------------------------------------
(* The theorems. *)

LEMMA InvariantHoldsAtFirst == Init => IInv
<1> SUFFICES ASSUME Init PROVE IInv
  OBVIOUS
<1> USE Numbers DEF Init
<1>1. TypeOK
  <2>1. outbox \in [Plugin -> Seq(Line)] /\ raw \in Seq(Line) /\ pos \in 0..Len(raw)
    OBVIOUS
  <2>2. dest \in [Plugin -> File] /\ bak \in [Plugin -> File] /\ listed \in [Plugin -> BOOLEAN]
    BY DEF File
  <2>3. emitted \in 0..Events /\ cur \in 0..Plugins /\ budget \in 0..MaxEvents
    OBVIOUS
  <2> QED BY <2>1, <2>2, <2>3 DEF TypeOK
<1>2. DrainInv
  BY DEF DrainInv, Working
<1>3. Delivery /\ Books
  BY DEF Delivery, Owed, Books, Due
<1>4. Ordered
  <2>1. \A p \in Plugin : Len(outbox[p]) = 0 /\ arrived[p] = {}
    OBVIOUS
  <2> QED BY <2>1 DEF Ordered, Sorted
<1> QED BY <1>1, <1>2, <1>3, <1>4 DEF IInv

LEMMA InvariantKept == IInv /\ [Next]_vars => IInv'
  BY TypeStep, DrainInvStep, DeliveryStep, BooksStep, OrderedStep DEF IInv

\* The invariant of every reachable state.
LEMMA Invariance == Spec => []IInv
<1> QED BY InvariantHoldsAtFirst, InvariantKept, PTL DEF Spec

\* PluginEvents.cpp:37-47, 403-461: the state keeps its types, whatever an outbox holds.
THEOREM TypeCorrect == Spec => []TypeOK
<1>1. IInv => TypeOK
  BY DEF IInv
<1> QED BY <1>1, Invariance, PTL

\* docs/plugin-events.md: delivery is at least once. Lines leave an outbox (449-458)
\* only when their event has arrived or was given up.
THEOREM DeliveredAtLeastOnce == Spec => []AtLeastOnce
<1>1. IInv => AtLeastOnce
  BY AheadIsQueued DEF IInv, Delivery, AtLeastOnce, Owed
<1> QED BY <1>1, Invariance, PTL

\* PluginEvents.cpp:434: a drain stops at the first failure so order is preserved.
THEOREM DeliveredInOrder == Spec => InOrder
<1>1. ASSUME IInv, [Next]_vars
      PROVE  [\A p \in Plugin : \A e \in arrived'[p] \ (arrived[p] \cup dropped[p]) :
                \A d \in arrived[p] : d < e]_vars
  BY <1>1, ArrivalStep DEF IInv, Ordered
<1> QED BY <1>1, Invariance, PTL DEF Spec, InOrder

\* PluginEvents.cpp:353-361: between the rename that puts a book in place and the
\* mark for the library, the event stays in the outbox.
THEOREM BooksAreListed == Spec => []FreshBookIsDue
<1>1. IInv => FreshBookIsDue
  BY AheadIsQueued DEF IInv, Books, Due, FreshBookIsDue
<1> QED BY <1>1, Invariance, PTL
-----------------------------------------------------------------------------
(* Refinement: the outboxes are the queues that are promised.              *)

kept == [p \in Plugin |-> Queued(outbox[p])]

\* What is queued was emitted and is subscribed to.
LEMMA QueuedIsOwed == ASSUME Ordered, TypeOK, NEW p \in Plugin PROVE Queued(outbox[p]) \subseteq Owed(p)
<1> SUFFICES ASSUME NEW e \in Queued(outbox[p]) PROVE e \in Owed(p)
  OBVIOUS
<1>1. outbox[p] \in Seq(Line)
  BY DEF TypeOK
<1>2. PICK k \in 1..Len(outbox[p]) : outbox[p][k] = e /\ e \in Event
  BY <1>1 DEF Queued, ToSet
<1> QED BY <1>2 DEF Ordered

\* Of the outbox that is drained, what does not lie ahead is settled.
LEMMA BehindIsSettled ==
  ASSUME IInv, at \in Working, NEW e \in Queued(outbox[cur])
  PROVE  e \in {raw[k] : k \in (pos + 1)..Len(raw)} \/ e \in arrived[cur] \cup dropped[cur]
<1>1. cur \in Plugin
  BY DEF IInv, DrainInv, Working
<1>2. e \in Owed(cur)
  BY <1>1, QueuedIsOwed DEF IInv
<1> QED BY <1>1, <1>2 DEF IInv, Delivery, Ahead, Draining

\* The line the drain is at is queued, and nothing older is outstanding.
LEMMA LineIsOldest ==
  ASSUME IInv, at \in Working, pos < Len(raw), CurrentLine \in Event
  PROVE  /\ CurrentLine \in Queued(outbox[cur])
         /\ \A d \in Queued(outbox[cur]) : d < CurrentLine => d \in arrived[cur] \cup dropped[cur]
<1>1. /\ cur \in Plugin /\ outbox[cur] = raw /\ raw \in Seq(Line) /\ Sorted(raw)
      /\ pos \in 0..Len(raw) /\ Len(raw) \in Nat
  BY DEF IInv, DrainInv, TypeOK, Ordered, Working
<1>2. CurrentLine \in Queued(outbox[cur])
  BY <1>1 DEF Queued, ToSet, CurrentLine
<1>3. ASSUME NEW d \in Queued(outbox[cur]), d < CurrentLine
      PROVE  d \in arrived[cur] \cup dropped[cur]
  <2>1. ~(d \in {raw[k] : k \in (pos + 1)..Len(raw)})
    <3> SUFFICES ASSUME NEW k \in (pos + 1)..Len(raw), d = raw[k] PROVE FALSE
      OBVIOUS
    <3>1. d \in Event /\ d \in Nat /\ CurrentLine \in Nat
      BY <1>3, Numbers DEF Queued
    <3>2. CASE k = pos + 1
      BY <1>3, <3>1, <3>2 DEF CurrentLine
    <3>3. CASE k # pos + 1
      BY <1>1, <1>3, <3>1, <3>3 DEF Sorted, CurrentLine
    <3> QED BY <3>2, <3>3
  <2> QED BY <1>3, <2>1, BehindIsSettled
<1> QED BY <1>2, <1>3

LEMMA QueueInit == Init => Queues!Init
<1>1. Init => \A p \in Plugin : Queued(outbox[p]) = {}
  BY DEF Init, Queued, ToSet
<1> QED BY <1>1 DEF Init, Queues!Init

\* What an append keeps: the event or not, what was there before or nothing of it.
LEMMA QueuedAppend ==
  ASSUME NEW queue \in Seq(Line), NEW line \in Line
  PROVE  /\ line \in Event => Queued(Append(queue, line)) = Queued(queue) \cup {line}
         /\ line \notin Event => Queued(Append(queue, line)) = Queued(queue)
<1> DEFINE longer == Append(queue, line)
<1>1. /\ longer \in Seq(Line) /\ Len(longer) = Len(queue) + 1 /\ Len(queue) \in Nat
      /\ longer[Len(queue) + 1] = line
      /\ \A k \in 1..Len(queue) : longer[k] = queue[k]
  OBVIOUS
<1> HIDE DEF longer
<1>2. ToSet(longer) = {longer[k] : k \in 1..(Len(queue) + 1)} /\ ToSet(queue) = {queue[k] : k \in 1..Len(queue)}
  BY <1>1 DEF ToSet
<1>3. ToSet(longer) = ToSet(queue) \cup {line}
  <2>1. \A k \in 1..(Len(queue) + 1) : k \in 1..Len(queue) \/ k = Len(queue) + 1
    BY <1>1
  <2>2. \A k \in 1..Len(queue) : k \in 1..(Len(queue) + 1)
    BY <1>1
  <2>3. Len(queue) + 1 \in 1..(Len(queue) + 1)
    BY <1>1
  <2> QED BY <1>1, <1>2, <2>1, <2>2, <2>3
<1>4. \A x : x \in Queued(longer) <=> x \in Queued(queue) \/ (x = line /\ line \in Event)
  BY <1>3 DEF Queued
<1> QED BY <1>4 DEF longer

LEMMA AppendsQueued ==
  ASSUME NEW queue \in Seq(Line), NEW e \in Event, NEW result \in Appends(queue, e)
  PROVE  Queued(result) \in {Queued(queue) \cup {e}, Queued(queue), {e}, {}}
<1>1. PICK base \in Bases(queue) : result = Appended(base, e) \/ result = base \/ result = Cut(base)
  <2>1. result \in {Appended(q, e) : q \in Bases(queue)} \cup Bases(queue) \cup {Cut(q) : q \in Bases(queue)}
    BY DEF Appends
  <2> QED BY <2>1
<1>2. base \in {queue, <<>>}
  BY <1>1 DEF Bases, Kept
<1>3. Queued(<<>>) = {}
  BY DEF Queued, ToSet
<1>4. base \in Seq(Line) /\ Queued(base) \in {Queued(queue), {}}
  <2>1. CASE base = queue
    BY <2>1
  <2>2. CASE base = <<>>
    BY <1>3, <2>2
  <2> QED BY <1>2, <2>1, <2>2
<1>5. Torn \in Line /\ Corrupt \in Line /\ e \in Line
  BY Numbers
<1> HIDE DEF Event, Line, Torn, Corrupt
<1>6. Torn \notin Event /\ Corrupt \notin Event
  BY Numbers
<1>7. CASE EndsTorn(base) /\ result = Append(Front(base), Corrupt)
  <2> DEFINE front == Front(base)
  <2>1. base # <<>> /\ Len(base) \in Nat /\ base[Len(base)] = Torn
    BY <1>4, <1>7 DEF EndsTorn, Last
  <2>2. front \in Seq(Line) /\ Len(front) = Len(base) - 1 /\ \A k \in 1..(Len(base) - 1) : front[k] = base[k]
    BY <1>4, <2>1, FrontOfLines
  <2> HIDE DEF front
  <2>3. base = Append(front, Torn)
    BY <1>4, <2>1, <2>2
  <2>4. Queued(result) = Queued(front) /\ Queued(base) = Queued(front)
    <3>1. Queued(Append(front, Torn)) = Queued(front) /\ Queued(Append(front, Corrupt)) = Queued(front)
      BY <1>5, <1>6, <2>2, QueuedAppend
    <3> QED BY <1>7, <2>3, <3>1 DEF front
  <2> QED BY <1>4, <2>4
<1>8. CASE result = Append(base, e)
  <2>1. Queued(result) = Queued(base) \cup {e}
    BY <1>4, <1>5, <1>8, <1>6, QueuedAppend
  <2> QED BY <1>4, <2>1
<1>9. CASE result = Append(base, Torn)
  <2>1. Queued(result) = Queued(base)
    BY <1>4, <1>5, <1>9, <1>6, QueuedAppend
  <2> QED BY <1>4, <2>1
<1>10. CASE result = base
  BY <1>4, <1>10
<1> QED BY <1>1, <1>7, <1>8, <1>9, <1>10 DEF Appended, Cut

\* emit(): what an append loses it has counted as given up.
LEMMA QueueEmit == ASSUME IInv, emit PROVE Queues!Emit
<1>1. emitted \in Nat /\ emitted' = emitted + 1 /\ emitted + 1 \in Event /\ TypeOK
  <2>1. TypeOK /\ emitted \in Nat /\ emitted < Events /\ emitted' = emitted + 1
    BY DEF IInv, TypeOK, emit
  <2> QED BY <2>1, Numbers DEF Event
<1>2. ASSUME NEW p \in Plugin
      PROVE  /\ Queued(outbox[p]) \subseteq (1..emitted) \cap Subscribed[p]
             /\ Queued(outbox'[p]) \in IF {emitted + 1} \cap Subscribed[p] = {} THEN {Queued(outbox[p])}
                  ELSE {Queued(outbox[p]) \cup ({emitted + 1} \cap Subscribed[p]), Queued(outbox[p]),
                        {emitted + 1} \cap Subscribed[p], {}}
             /\ Queued(outbox'[p]) \in SUBSET (1..emitted + 1)
  <2>1. Queued(outbox[p]) \subseteq (1..emitted) \cap Subscribed[p]
    BY <1>1, QueuedIsOwed DEF IInv, Owed
  <2>2. 1..emitted \subseteq 1..emitted + 1 /\ emitted + 1 \in 1..emitted + 1
    BY <1>1
  <2>3. CASE outbox'[p] = outbox[p]
    BY <2>1, <2>2, <2>3
  <2>4. CASE emitted' \in Subscribed[p] /\ outbox'[p] \in Appends(outbox[p], emitted')
    <3>1. outbox[p] \in Seq(Line)
      BY <1>1 DEF TypeOK
    <3>2. Queued(outbox'[p]) \in {Queued(outbox[p]) \cup {emitted + 1}, Queued(outbox[p]), {emitted + 1}, {}}
      BY <1>1, <2>4, <3>1, AppendsQueued
    <3>3. {emitted + 1} \cap Subscribed[p] = {emitted + 1}
      BY <1>1, <2>4
    <3> QED BY <2>1, <2>2, <3>2, <3>3
  <2> QED BY <1>1, <2>1, <2>3, <2>4, EmitOutboxes
<1>3. [p \in Plugin |-> Queued(outbox'[p])] \in [Plugin -> SUBSET (1..emitted + 1)]
  BY <1>2
<1>4. \A p \in Plugin : [q \in Plugin |-> Queued(outbox'[q])][p] \in Queues!Outcomes(p)
  BY <1>2 DEF Queues!Outcomes, Queues!New
<1>5. dropped' = [p \in Plugin |-> dropped[p] \cup
        ((Queued(outbox[p]) \cup ({emitted + 1} \cap Subscribed[p])) \ Queued(outbox'[p]))]
  <2>1. \A p \in Plugin : (Queued(outbox[p]) \cup {emitted'}) \cap Subscribed[p]
                          = Queued(outbox[p]) \cup ({emitted + 1} \cap Subscribed[p])
    BY <1>1, <1>2
  <2> QED BY <2>1 DEF emit
<1>6. UNCHANGED arrived
  BY DEF emit
<1> QED BY <1>1, <1>3, <1>4, <1>5, <1>6 DEF Queues!Emit, Queues!New

\* The line the drain is at is the oldest that is outstanding.
LEMMA LineIsQueuesOldest ==
  ASSUME IInv, at \in Working, pos < Len(raw), CurrentLine \in Event
  PROVE  cur \in Plugin /\ CurrentLine \in kept[cur] /\ Queues!Oldest(cur, CurrentLine)
<1>1. cur \in Plugin
  BY DEF IInv, DrainInv, Working
<1> QED BY <1>1, LineIsOldest DEF kept, Queues!Oldest, Queues!Settled

\* An event arrives, whether the drain hears of it or not.
LEMMA QueueArrive ==
  ASSUME IInv, at \in Working, pos < Len(raw), CurrentLine \in Event,
         Arrives(CurrentLine), UNCHANGED <<emitted, outbox, dropped>>
  PROVE  Queues!Next
<1>1. Queues!Arrive(cur, CurrentLine)
  BY LineIsQueuesOldest DEF Queues!Arrive, Arrives
<1> QED BY <1>1, LineIsQueuesOldest DEF Queues!Next, kept

\* A line without a handler is passed over, and one that is no event makes no difference.
LEMMA QueuePassOver == ASSUME IInv, DropLine PROVE Queues!Next \/ UNCHANGED Queues!queueVars
<1>1. at \in Working /\ pos < Len(raw) /\ UNCHANGED <<emitted, outbox, arrived>>
  BY DEF DropLine, AtLine, Working
<1>2. CASE CurrentLine \in Event
  <2>1. Queues!PassOver(cur, CurrentLine)
    BY <1>1, <1>2, LineIsQueuesOldest DEF DropLine, Queues!PassOver
  <2> QED BY <1>1, <1>2, <2>1, LineIsQueuesOldest DEF Queues!Next, kept
<1>3. CASE CurrentLine \notin Event
  <2>1. dropped' = [dropped EXCEPT ![cur] = @ \cup {}]
    BY <1>3 DEF DropLine
  <2>2. dropped' = dropped
    BY <2>1 DEF IInv, TypeOK
  <2> QED BY <1>1, <2>2 DEF Queues!queueVars
<1> QED BY <1>2, <1>3

\* A whole outbox is given up.
LEMMA QueueGiveUp == ASSUME IInv, ClearOutbox PROVE Queues!Next
<1>1. cur \in Plugin /\ TypeOK
  BY DEF IInv, DrainInv, ClearOutbox
<1>2. Queued(<<>>) = {}
  BY DEF Queued, ToSet
<1>3. /\ \A p \in Plugin \ {cur} : outbox'[p] = outbox[p]
      /\ outbox'[cur] = <<>>
  BY <1>1 DEF ClearOutbox, TypeOK
<1>4. [p \in Plugin |-> Queued(outbox'[p])] = [kept EXCEPT ![cur] = {}]
  BY <1>1, <1>2, <1>3 DEF kept
<1>5. kept[cur] = Queued(outbox[cur])
  BY <1>1 DEF kept
<1>6. Queues!GiveUp(cur)
  BY <1>4, <1>5 DEF ClearOutbox, Queues!GiveUp, kept
<1> QED BY <1>1, <1>6 DEF Queues!Next

\* Written anew, an outbox loses only what is settled.
LEMMA QueueForget == ASSUME IInv, Rewrite PROVE Queues!Next
<1> DEFINE rest == Rest
           gone == Queued(outbox[cur]) \ Queued(rest)
<1>1. /\ at \in Working /\ cur \in Plugin /\ TypeOK /\ outbox[cur] = raw
      /\ raw \in Seq(Line) /\ pos \in 0..Len(raw) /\ Len(raw) \in Nat
  BY DEF IInv, DrainInv, Rewrite, Done, Working, TypeOK
<1>2. /\ \A p \in Plugin \ {cur} : outbox'[p] = outbox[p]
      /\ outbox'[cur] = rest
  BY <1>1 DEF Rewrite, TypeOK
<1>3. ToSet(rest) = {raw[k] : k \in (pos + 1)..Len(raw)}
  <2>1. /\ rest \in Seq(Line) /\ Len(rest) = Len(raw) - pos
        /\ \A k \in 1..(Len(raw) - pos) : rest[k] = raw[pos + k]
    BY <1>1, RestIsQueue
  <2> HIDE DEF rest
  <2>2. ToSet(rest) = {rest[k] : k \in 1..(Len(raw) - pos)}
    BY <2>1 DEF ToSet
  <2>3. \A k \in 1..(Len(raw) - pos) : pos + k \in (pos + 1)..Len(raw)
    BY <1>1
  <2>4. \A k \in (pos + 1)..Len(raw) : k - pos \in 1..(Len(raw) - pos) /\ raw[k] = rest[k - pos]
    BY <1>1, <2>1
  <2>5. ASSUME NEW x \in ToSet(rest) PROVE x \in {raw[k] : k \in (pos + 1)..Len(raw)}
    <3>1. PICK k \in 1..(Len(raw) - pos) : x = rest[k]
      BY <2>2
    <3> QED BY <2>1, <2>3, <3>1
  <2>6. ASSUME NEW k \in (pos + 1)..Len(raw) PROVE raw[k] \in ToSet(rest)
    BY <2>2, <2>4
  <2> QED BY <2>5, <2>6
<1> HIDE DEF rest
<1>4. Queued(rest) \subseteq Queued(outbox[cur])
  BY <1>1, <1>3 DEF Queued, ToSet
<1>5. gone \subseteq arrived[cur] \cup dropped[cur]
  BY <1>1, <1>3, BehindIsSettled DEF Queued
<1>6. [p \in Plugin |-> Queued(outbox'[p])] = [kept EXCEPT ![cur] = @ \ gone]
  BY <1>1, <1>2, <1>4 DEF kept
<1>7. Queues!Forget(cur, gone)
  BY <1>5, <1>6 DEF Rewrite, Queues!Forget, Queues!Settled, kept
<1> QED BY <1>1, <1>7 DEF Queues!Next

LEMMA QueueStep == ASSUME IInv, [Next]_vars PROVE Queues!Next \/ UNCHANGED Queues!queueVars
<1>1. CASE emit
  BY <1>1, QueueEmit DEF Queues!Next
<1>2. CASE SendRequest
  BY <1>2, QueueArrive DEF SendRequest, AtLine, Working
<1>3. CASE RequestFails
  BY <1>3, QueueArrive DEF RequestFails, AtLine, Working, Queues!queueVars
<1>4. CASE Commit
  <2>1. CurrentLine \in Event /\ at \in Working /\ pos < Len(raw)
    BY <1>4, Numbers DEF IInv, DrainInv, Commit, CurrentLine, Working
  <2> QED BY <1>4, <2>1, QueueArrive DEF Commit
<1>5. CASE DropLine \/ ClearOutbox
  BY <1>5, QueuePassOver, QueueGiveUp
<1>6. CASE Rewrite
  BY <1>6, QueueForget
<1>7. CASE \/ Drain \/ SkipOutbox \/ ReadOutbox \/ Download \/ Park \/ ParkFails \/ SwapIn \/ SwapFails
           \/ RewriteFails \/ PowerLoss \/ Calm \/ UNCHANGED vars
  BY <1>7 DEF Drain, SkipOutbox, ReadOutbox, Download, Park, ParkFails, SwapIn, SwapFails, RewriteFails,
     PowerLoss, Calm, vars, Queues!queueVars
<1> QED BY <1>1, <1>2, <1>3, <1>4, <1>5, <1>6, <1>7 DEF Next, DrainStep

\* docs/plugin-events.md, "At-least-once, in order per plugin": whatever the card, the network and the power
\* do, and however long a drain takes, each step of PluginEvents.cpp is one the promise allows.
THEOREM ImplementsThePromise == Spec => ImplementsEventQueue
<1>1. IInv /\ [Next]_vars => [Queues!Next]_(Queues!queueVars)
  BY QueueStep
<1>2. Spec => Queues!Init
  BY QueueInit DEF Spec
<1> QED BY <1>1, <1>2, Invariance, PTL DEF Spec, ImplementsEventQueue, Queues!SafeSpec

\* What order a queue keeps, seen from the queue alone.
Outstanding(p) == kept[p] \ (arrived[p] \cup dropped[p])
QueueOrder == \A p \in Plugin :
  /\ kept[p] \subseteq 1..emitted /\ arrived[p] \subseteq 1..emitted
  /\ \A e \in Outstanding(p) : \A d \in arrived[p] : d < e
QueueInv == emitted \in Nat /\ DOMAIN arrived = Plugin /\ DOMAIN dropped = Plugin /\ QueueOrder

\* Only what is kept and has not arrived arrives anew, the oldest that is outstanding first.
LEMMA QueueArrival ==
  ASSUME QueueInv, Queues!Next \/ UNCHANGED Queues!queueVars, NEW p \in Plugin, NEW e \in arrived'[p] \ arrived[p]
  PROVE  e \in kept[p] /\ \A d \in Outstanding(p) : ~(d < e)
<1>1. PICK q \in Plugin : \E a \in kept[q] : Queues!Arrive(q, a)
  BY DEF Queues!Next, Queues!queueVars, Queues!Emit, Queues!PassOver, Queues!GiveUp, Queues!Forget, kept
<1>2. PICK a \in kept[q] : Queues!Arrive(q, a)
  BY <1>1
<1>3. q = p /\ a = e
  BY <1>2 DEF Queues!Arrive, QueueInv
<1> QED BY <1>2, <1>3 DEF Queues!Arrive, Queues!Oldest, Queues!Settled, Outstanding, kept

LEMMA QueueOrderStep ==
  ASSUME QueueInv, Queues!Next \/ UNCHANGED Queues!queueVars
  PROVE  QueueInv'
<1>1. CASE UNCHANGED Queues!queueVars
  BY <1>1 DEF Queues!queueVars, QueueInv, QueueOrder, Outstanding, kept
<1>2. CASE Queues!Emit
  <2>1. /\ emitted' = emitted + 1 /\ arrived' = arrived /\ DOMAIN dropped' = Plugin
        /\ \A p \in Plugin : dropped[p] \subseteq dropped'[p]
        /\ \A p \in Plugin : kept'[p] \in Queues!Outcomes(p)
    BY <1>2 DEF Queues!Emit, kept
  <2>2. \A p \in Plugin : kept'[p] \subseteq kept[p] \cup {emitted + 1}
    BY <2>1 DEF Queues!Outcomes, Queues!New, kept
  <2>3. \A p \in Plugin : \A e \in Outstanding(p)' : e \in Outstanding(p) \/ e = emitted + 1
    BY <2>1, <2>2 DEF Outstanding
  <2> QED BY <2>1, <2>2, <2>3 DEF QueueInv, QueueOrder
<1>3. ASSUME NEW p \in Plugin, NEW e \in kept[p], Queues!Arrive(p, e) PROVE QueueInv'
  <2>1. /\ emitted' = emitted /\ kept' = kept /\ dropped' = dropped
        /\ arrived' = [arrived EXCEPT ![p] = @ \cup {e}]
        /\ \A d \in kept[p] : d < e => d \in arrived[p] \cup dropped[p]
    BY <1>3 DEF Queues!Arrive, Queues!Oldest, Queues!Settled, kept
  <2>2. \A q \in Plugin : arrived'[q] = IF q = p THEN arrived[p] \cup {e} ELSE arrived[q]
    BY <2>1 DEF QueueInv
  <2>3. \A d \in Outstanding(p)' : d \in Outstanding(p) /\ d # e /\ e < d
    BY <2>1, <2>2 DEF Outstanding, QueueInv, QueueOrder
  <2> QED BY <1>3, <2>1, <2>2, <2>3 DEF QueueInv, QueueOrder, Outstanding
<1>4. ASSUME NEW p \in Plugin,
             \/ \E e \in kept[p] : Queues!PassOver(p, e)
             \/ Queues!GiveUp(p)
             \/ \E gone \in SUBSET kept[p] : Queues!Forget(p, gone)
      PROVE  QueueInv'
  <2>1. emitted' = emitted /\ arrived' = arrived /\ DOMAIN dropped' = Plugin
    BY <1>4 DEF Queues!PassOver, Queues!GiveUp, Queues!Forget, QueueInv
  <2>2. \A q \in Plugin : dropped[q] \subseteq dropped'[q]
    BY <1>4 DEF Queues!PassOver, Queues!GiveUp, Queues!Forget, QueueInv
  <2>3. \A q \in Plugin : kept'[q] \subseteq kept[q]
    <3>1. CASE kept' = kept
      BY <3>1
    <3>2. CASE kept' = [kept EXCEPT ![p] = {}]
      BY <3>2 DEF kept
    <3>3. ASSUME NEW gone \in SUBSET kept[p], kept' = [kept EXCEPT ![p] = @ \ gone]
          PROVE  \A q \in Plugin : kept'[q] \subseteq kept[q]
      BY <3>3 DEF kept
    <3> QED BY <1>4, <3>1, <3>2, <3>3 DEF Queues!PassOver, Queues!GiveUp, Queues!Forget, kept
  <2> QED BY <2>1, <2>2, <2>3 DEF QueueInv, QueueOrder, Outstanding
<1> QED BY <1>1, <1>2, <1>3, <1>4 DEF Queues!Next, kept

\* docs/plugin-events.md, "order preserved": the promise is enough. Whatever keeps the
\* queues never lets an event arrive after a later one.
THEOREM ThePromiseKeepsOrder == ImplementsEventQueue => InOrder
<1>1. Queues!Init => QueueInv
  BY DEF Queues!Init, QueueInv, QueueOrder, Outstanding, kept
<1>2. QueueInv /\ [Queues!Next]_(Queues!queueVars) => QueueInv'
  BY QueueOrderStep
<1>3. ASSUME QueueInv, [Queues!Next]_(Queues!queueVars)
      PROVE  [\A p \in Plugin : \A e \in arrived'[p] \ (arrived[p] \cup dropped[p]) :
                \A d \in arrived[p] : d < e]_vars
  <2>1. ASSUME NEW p \in Plugin, NEW e \in arrived'[p] \ (arrived[p] \cup dropped[p]), NEW d \in arrived[p]
        PROVE  d < e
    <3>1. e \in Outstanding(p)
      BY <1>3, <2>1, QueueArrival DEF Outstanding
    <3> QED BY <1>3, <2>1, <3>1 DEF QueueInv, QueueOrder
  <2> QED BY <2>1
<1> QED BY <1>1, <1>2, <1>3, PTL DEF ImplementsEventQueue, Queues!SafeSpec, InOrder
=============================================================================
