--------------------------- MODULE BookTranslationProofs ---------------------------
(***************************************************************************)
(* Proofs about TranslationBatches, for any chapter, engine and limits,    *)
(* and about BookTranslation, for any number of chapters, runs and power   *)
(* losses.                                                                 *)
(*                                                                         *)
(* The rewriter: what has been read is what was written, is in the batch   *)
(* or is held, in this order (OrderInv); the pieces that came back stand   *)
(* at the places of their texts (Aligned); and as long as nothing failed   *)
(* and nobody stopped the run, a text without an answer is still to be     *)
(* asked for (AskedFor).  The book takes only the rewriter's steps and its *)
(* caller's (BookCalls), so these hold of it as well; to them come who     *)
(* owns the framebuffer and the boundary (HandInv) and what is on the card *)
(* (KeptInv, CountInv).                                                    *)
(***************************************************************************)
EXTENDS BookTranslation, TLAPS, FiniteSetTheorems, SequenceTheorems

-----------------------------------------------------------------------------
(* Sequences, and the places of the texts in a batch.                      *)

LEMMA Mapped ==
  ASSUME NEW n \in Nat, NEW S, NEW f \in [1..n -> S]
  PROVE  f \in Seq(S) /\ Len(f) = n
  BY SMT

LEMMA Joined ==
  ASSUME NEW S, NEW s \in Seq(S), NEW t \in Seq(S)
  PROVE  /\ s \o t \in Seq(S) /\ Len(s \o t) = Len(s) + Len(t)
         /\ \A i \in 1..Len(s) + Len(t) :
              (s \o t)[i] = IF i <= Len(s) THEN s[i] ELSE t[i - Len(s)]
  BY SMT

\* A sequence of length at most 1 is empty or has one element.
LEMMA Short ==
  ASSUME NEW S, NEW s \in Seq(S), Len(s) <= 1
  PROVE  s = <<>> \/ (Len(s) = 1 /\ s[1] \in S)
  <1>1. Len(s) \in Nat /\ s \in [1..Len(s) -> S]  BY LenProperties
  <1>2. Len(s) = 0 => s = <<>>  BY EmptySeq
  <1> QED  BY <1>1, <1>2

\* What is in an empty and in any batch.
LEMMA Empties ==
  /\ <<>> \in Seq(Entry) /\ <<>> \in Seq(0..MaxBlocks) /\ <<>> \in Seq(Written) /\ Len(<<>>) = 0
  /\ MaxBlocks \in Nat /\ 0 \in 0..MaxBlocks
  <1>1. MaxBlocks \in Nat  BY BatchAssumption
  <1> QED  BY <1>1, EmptySeq

LEMMA Entries ==
  ASSUME NEW s \in Seq(Entry), NEW i \in 1..Len(s)
  PROVE  /\ s[i] \in Entry /\ s[i].text \in Nat
         /\ s[i].block \in 1..MaxBlocks /\ s[i].block \in 0..MaxBlocks /\ s[i].block # 0
  <1>1. s[i] \in Entry  BY ElementOfSeq
  <1> QED  BY <1>1, Empties DEF Entry

LEMMA BatchPlaces ==
  ASSUME batch \in Seq(Entry)
  PROVE  IsFiniteSet(Texts) /\ Count \in Nat /\ (Texts # {} => Count > 0) /\ Texts \subseteq Nat
  <1>1. Len(batch) \in Nat  OBVIOUS
  <1>2. IsFiniteSet(1..Len(batch))  BY <1>1, FS_Interval
  <1>3. Texts \subseteq 1..Len(batch)  BY DEF Texts
  <1>4. IsFiniteSet(Texts)  BY <1>2, <1>3, FS_Subset
  <1>5. Texts # {} => Count > 0  BY <1>4, FS_EmptySet, FS_CardinalityType DEF Count
  <1> QED  BY <1>1, <1>3, <1>4, <1>5, FS_CardinalityType DEF Count

\* A text's position is between 1 and the number of texts.
LEMMA Positions ==
  ASSUME batch \in Seq(Entry), NEW i \in Texts
  PROVE  Position(i) \in 1..Count
  <1> DEFINE upTo == {j \in Texts : j <= i}
  <1>1. IsFiniteSet(Texts) /\ Texts \subseteq Nat  BY BatchPlaces
  <1>2. i \in upTo  BY <1>1
  <1>3. upTo \subseteq Texts  OBVIOUS
  <1>4. IsFiniteSet(upTo) /\ Cardinality(upTo) <= Count  BY <1>1, <1>3, FS_Subset DEF Count
  <1>5. Cardinality(upTo) \in Nat /\ Cardinality(upTo) # 0  BY <1>2, <1>4, FS_CardinalityType, FS_EmptySet
  <1>6. Count \in Nat  BY BatchPlaces
  <1> QED  BY <1>4, <1>5, <1>6 DEF Position

\* Two texts have two positions.
LEMMA PositionsDiffer ==
  ASSUME batch \in Seq(Entry), NEW i \in Texts, NEW k \in Texts, Position(i) = Position(k)
  PROVE  i = k
  <1> DEFINE upTo(n) == {j \in Texts : j <= n}
  <1>1. IsFiniteSet(Texts) /\ Texts \subseteq Nat  BY BatchPlaces
  <1>2. \A a, b \in Texts : a < b => Position(a) # Position(b)
    <2> SUFFICES ASSUME NEW a \in Texts, NEW b \in Texts, a < b  PROVE Position(a) # Position(b)
      OBVIOUS
    <2>1. upTo(a) \subseteq upTo(b)
      <3>1. \A j \in Texts : j <= a => j <= b  BY <1>1
      <3> QED  BY <3>1
    <2>5. b \in upTo(b) /\ b \notin upTo(a)  BY <1>1
    <2>2. upTo(b) \subseteq Texts  OBVIOUS
    <2>3. IsFiniteSet(upTo(b))  BY <1>1, <2>2, FS_Subset
    <2>4. Cardinality(upTo(a)) # Cardinality(upTo(b))  BY <2>1, <2>3, <2>5, FS_Subset
    <2> QED  BY <2>4 DEF Position
  <1> QED  BY <1>1, <1>2

-----------------------------------------------------------------------------
(* The rewriter's types.                                                   *)

LEMMA BlankTypes == BatchTypeOK /\ Blank /\ engine' \in Engines /\ cancelFlag' \in BOOLEAN /\ pc' \in Pcs
                      => BatchTypeOK'
  <1> SUFFICES ASSUME Blank, engine' \in Engines, cancelFlag' \in BOOLEAN, pc' \in Pcs  PROVE BatchTypeOK'
    OBVIOUS
  <1>1. held' \in Seq(Entry) /\ Len(held') <= 1 /\ batch' \in Seq(Entry)  BY Empties DEF Blank
  <1>2. pieces' \in Seq(0..MaxBlocks) /\ out' \in Seq(Written)  BY Empties DEF Blank
  <1>3. read' \in 0..MaxBlocks  BY Empties DEF Blank
  <1>4. /\ bytes' \in Nat /\ attempt' \in Nat /\ aborted' \in {"no", "errors", "memory"}
        /\ {translated', failures', inRow', limits', heapWaits'} \subseteq Nat
        /\ unanswered' \subseteq 1..MaxBlocks
    BY DEF Blank
  <1>6. ending' \in BOOLEAN /\ one' \in BOOLEAN /\ tooLong' \in BOOLEAN  BY DEF Blank
  <1> QED  BY <1>1, <1>2, <1>3, <1>4, <1>6 DEF BatchTypeOK

\* What a flush writes for a batch.
LEMMA WrittenType ==
  ASSUME batch \in Seq(Entry), out \in Seq(Written), NEW w \in [1..Len(batch) -> 0..MaxBlocks]
  PROVE  LET now == [i \in 1..Len(batch) |-> [block |-> batch[i].block, with |-> w[i]]]
         IN  /\ now \in Seq(Written) /\ Len(now) = Len(batch) /\ Len(batch) \in Nat
             /\ out \o now \in Seq(Written)
  <1> DEFINE now == [i \in 1..Len(batch) |-> [block |-> batch[i].block, with |-> w[i]]]
  <1>1. Len(batch) \in Nat /\ batch \in [1..Len(batch) -> Entry]  BY LenProperties
  <1>2. now \in [1..Len(batch) -> Written]  BY <1>1 DEF Entry, Written
  <1>3. now \in Seq(Written) /\ Len(now) = Len(batch)  BY <1>1, <1>2, Mapped
  <1> QED  BY <1>1, <1>3, Joined

LEMMA WithType ==
  ASSUME BatchTypeOK
  PROVE  [i \in 1..Len(batch) |-> With(i)] \in [1..Len(batch) -> 0..MaxBlocks]
  <1> SUFFICES ASSUME NEW i \in 1..Len(batch)  PROVE With(i) \in 0..MaxBlocks
    OBVIOUS
  <1>1. CASE i \in Texts /\ Position(i) <= Len(pieces)
    <2>1. Position(i) \in Nat /\ Position(i) >= 1
      BY <1>1, Positions, BatchPlaces DEF BatchTypeOK
    <2>2. Position(i) \in 1..Len(pieces)  BY <1>1, <2>1 DEF BatchTypeOK
    <2> QED  BY <1>1, <2>2, ElementOfSeq DEF With, BatchTypeOK
  <1>2. CASE ~(i \in Texts /\ Position(i) <= Len(pieces))
    BY <1>2, BatchAssumption DEF With
  <1> QED  BY <1>1, <1>2

LEMMA ResumeTypes ==
  ASSUME BatchTypeOK, Resume
  PROVE  batch' \in Seq(Entry) /\ held' \in Seq(Entry) /\ Len(held') <= 1 /\ bytes' \in Nat /\ pc' \in Pcs
  <1>1. held # <<>> => held[1] \in Entry  BY Short DEF BatchTypeOK
  <1> QED  BY <1>1, EmptySeq DEF BatchTypeOK, Resume, Entry, Pcs

LEMMA GiveUpTypes ==
  ASSUME BatchTypeOK, NEW fatal \in BOOLEAN, GiveUp(fatal), limits' \in Nat
  PROVE  BatchTypeOK'
  <1>1. IsFiniteSet(Texts) /\ AskedNow \subseteq Texts
    BY BatchPlaces DEF BatchTypeOK, AskedNow
  <1>2. Cardinality(AskedNow) \in Nat  BY <1>1, FS_Subset, FS_CardinalityType
  <1>3. Append(pieces, 0) \in Seq(0..MaxBlocks)  BY BatchAssumption, AppendProperties DEF BatchTypeOK
  <1>4. failures' \in Nat /\ inRow' \in Nat  BY <1>2 DEF GiveUp, BatchTypeOK
  <1>5. pieces' \in Seq(0..MaxBlocks)  BY <1>3, EmptySeq DEF GiveUp
  <1> QED
    BY <1>4, <1>5 DEF GiveUp, BatchTypeOK, textVars, outVars, observed, Pcs

LEMMA RewriteTypes ==
  ASSUME BatchTypeOK, Rewrite
  PROVE  BatchTypeOK'
  <1> USE DEF BatchTypeOK, Pcs, textVars, requestVars, outVars, countVars, observed
  <1>1. CASE ReadBlock
    <2> PICK size \in Sizes :
          /\ Take(size, [block |-> read + 1, text |-> Sendable(size)])
          /\ unanswered' = unanswered \cup (IF Sendable(size) # 0 THEN {read'} ELSE {})
          /\ tooLong' = (tooLong \/ size > MaxText)
      BY <1>1 DEF ReadBlock
    <2> DEFINE entry == [block |-> read + 1, text |-> Sendable(size)]
    <2>1. read' \in 1..MaxBlocks /\ read' = read + 1  BY <1>1, BatchAssumption DEF ReadBlock
    <2>2. entry \in Entry /\ entry.text \in Nat  BY <2>1, BatchAssumption DEF Sendable, Entry
    <2>3. Append(batch, entry) \in Seq(Entry)  BY <2>2, AppendProperties
    <2>4. <<entry>> \in Seq(Entry) /\ Len(<<entry>>) = 1  BY <2>2
    <2>5. /\ batch' \in Seq(Entry) /\ held' \in Seq(Entry) /\ Len(held') <= 1
          /\ bytes' \in Nat /\ pc' \in {"flush", "parse"}
      <3>1. batch \in Seq(Entry) /\ held \in Seq(Entry) /\ Len(held) <= 1 /\ bytes \in Nat  OBVIOUS
      <3>2. Take(size, entry)  OBVIOUS
      <3> HIDE DEF BatchTypeOK, entry
      <3>3. CASE MustFlushFirst(size)
        <4>1. held' = <<entry>> /\ pc' = "flush" /\ batch' = batch /\ bytes' = bytes  BY <3>2, <3>3 DEF Take
        <4> QED  BY <2>4, <3>1, <4>1
      <3>4. CASE ~MustFlushFirst(size)
        <4>1. batch' = Append(batch, entry) /\ bytes' = bytes + entry.text /\ pc' \in {"flush", "parse"} /\ held' = held
          BY <3>2, <3>4 DEF Take
        <4> QED  BY <2>2, <2>3, <3>1, <4>1
      <3> QED  BY <3>3, <3>4
    <2>6. unanswered' \subseteq 1..MaxBlocks  BY <2>1
    <2> QED  BY <1>1, <2>1, <2>5, <2>6 DEF ReadBlock
  <1>2. CASE EndOfInput  BY <1>2 DEF EndOfInput
  <1>3. CASE FlushUntranslated
    <2> DEFINE w == [i \in 1..Len(batch) |-> 0]
    <2>1. w \in [1..Len(batch) -> 0..MaxBlocks]  BY BatchAssumption
    <2>2. out' = out \o [i \in 1..Len(batch) |-> [block |-> batch[i].block, with |-> w[i]]]
      BY <1>3 DEF FlushUntranslated
    <2>3. out' \in Seq(Written)  BY <2>1, <2>2, WrittenType
    <2>4. Resume  BY <1>3 DEF FlushUntranslated
    <2> QED  BY <1>3, <2>3, <2>4, ResumeTypes DEF FlushUntranslated
  <1>4. CASE FlushNothing  BY <1>4, Empties DEF FlushNothing
  <1>5. CASE FlushTexts  BY <1>5, Empties DEF FlushTexts
  <1>6. CASE HeapTimesOut  BY <1>6, BatchPlaces DEF HeapTimesOut
  <1>7. CASE HeapWaitCancelled  BY <1>7 DEF HeapWaitCancelled
  <1>8. CASE HeapReady  BY <1>8 DEF HeapReady
  <1>9. CASE NextParagraph  BY <1>9 DEF NextParagraph
  <1>10. CASE NoMoreParagraphs  BY <1>10 DEF NoMoreParagraphs
  <1>11. CASE ParagraphTranslated
    <2> PICK i \in AskedNow : \E piece \in {0, batch[i].block} : pieces' = Append(pieces, piece)
      BY <1>11 DEF ParagraphTranslated
    <2> PICK piece \in {0, batch[i].block} : pieces' = Append(pieces, piece)
      OBVIOUS
    <2>1. i \in 1..Len(batch)  BY DEF AskedNow, Texts
    <2>2. piece \in 0..MaxBlocks  BY <2>1, Entries, Empties
    <2>3. pieces' \in Seq(0..MaxBlocks)  BY <2>2, AppendProperties
    <2>4. unanswered' \subseteq 1..MaxBlocks  BY <1>11 DEF ParagraphTranslated
    <2> QED  BY <1>11, <2>3, <2>4 DEF ParagraphTranslated
  <1>12. CASE BatchTranslated
    <2>1. \A i \in Texts : batch[i].block \in 0..MaxBlocks  BY Entries DEF Texts
    <2>2. Blocks(Texts) \cup {0} \subseteq 0..MaxBlocks  BY <2>1, Empties DEF Blocks
    <2>3. pieces' \in [1..Count -> 0..MaxBlocks]  BY <1>12, <2>2 DEF BatchTranslated, Replies
    <2>4. pieces' \in Seq(0..MaxBlocks)  BY <2>3, BatchPlaces, Mapped
    <2>5. unanswered' \subseteq 1..MaxBlocks  BY <1>12 DEF BatchTranslated
    <2> QED  BY <1>12, <2>4, <2>5 DEF BatchTranslated
  <1>13. CASE ReplyMiscounted  BY <1>13, GiveUpTypes DEF ReplyMiscounted
  <1>14. CASE RequestRetried  BY <1>14 DEF RequestRetried, CountLimits, Codes
  <1>15. CASE RequestFails
    <2> PICK code \in Codes : CountLimits(code) /\ GiveUp(Fatal(code))  BY <1>15 DEF RequestFails
    <2>1. limits' \in Nat  BY DEF CountLimits, Codes
    <2>2. Fatal(code) \in BOOLEAN  BY DEF Fatal, TooManyLimits
    <2> QED  BY <2>1, <2>2, GiveUpTypes
  <1>16. CASE WriteOut
    <2> DEFINE w == [i \in 1..Len(batch) |-> With(i)]
               done == {i \in 1..Len(batch) : With(i) # 0}
    <2>1. w \in [1..Len(batch) -> 0..MaxBlocks]  BY WithType
    <2>2. out' = out \o [i \in 1..Len(batch) |-> [block |-> batch[i].block, with |-> w[i]]]
      BY <1>16 DEF WriteOut
    <2>3. out' \in Seq(Written) /\ Len(batch) \in Nat  BY <2>1, <2>2, WrittenType
    <2>4. IsFiniteSet(done)
      <3>1. IsFiniteSet(1..Len(batch))  BY <2>3, FS_Interval
      <3>2. done \subseteq 1..Len(batch)  OBVIOUS
      <3> QED  BY <3>1, <3>2, FS_Subset
    <2>5. translated' \in Nat  BY <1>16, <2>4, FS_CardinalityType DEF WriteOut
    <2> QED  BY <1>16, <2>3, <2>5, Empties DEF WriteOut
  <1> QED
    BY <1>1, <1>2, <1>3, <1>4, <1>5, <1>6, <1>7, <1>8, <1>9, <1>10, <1>11, <1>12, <1>13, <1>14, <1>15,
       <1>16 DEF Rewrite, Reading, Flushing, Answering

LEMMA CallerTypes ==
  ASSUME BatchTypeOK, Caller
  PROVE  BatchTypeOK'
  <1>1. CASE Idle  BY <1>1 DEF Idle, BatchTypeOK, textVars, requestVars, outVars, countVars, observed
  <1>2. CASE Start  BY <1>2, BlankTypes DEF Start, Begin, Pcs, BatchTypeOK
  <1>3. CASE Cancel  BY <1>3 DEF Cancel, BatchTypeOK, textVars, requestVars, outVars, countVars, observed
  <1>4. CASE Drop  BY <1>4, BlankTypes DEF Drop, Forget, Pcs
  <1>5. CASE ParagraphPassed
    BY <1>5 DEF ParagraphPassed, BatchTypeOK, Pcs, textVars, requestVars, outVars, countVars, observed
  <1>6. CASE BatchPassed
    BY <1>6, ResumeTypes DEF BatchPassed, BatchTypeOK, requestVars, outVars, countVars, observed
  <1> QED  BY <1>1, <1>2, <1>3, <1>4, <1>5, <1>6 DEF Caller, Passing

LEMMA InitTypes == RewriteInit => BatchTypeOK
  <1> SUFFICES ASSUME RewriteInit  PROVE BatchTypeOK
    OBVIOUS
  <1>1. held \in Seq(Entry) /\ Len(held) <= 1 /\ batch \in Seq(Entry)  BY Empties DEF RewriteInit
  <1>2. pieces \in Seq(0..MaxBlocks) /\ out \in Seq(Written)  BY Empties DEF RewriteInit
  <1>3. read \in 0..MaxBlocks  BY Empties DEF RewriteInit
  <1>4. /\ bytes \in Nat /\ attempt \in Nat /\ aborted \in {"no", "errors", "memory"}
        /\ {translated, failures, inRow, limits, heapWaits} \subseteq Nat
        /\ unanswered \subseteq 1..MaxBlocks
    BY DEF RewriteInit
  <1>6. ending \in BOOLEAN /\ one \in BOOLEAN /\ tooLong \in BOOLEAN  BY DEF RewriteInit
  <1>5. engine \in Engines /\ cancelFlag \in BOOLEAN /\ pc \in Pcs  BY DEF RewriteInit, Pcs
  <1> QED  BY <1>1, <1>2, <1>3, <1>4, <1>5, <1>6 DEF BatchTypeOK

LEMMA StutterTypes == BatchTypeOK /\ UNCHANGED rewriteVars => BatchTypeOK'
  BY DEF BatchTypeOK, rewriteVars, textVars, requestVars, outVars, countVars, observed

\* The rewriter's types hold for any chapter, engine and limits.
THEOREM BatchTypes == RewriteSpec => []BatchTypeOK
  <1>1. BatchTypeOK /\ [Rewrite \/ Caller]_rewriteVars => BatchTypeOK'
    BY RewriteTypes, CallerTypes, StutterTypes
  <1> QED  BY <1>1, InitTypes, PTL DEF RewriteSpec

-----------------------------------------------------------------------------
(* Blocks and translations keep their places.                              *)

StageInv ==
  /\ pc \in {"idle", "parse", "done"} \/ ending => held = <<>>
  /\ pc = "parse" => ~ending
  /\ pc \in {"idle", "boundary", "done"} => batch = <<>>
  /\ pc = "idle" => out = <<>> /\ read = 0 /\ unanswered = {}
  /\ pc \in {"heap", "ask"} => aborted = "no"
  /\ pc = "heap" => pieces = <<>>

\* What has been read: written, then in the batch, then held.
OrderInv ==
  /\ \A i \in 1..Len(out) : out[i].block = i
  /\ \A i \in 1..Len(batch) : batch[i].block = Len(out) + i
  /\ held # <<>> => held[1].block = Len(out) + Len(batch) + 1
  /\ read = Len(out) + Len(batch) + Len(held)

\* A piece that came back stands where its text does.
PiecesFit == \A i \in Texts : Position(i) <= Len(pieces) => pieces[Position(i)] \in {0, batch[i].block}
Aligned ==
  /\ \A i \in 1..Len(out) : out[i].with \in {0, i}
  /\ pc \in {"heap", "next", "ask", "paragraph", "write"} => PiecesFit

\* Without a failure or a stop, a text without an answer is still to be asked for.
HeldText == {held[k].block : k \in {i \in 1..Len(held) : held[i].text # 0}}
Unasked == {i \in Texts : Position(i) > Len(pieces)}
ToAsk ==
  IF pc \in {"parse", "flush", "heap"} THEN HeldText \cup Blocks(Texts)
  ELSE IF pc \in {"next", "ask", "paragraph"} THEN HeldText \cup Blocks(Unasked)
  ELSE HeldText
AskedFor == failures = 0 /\ ~Stopping => unanswered \subseteq ToAsk

RewriteInv == BatchTypeOK /\ StageInv /\ OrderInv /\ AskedFor

LEMMA StageKept ==
  ASSUME RewriteInv, Rewrite \/ Caller
  PROVE  StageInv'
  <1> USE DEF textVars, requestVars, outVars, countVars, observed
  <1>0. StageInv /\ BatchTypeOK  BY DEF RewriteInv
  <1>1. CASE ReadBlock
    <2>1. PICK size \in Sizes : Take(size, [block |-> read + 1, text |-> Sendable(size)])
      BY <1>1 DEF ReadBlock
    <2>2. pc' = "flush" \/ (pc' = "parse" /\ held' = held)
      BY <2>1 DEF Take
    <2>3. pc = "parse" /\ ending' = ending  BY <1>1 DEF ReadBlock
    <2> QED  BY <1>0, <2>2, <2>3 DEF StageInv
  <1>2. CASE EndOfInput  BY <1>0, <1>2 DEF StageInv, EndOfInput
  <1>3. CASE FlushUntranslated  BY <1>0, <1>3 DEF StageInv, FlushUntranslated, Resume
  <1>4. CASE FlushNothing \/ FlushTexts  BY <1>0, <1>4 DEF StageInv, FlushNothing, FlushTexts, Stopping
  <1>5. CASE HeapTimesOut \/ HeapWaitCancelled \/ HeapReady
    BY <1>0, <1>5 DEF StageInv, HeapTimesOut, HeapWaitCancelled, HeapReady
  <1>6. CASE NextParagraph \/ NoMoreParagraphs
    BY <1>0, <1>6 DEF StageInv, NextParagraph, NoMoreParagraphs, Stopping
  <1>7. CASE ParagraphTranslated  BY <1>0, <1>7 DEF StageInv, ParagraphTranslated
  <1>8. CASE BatchTranslated  BY <1>0, <1>8 DEF StageInv, BatchTranslated
  <1>9. CASE ReplyMiscounted  BY <1>0, <1>9 DEF StageInv, ReplyMiscounted, GiveUp
  <1>10. CASE RequestRetried  BY <1>0, <1>10 DEF StageInv, RequestRetried
  <1>11. CASE RequestFails  BY <1>0, <1>11 DEF StageInv, RequestFails, GiveUp
  <1>12. CASE WriteOut  BY <1>0, <1>12 DEF StageInv, WriteOut
  <1>13. CASE Idle \/ Cancel  BY <1>0, <1>13 DEF StageInv, Idle, Cancel
  <1>14. CASE Start \/ Drop  BY <1>14 DEF StageInv, Start, Begin, Drop, Forget, Blank
  <1>15. CASE ParagraphPassed  BY <1>0, <1>15 DEF StageInv, ParagraphPassed
  <1>16. CASE BatchPassed  BY <1>0, <1>16 DEF StageInv, BatchPassed, Resume
  <1> QED
    BY <1>1, <1>2, <1>3, <1>4, <1>5, <1>6, <1>7, <1>8, <1>9, <1>10, <1>11, <1>12, <1>13, <1>14, <1>15,
       <1>16 DEF Rewrite, Reading, Flushing, Answering, Caller, Passing

\* The steps that leave what is read, batched and written alone.
Asks ==
  \/ EndOfInput \/ FlushNothing \/ FlushTexts \/ HeapTimesOut \/ HeapWaitCancelled \/ HeapReady
  \/ NextParagraph \/ NoMoreParagraphs \/ Answering \/ Idle \/ Cancel \/ ParagraphPassed

LEMMA AsksKeep == Asks => UNCHANGED <<read, held, batch, out>>
  BY DEF Asks, EndOfInput, FlushNothing, FlushTexts, HeapTimesOut, HeapWaitCancelled, HeapReady,
     NextParagraph, NoMoreParagraphs, Answering, Idle, Cancel, ParagraphPassed, ParagraphTranslated,
     BatchTranslated, ReplyMiscounted, RequestRetried, RequestFails, GiveUp, textVars, outVars

LEMMA StepsAre ==
  Rewrite \/ Caller => Asks \/ ReadBlock \/ FlushUntranslated \/ WriteOut \/ BatchPassed \/ Start \/ Drop
  BY DEF Rewrite, Reading, Flushing, Caller, Passing, Asks

\* What a flush adds to the output.
LEMMA Added ==
  ASSUME BatchTypeOK, OrderInv, NEW w \in [1..Len(batch) -> 0..MaxBlocks],
         out' = out \o [i \in 1..Len(batch) |-> [block |-> batch[i].block, with |-> w[i]]]
  PROVE  /\ Len(out) \in Nat /\ Len(batch) \in Nat /\ Len(out') = Len(out) + Len(batch)
         /\ \A i \in 1..Len(out') : out'[i].block = i
         /\ \A i \in 1..Len(out) : out'[i] = out[i]
         /\ \A i \in 1..Len(batch) : out'[Len(out) + i].with = w[i]
  <1> DEFINE now == [i \in 1..Len(batch) |-> [block |-> batch[i].block, with |-> w[i]]]
  <1>1. now \in Seq(Written) /\ Len(now) = Len(batch) /\ Len(batch) \in Nat
    BY WrittenType DEF BatchTypeOK
  <1>2. out \in Seq(Written) /\ Len(out) \in Nat  BY LenProperties DEF BatchTypeOK
  <1>3. \A i \in 1..Len(batch) : now[i].block = Len(out) + i /\ now[i].with = w[i]
    BY DEF OrderInv
  <1>4. \A i \in 1..Len(out) : out[i].block = i  BY DEF OrderInv
  <1> HIDE DEF now
  <1>5. out' = out \o now  BY DEF now
  <1>6. /\ Len(out') = Len(out) + Len(batch)
        /\ \A i \in 1..Len(out) + Len(batch) : out'[i] = IF i <= Len(out) THEN out[i] ELSE now[i - Len(out)]
    <2>1. /\ Len(out \o now) = Len(out) + Len(now)
          /\ \A i \in 1..Len(out) + Len(now) :
               (out \o now)[i] = IF i <= Len(out) THEN out[i] ELSE now[i - Len(out)]
      BY <1>1, <1>2, Joined, Zenon
    <2> QED  BY <1>1, <1>5, <2>1, Zenon
  <1>7. \A i \in 1..Len(out) : out'[i] = out[i]  BY <1>1, <1>2, <1>6
  <1>8. \A i \in 1..Len(batch) : out'[Len(out) + i] = now[i]
    <2> SUFFICES ASSUME NEW i \in 1..Len(batch)  PROVE out'[Len(out) + i] = now[i]
      OBVIOUS
    <2>1. /\ Len(out) + i \in 1..Len(out) + Len(batch) /\ ~(Len(out) + i <= Len(out))
          /\ (Len(out) + i) - Len(out) = i
      BY <1>1, <1>2
    <2> QED  BY <1>6, <2>1
  <1>9. \A i \in 1..Len(out') : out'[i].block = i
    <2> SUFFICES ASSUME NEW i \in 1..Len(out')  PROVE out'[i].block = i
      OBVIOUS
    <2>1. CASE i <= Len(out)  BY <1>2, <1>4, <1>6, <1>7, <2>1
    <2>2. CASE i > Len(out)
      <3>1. i - Len(out) \in 1..Len(batch) /\ Len(out) + (i - Len(out)) = i  BY <1>1, <1>2, <1>6, <2>2
      <3> QED  BY <1>3, <1>8, <3>1
    <2> QED  BY <1>1, <1>2, <1>6, <2>1, <2>2
  <1> QED  BY <1>1, <1>2, <1>3, <1>6, <1>7, <1>8, <1>9

\* After a flush the batch is what was held.
LEMMA HeldBecomesBatch ==
  ASSUME BatchTypeOK, StageInv, held # <<>>, batch' = held
  PROVE  Len(batch') = 1 /\ Len(held) = 1 /\ batch'[1] = held[1] /\ held[1] \in Entry
  BY Short DEF BatchTypeOK

LEMMA OrderKept ==
  ASSUME RewriteInv, Rewrite \/ Caller
  PROVE  OrderInv'
  <1>0. StageInv /\ BatchTypeOK /\ OrderInv  BY DEF RewriteInv
  <1>a. /\ Len(out) \in Nat /\ Len(batch) \in Nat /\ Len(held) \in Nat
        /\ out \in Seq(Written) /\ batch \in Seq(Entry) /\ held \in Seq(Entry)
    BY <1>0, LenProperties DEF BatchTypeOK
  <1>1. CASE Asks
    <2>1. UNCHANGED <<read, held, batch, out>>  BY <1>1, AsksKeep
    <2> QED  BY <1>0, <2>1 DEF OrderInv
  <1>2. CASE ReadBlock
    <2> PICK size \in Sizes : Take(size, [block |-> read + 1, text |-> Sendable(size)])
      BY <1>2 DEF ReadBlock
    <2> DEFINE entry == [block |-> read + 1, text |-> Sendable(size)]
    <2>1. held = <<>> /\ out' = out /\ read' = read + 1  BY <1>0, <1>2 DEF StageInv, ReadBlock, outVars
    <2>2. entry.block = Len(out) + Len(batch) + 1  BY <1>0, <1>a, <2>1, Empties DEF OrderInv
    <2>3. read' = Len(out) + Len(batch) + 1  BY <1>0, <1>a, <2>1, Empties DEF OrderInv
    <2>4. Take(size, entry)  OBVIOUS
    <2>5. entry \in Entry
      <3>1. read' \in 1..MaxBlocks  BY <1>2, Empties, <1>0 DEF ReadBlock, BatchTypeOK
      <3>2. Sendable(size) \in Nat  BY BatchAssumption DEF Sendable
      <3> QED  BY <2>1, <3>1, <3>2 DEF Entry
    <2> HIDE DEF entry
    <2>6. CASE MustFlushFirst(size)
      <3>1. held' = <<entry>> /\ batch' = batch  BY <2>4, <2>6 DEF Take
      <3>2. held'[1] = entry /\ Len(held') = 1  BY <3>1
      <3> QED  BY <1>0, <1>a, <2>1, <2>2, <2>3, <3>1, <3>2 DEF OrderInv
    <2>7. CASE ~MustFlushFirst(size)
      <3>1. batch' = Append(batch, entry) /\ held' = held  BY <2>4, <2>7 DEF Take
      <3>2. /\ Len(batch') = Len(batch) + 1 /\ batch'[Len(batch) + 1] = entry
            /\ \A i \in 1..Len(batch) : batch'[i] = batch[i]
        BY <1>a, <2>5, <3>1, AppendProperties
      <3>3. \A i \in 1..Len(batch') : batch'[i].block = Len(out) + i
        <4> SUFFICES ASSUME NEW i \in 1..Len(batch')  PROVE batch'[i].block = Len(out) + i
          OBVIOUS
        <4>1. CASE i <= Len(batch)  BY <1>0, <1>a, <3>2, <4>1 DEF OrderInv
        <4>2. CASE i > Len(batch)
          <5>1. i = Len(batch) + 1  BY <1>a, <3>2, <4>2
          <5>2. Len(out) + i = Len(out) + Len(batch) + 1  BY <1>a, <5>1
          <5> QED  BY <2>2, <3>2, <5>1, <5>2
        <4> QED  BY <1>a, <3>2, <4>1, <4>2
      <3> QED  BY <1>0, <1>a, <2>1, <2>3, <3>1, <3>2, <3>3, Empties DEF OrderInv
    <2> QED  BY <2>6, <2>7
  <1>3. CASE FlushUntranslated
    <2> DEFINE w == [i \in 1..Len(batch) |-> 0]
    <2>1. w \in [1..Len(batch) -> 0..MaxBlocks]  BY Empties
    <2>2. out' = out \o [i \in 1..Len(batch) |-> [block |-> batch[i].block, with |-> w[i]]]
      BY <1>3 DEF FlushUntranslated
    <2>3. Len(out') = Len(out) + Len(batch) /\ \A i \in 1..Len(out') : out'[i].block = i
      BY <1>0, <2>1, <2>2, Added
    <2>4. batch' = held /\ held' = <<>> /\ read' = read  BY <1>3 DEF FlushUntranslated, Resume
    <2> QED  BY <1>0, <1>a, <2>3, <2>4, Empties, HeldBecomesBatch DEF OrderInv
  <1>4. CASE WriteOut
    <2> DEFINE w == [i \in 1..Len(batch) |-> With(i)]
    <2>1. w \in [1..Len(batch) -> 0..MaxBlocks]  BY <1>0, WithType
    <2>2. out' = out \o [i \in 1..Len(batch) |-> [block |-> batch[i].block, with |-> w[i]]]
      BY <1>4 DEF WriteOut
    <2>3. Len(out') = Len(out) + Len(batch) /\ \A i \in 1..Len(out') : out'[i].block = i
      BY <1>0, <2>1, <2>2, Added
    <2>4. batch' = <<>> /\ held' = held /\ read' = read  BY <1>4 DEF WriteOut
    <2> QED  BY <1>0, <1>a, <2>3, <2>4, Empties DEF OrderInv
  <1>5. CASE BatchPassed
    <2>1. batch = <<>> /\ batch' = held /\ held' = <<>> /\ read' = read /\ out' = out
      BY <1>0, <1>5 DEF StageInv, BatchPassed, Resume, outVars
    <2> QED  BY <1>0, <1>a, <2>1, Empties, HeldBecomesBatch DEF OrderInv
  <1>6. CASE Start \/ Drop
    <2>1. read' = 0 /\ out' = <<>> /\ batch' = <<>> /\ held' = <<>>
      BY <1>6 DEF Start, Begin, Drop, Forget, Blank
    <2> QED  BY <2>1, Empties DEF OrderInv
  <1> QED  BY <1>1, <1>2, <1>3, <1>4, <1>5, <1>6, StepsAre
-----------------------------------------------------------------------------
(* Pieces and texts.                                                       *)

LEMMA SameBatch ==
  ASSUME batch' = batch
  PROVE  Texts' = Texts /\ Count' = Count /\ \A i : Position(i)' = Position(i)
  BY DEF Texts, Count, Position

\* A flush keeps translations at their blocks.
LEMMA OutAligned ==
  ASSUME BatchTypeOK, OrderInv, NEW w \in [1..Len(batch) -> 0..MaxBlocks],
         out' = out \o [i \in 1..Len(batch) |-> [block |-> batch[i].block, with |-> w[i]]],
         \A i \in 1..Len(out) : out[i].with \in {0, i},
         \A i \in 1..Len(batch) : w[i] \in {0, batch[i].block}
  PROVE  \A i \in 1..Len(out') : out'[i].with \in {0, i}
  <1>1. /\ Len(out) \in Nat /\ Len(batch) \in Nat /\ Len(out') = Len(out) + Len(batch)
        /\ \A i \in 1..Len(out) : out'[i] = out[i]
        /\ \A i \in 1..Len(batch) : out'[Len(out) + i].with = w[i]
    BY Added
  <1>2. \A i \in 1..Len(batch) : w[i] \in {0, Len(out) + i}  BY DEF OrderInv
  <1> SUFFICES ASSUME NEW i \in 1..Len(out')  PROVE out'[i].with \in {0, i}
    OBVIOUS
  <1>3. CASE i <= Len(out)
    <2>1. i \in 1..Len(out)  BY <1>1, <1>3
    <2> QED  BY <1>1, <2>1
  <1>4. CASE i > Len(out)
    <2>1. i - Len(out) \in 1..Len(batch) /\ Len(out) + (i - Len(out)) = i  BY <1>1, <1>4
    <2> QED  BY <1>1, <1>2, <2>1
  <1> QED  BY <1>1, <1>3, <1>4

\* One more piece.
LEMMA OneMore ==
  ASSUME pieces \in Seq(0..MaxBlocks), NEW piece \in 0..MaxBlocks, pieces' = Append(pieces, piece)
  PROVE  /\ Len(pieces) \in Nat /\ Len(pieces') = Len(pieces) + 1 /\ pieces'[Len(pieces) + 1] = piece
         /\ \A k \in 1..Len(pieces) : pieces'[k] = pieces[k]
  BY AppendProperties

\* No piece yet: nothing to fit.
LEMMA NoPieces ==
  ASSUME BatchTypeOK, batch' = batch, pieces' = <<>>
  PROVE  PiecesFit' /\ Unasked' = Texts
  <1>1. \A i \in Texts : Position(i) \in Nat /\ Position(i) > 0
    BY Positions, BatchPlaces DEF BatchTypeOK
  <1>2. Len(pieces') = 0  BY Empties
  <1>3. \A i \in Texts : ~(Position(i) <= Len(pieces')) /\ Position(i) > Len(pieces')  BY <1>1, <1>2
  <1>4. Texts' = Texts /\ \A i : Position(i)' = Position(i)  BY SameBatch
  <1> QED  BY <1>3, <1>4 DEF PiecesFit, Unasked

\* The next piece is the one of the text that was asked about, or is 0.
LEMMA NextFits ==
  ASSUME BatchTypeOK, PiecesFit, batch' = batch, NEW piece \in 0..MaxBlocks,
         pieces' = Append(pieces, piece),
         \A i \in Texts : Position(i) = Len(pieces) + 1 => piece \in {0, batch[i].block}
  PROVE  PiecesFit'
  <1>1. /\ Len(pieces) \in Nat /\ Len(pieces') = Len(pieces) + 1 /\ pieces'[Len(pieces) + 1] = piece
        /\ \A k \in 1..Len(pieces) : pieces'[k] = pieces[k]
    BY OneMore DEF BatchTypeOK
  <1>2. Texts' = Texts /\ \A i : Position(i)' = Position(i)  BY SameBatch
  <1>3. \A i \in Texts : Position(i) \in Nat /\ Position(i) > 0
    BY Positions, BatchPlaces DEF BatchTypeOK
  <1>4. ASSUME NEW i \in Texts, Position(i) <= Len(pieces')
        PROVE  pieces'[Position(i)] \in {0, batch[i].block}
    <2>1. CASE Position(i) <= Len(pieces)
      <3>1. Position(i) \in 1..Len(pieces)  BY <1>1, <1>3, <2>1
      <3> QED  BY <1>1, <2>1, <3>1 DEF PiecesFit
    <2>2. CASE Position(i) = Len(pieces) + 1  BY <1>1, <2>2
    <2> QED  BY <1>1, <1>3, <1>4, <2>1, <2>2
  <1> QED  BY <1>2, <1>4 DEF PiecesFit

LEMMA AlignedKept ==
  ASSUME RewriteInv, Aligned, ~LooseReplies, Rewrite \/ Caller
  PROVE  Aligned'
  <1> DEFINE Waits == pc \in {"heap", "next", "ask", "paragraph", "write"}
  <1>0. BatchTypeOK /\ StageInv /\ OrderInv  BY DEF RewriteInv
  <1>a. (\A i \in 1..Len(out) : out[i].with \in {0, i}) /\ (Waits => PiecesFit)  BY DEF Aligned
  <1>b. SUFFICES (\A i \in 1..Len(out') : out'[i].with \in {0, i}) /\ (Waits' => PiecesFit')
    BY DEF Aligned
  <1>c. ASSUME batch' = batch, pieces' = pieces, Waits  PROVE PiecesFit'
    BY <1>a, <1>c, SameBatch DEF PiecesFit
  <1>1. CASE Asks
    <2>1. UNCHANGED <<read, held, batch, out>>  BY <1>1, AsksKeep
    <2>2. \A i \in 1..Len(out') : out'[i].with \in {0, i}  BY <1>a, <2>1
    <2>3. Waits' => PiecesFit'
      <3> USE DEF textVars, requestVars
      <3>1. CASE EndOfInput \/ Idle  BY <3>1 DEF EndOfInput, Idle
      <3>2. CASE FlushNothing \/ FlushTexts
        <4>1. pieces' = <<>>  BY <3>2 DEF FlushNothing, FlushTexts
        <4> QED  BY <1>0, <2>1, <4>1, NoPieces
      <3>3. CASE HeapTimesOut \/ HeapWaitCancelled \/ HeapReady \/ NextParagraph \/ NoMoreParagraphs
                   \/ RequestRetried \/ ParagraphPassed
        <4>1. pieces' = pieces /\ Waits
          BY <3>3 DEF HeapTimesOut, HeapWaitCancelled, HeapReady, NextParagraph, NoMoreParagraphs,
             RequestRetried, ParagraphPassed
        <4> QED  BY <1>c, <2>1, <4>1
      <3>4. CASE Cancel
        <4>1. pieces' = pieces /\ pc' = pc  BY <3>4 DEF Cancel
        <4> QED  BY <1>c, <2>1, <4>1
      <3>5. CASE ParagraphTranslated
        <4> PICK i \in AskedNow : \E piece \in {0, batch[i].block} : pieces' = Append(pieces, piece)
          BY <3>5 DEF ParagraphTranslated
        <4> PICK piece \in {0, batch[i].block} : pieces' = Append(pieces, piece)
          OBVIOUS
        <4>1. i \in Texts /\ Position(i) = Len(pieces) + 1  BY <3>5 DEF AskedNow, ParagraphTranslated
        <4>2. batch \in Seq(Entry)  BY <1>0 DEF BatchTypeOK
        <4>3. piece \in 0..MaxBlocks
          <5>1. i \in 1..Len(batch)  BY <4>1 DEF Texts
          <5> QED  BY <4>2, <5>1, Entries, Empties
        <4>4. \A k \in Texts : Position(k) = Len(pieces) + 1 => piece \in {0, batch[k].block}
          <5>1. \A k \in Texts : Position(k) = Position(i) => k = i  BY <4>1, <4>2, PositionsDiffer
          <5> QED  BY <4>1, <5>1
        <4>5. PiecesFit  BY <1>a, <3>5 DEF ParagraphTranslated
        <4> QED  BY <1>0, <2>1, <4>3, <4>4, <4>5, NextFits
      <3>6. CASE BatchTranslated
        <4>1. \A i \in Texts : pieces'[Position(i)] \in {0, batch[i].block}
          BY <3>6 DEF BatchTranslated, Faithful
        <4> QED  BY <2>1, <4>1, SameBatch DEF PiecesFit
      <3>7. CASE \E fatal \in BOOLEAN : pc = "ask" /\ GiveUp(fatal)
        <4>1. CASE one
          <5>1. pieces' = Append(pieces, 0) /\ pc = "ask"  BY <3>7, <4>1 DEF GiveUp
          <5>2. PiecesFit  BY <1>a, <5>1
          <5> QED  BY <1>0, <2>1, <5>1, <5>2, Empties, NextFits
        <4>2. CASE ~one
          <5>1. pieces' = <<>>  BY <3>7, <4>2 DEF GiveUp
          <5> QED  BY <1>0, <2>1, <5>1, NoPieces
        <4> QED  BY <4>1, <4>2
      <3>8. CASE ReplyMiscounted  BY <3>7, <3>8 DEF ReplyMiscounted
      <3>9. CASE RequestFails
        <4>1. PICK code \in Codes : GiveUp(Fatal(code))  BY <3>9 DEF RequestFails
        <4>2. Fatal(code) \in BOOLEAN  BY DEF Fatal, TooManyLimits
        <4> QED  BY <3>7, <3>9, <4>1, <4>2 DEF RequestFails
      <3> QED
        BY <1>1, <3>1, <3>2, <3>3, <3>4, <3>5, <3>6, <3>8, <3>9 DEF Asks, Answering
    <2> QED  BY <2>2, <2>3
  <1>2. CASE ReadBlock
    <2>1. out' = out  BY <1>2 DEF ReadBlock, outVars
    <2>2. pc' \in {"flush", "parse"}
      <3>1. PICK size \in Sizes : Take(size, [block |-> read + 1, text |-> Sendable(size)])
        BY <1>2 DEF ReadBlock
      <3> QED  BY <3>1 DEF Take
    <2> QED  BY <1>a, <2>1, <2>2
  <1>3. CASE FlushUntranslated
    <2> DEFINE w == [i \in 1..Len(batch) |-> 0]
    <2>1. w \in [1..Len(batch) -> 0..MaxBlocks]  BY Empties
    <2>2. out' = out \o [i \in 1..Len(batch) |-> [block |-> batch[i].block, with |-> w[i]]]
      BY <1>3 DEF FlushUntranslated
    <2>3. \A i \in 1..Len(batch) : w[i] \in {0, batch[i].block}  OBVIOUS
    <2> HIDE DEF w
    <2>4. \A i \in 1..Len(out') : out'[i].with \in {0, i}  BY <1>0, <1>a, <2>1, <2>2, <2>3, OutAligned
    <2> QED  BY <1>3, <2>4 DEF FlushUntranslated, Resume
  <1>4. CASE WriteOut
    <2> DEFINE w == [i \in 1..Len(batch) |-> With(i)]
    <2>1. w \in [1..Len(batch) -> 0..MaxBlocks]  BY <1>0, WithType
    <2>2. out' = out \o [i \in 1..Len(batch) |-> [block |-> batch[i].block, with |-> w[i]]]
      BY <1>4 DEF WriteOut
    <2>3. \A i \in 1..Len(batch) : w[i] \in {0, batch[i].block}
      <3>1. PiecesFit  BY <1>a, <1>4 DEF WriteOut
      <3> QED  BY <3>1 DEF With, PiecesFit
    <2> HIDE DEF w
    <2>4. \A i \in 1..Len(out') : out'[i].with \in {0, i}  BY <1>0, <1>a, <2>1, <2>2, <2>3, OutAligned
    <2> QED  BY <1>4, <2>4 DEF WriteOut
  <1>5. CASE BatchPassed
    BY <1>a, <1>5 DEF BatchPassed, Resume, outVars
  <1>6. CASE Start \/ Drop
    <2>1. out' = <<>> /\ pc' \in {"parse", "idle"}  BY <1>6 DEF Start, Begin, Drop, Forget, Blank
    <2> QED  BY <2>1, Empties
  <1> QED  BY <1>1, <1>2, <1>3, <1>4, <1>5, <1>6, StepsAre
-----------------------------------------------------------------------------
(* Texts without an answer.                                                *)

\* While a paragraph or a batch waits, the texts that are still to be asked for are the same.
LEMMA SameToAsk ==
  ASSUME UNCHANGED <<held, batch, pieces>>
  PROVE  HeldText' = HeldText /\ Blocks(Texts)' = Blocks(Texts) /\ Blocks(Unasked)' = Blocks(Unasked)
  <1>1. Texts' = Texts /\ \A i : Position(i)' = Position(i)  BY SameBatch
  <1>2. Unasked' = Unasked  BY <1>1 DEF Unasked
  <1> QED  BY <1>1, <1>2 DEF HeldText, Blocks

\* A request is answered with one piece: the texts that were not asked about are still to be.
LEMMA OneLess ==
  ASSUME BatchTypeOK, batch' = batch, held' = held, one, NEW piece \in 0..MaxBlocks,
         pieces' = Append(pieces, piece)
  PROVE  HeldText' = HeldText /\ Blocks(Unasked) \subseteq Blocks(AskedNow) \cup Blocks(Unasked)'
  <1>1. Len(pieces) \in Nat /\ Len(pieces') = Len(pieces) + 1  BY OneMore DEF BatchTypeOK
  <1>2. Texts' = Texts /\ \A i : Position(i)' = Position(i)  BY SameBatch
  <1>3. \A i \in Texts : Position(i) \in Nat  BY Positions, BatchPlaces DEF BatchTypeOK
  <1>4. \A i \in Texts : Position(i) > Len(pieces)
                           => Position(i) = Len(pieces) + 1 \/ Position(i) > Len(pieces')
    BY <1>1, <1>3
  <1>5. Unasked \subseteq AskedNow \cup Unasked'  BY <1>2, <1>4 DEF Unasked, AskedNow
  <1> QED  BY <1>5 DEF Blocks, HeldText

LEMMA AskedKept ==
  ASSUME RewriteInv, Rewrite \/ Caller
  PROVE  AskedFor'
  <1> USE DEF textVars, requestVars, outVars, countVars, observed
  <1>0. BatchTypeOK /\ StageInv /\ AskedFor  BY DEF RewriteInv
  <1>a. failures \in Nat /\ batch \in Seq(Entry)  BY <1>0 DEF BatchTypeOK
  <1>b. SUFFICES ASSUME failures' = 0, ~Stopping'  PROVE unanswered' \subseteq ToAsk'
    BY DEF AskedFor
  <1>c. ~cancelFlag' /\ aborted' = "no"  BY <1>b DEF Stopping
  <1>d. ASSUME failures' = failures, cancelFlag' = cancelFlag, aborted' = aborted
        PROVE  unanswered \subseteq ToAsk
    BY <1>0, <1>b, <1>d DEF AskedFor, Stopping
  <1>e. Texts = {} => Blocks(Texts) = {} /\ Blocks(Unasked) = {}  BY DEF Blocks, Unasked
  <1>1. CASE ReadBlock
    <2> PICK size \in Sizes :
          /\ Take(size, [block |-> read + 1, text |-> Sendable(size)])
          /\ unanswered' = unanswered \cup (IF Sendable(size) # 0 THEN {read'} ELSE {})
      BY <1>1 DEF ReadBlock
    <2> DEFINE entry == [block |-> read + 1, text |-> Sendable(size)]
    <2>1. held = <<>> /\ read' = read + 1 /\ pc = "parse"  BY <1>0, <1>1 DEF StageInv, ReadBlock
    <2>2. unanswered \subseteq Blocks(Texts)
      <3>1. HeldText = {}  BY <2>1, Empties DEF HeldText
      <3> QED  BY <1>1, <1>d, <2>1, <3>1 DEF ToAsk, ReadBlock
    <2>3. Take(size, entry)  OBVIOUS
    <2>4. entry \in Entry
      <3>1. read' \in 1..MaxBlocks  BY <1>0, <1>1, Empties DEF ReadBlock, BatchTypeOK
      <3>2. Sendable(size) \in Nat  BY BatchAssumption DEF Sendable
      <3> QED  BY <2>1, <3>1, <3>2 DEF Entry
    <2>5. unanswered' \subseteq unanswered \cup (IF entry.text # 0 THEN {entry.block} ELSE {})
      BY <2>1
    <2>6. Blocks(Texts) \subseteq Blocks(Texts)' /\ (entry.text # 0 => entry.block \in HeldText' \cup Blocks(Texts)')
      <3> HIDE DEF entry
      <3>1. CASE MustFlushFirst(size)
        <4>1. held' = <<entry>> /\ batch' = batch  BY <2>3, <3>1 DEF Take
        <4>2. Len(held') = 1 /\ held'[1] = entry  BY <4>1
        <4>3. Texts' = Texts  BY <4>1, SameBatch
        <4>4. Blocks(Texts)' = Blocks(Texts)  BY <4>1, <4>3 DEF Blocks
        <4>5. entry.text # 0 => entry.block \in HeldText'  BY <4>2 DEF HeldText
        <4> QED  BY <4>4, <4>5
      <3>2. CASE ~MustFlushFirst(size)
        <4>1. batch' = Append(batch, entry)  BY <2>3, <3>2 DEF Take
        <4>2. /\ Len(batch) \in Nat /\ Len(batch') = Len(batch) + 1 /\ batch'[Len(batch) + 1] = entry
              /\ \A i \in 1..Len(batch) : batch'[i] = batch[i]
          BY <1>a, <2>4, <4>1, AppendProperties
        <4>3. \A i \in Texts : i \in Texts' /\ batch'[i] = batch[i]  BY <4>2 DEF Texts
        <4>4. Blocks(Texts) \subseteq Blocks(Texts)'  BY <4>3 DEF Blocks
        <4>5. entry.text # 0 => Len(batch) + 1 \in Texts'  BY <4>2 DEF Texts
        <4>6. entry.text # 0 => entry.block \in Blocks(Texts)'  BY <4>2, <4>5 DEF Blocks
        <4> QED  BY <4>4, <4>6
      <3> QED  BY <3>1, <3>2
    <2>7. pc' \in {"parse", "flush"}  BY <2>3 DEF Take
    <2>8. ToAsk' = HeldText' \cup Blocks(Texts)'  BY <2>7 DEF ToAsk
    <2> HIDE DEF entry
    <2> QED  BY <2>2, <2>5, <2>6, <2>8
  <1>2. CASE EndOfInput
    <2>1. unanswered \subseteq ToAsk /\ unanswered' = unanswered /\ UNCHANGED <<held, batch, pieces>>
      BY <1>2, <1>d DEF EndOfInput
    <2>2. batch = <<>> => Texts = {}  BY Empties DEF Texts
    <2> QED  BY <1>2, <1>e, <2>1, <2>2, SameToAsk DEF EndOfInput, ToAsk
  <1>3. CASE FlushUntranslated  BY <1>3, <1>b DEF FlushUntranslated, Stopping
  <1>4. CASE FlushNothing
    <2>1. unanswered \subseteq HeldText /\ unanswered' = unanswered /\ held' = held
      BY <1>4, <1>d, <1>e DEF FlushNothing, ToAsk
    <2> QED  BY <1>4, <2>1 DEF FlushNothing, ToAsk, HeldText
  <1>5. CASE FlushTexts
    <2>1. /\ unanswered \subseteq HeldText \cup Blocks(Texts) /\ unanswered' = unanswered
          /\ held' = held /\ batch' = batch
      BY <1>5, <1>d DEF FlushTexts, ToAsk
    <2>2. Blocks(Texts)' = Blocks(Texts)  BY <2>1, SameBatch DEF Blocks
    <2> QED  BY <1>5, <2>1, <2>2 DEF FlushTexts, ToAsk, HeldText
  <1>6. CASE HeapTimesOut
    <2>1. Count = 0  BY <1>6, <1>a, <1>b, BatchPlaces DEF HeapTimesOut
    <2>2. Texts = {}  BY <1>a, <2>1, BatchPlaces
    <2>3. unanswered \subseteq ToAsk
      <3>1. aborted = "no" /\ ~cancelFlag /\ failures = 0
        BY <1>0, <1>6, <1>a, <1>b, <2>1 DEF StageInv, HeapTimesOut
      <3> QED  BY <1>0, <3>1 DEF AskedFor, Stopping
    <2>4. unanswered \subseteq HeldText  BY <1>6, <1>e, <2>2, <2>3 DEF ToAsk, HeapTimesOut
    <2> QED  BY <1>6, <2>4 DEF HeapTimesOut, ToAsk, HeldText
  <1>7. CASE HeapWaitCancelled  BY <1>7, <1>c DEF HeapWaitCancelled
  <1>8. CASE HeapReady
    <2>1. pieces = <<>> /\ unanswered \subseteq HeldText \cup Blocks(Texts) /\ unanswered' = unanswered
      BY <1>0, <1>8, <1>d DEF HeapReady, ToAsk, StageInv
    <2>2. UNCHANGED <<held, batch, pieces>>  BY <1>8 DEF HeapReady
    <2>3. Unasked' = Texts  BY <1>0, <2>1, <2>2, NoPieces
    <2>4. Blocks(Unasked)' = Blocks(Texts)  BY <2>2, <2>3 DEF Blocks
    <2> QED  BY <1>8, <2>1, <2>2, <2>4 DEF HeapReady, ToAsk, HeldText
  <1>9. CASE NextParagraph \/ RequestRetried \/ ParagraphPassed
    <2>1. /\ unanswered \subseteq HeldText \cup Blocks(Unasked) /\ unanswered' = unanswered
          /\ UNCHANGED <<held, batch, pieces>> /\ pc' \in {"next", "ask", "paragraph"}
      BY <1>9, <1>d DEF NextParagraph, RequestRetried, ParagraphPassed, ToAsk
    <2> QED  BY <2>1, SameToAsk DEF ToAsk
  <1>10. CASE NoMoreParagraphs
    <2>1. /\ unanswered \subseteq HeldText \cup Blocks(Unasked) /\ unanswered' = unanswered
          /\ held' = held /\ Len(pieces) = Count /\ pc' = "write"
      BY <1>10, <1>b, <1>d DEF NoMoreParagraphs, ToAsk, Stopping
    <2>2. \A i \in Texts : ~(Position(i) > Len(pieces))
      BY <1>a, <2>1, Positions, BatchPlaces
    <2>3. Blocks(Unasked) = {}  BY <2>2 DEF Unasked, Blocks
    <2> QED  BY <2>1, <2>3 DEF ToAsk, HeldText
  <1>11. CASE ParagraphTranslated
    <2> PICK i \in AskedNow : \E piece \in {0, batch[i].block} : pieces' = Append(pieces, piece)
      BY <1>11 DEF ParagraphTranslated
    <2> PICK piece \in {0, batch[i].block} : pieces' = Append(pieces, piece)
      OBVIOUS
    <2>1. piece \in 0..MaxBlocks
      <3>1. i \in 1..Len(batch)  BY DEF AskedNow, Texts
      <3> QED  BY <1>a, <3>1, Entries, Empties
    <2>2. /\ unanswered \subseteq HeldText \cup Blocks(Unasked) /\ unanswered' = unanswered \ Blocks(AskedNow)
          /\ held' = held /\ batch' = batch /\ one /\ pc' = "paragraph"
      BY <1>11, <1>d DEF ParagraphTranslated, ToAsk
    <2> QED  BY <1>0, <2>1, <2>2, OneLess DEF ToAsk
  <1>12. CASE BatchTranslated
    <2>1. /\ unanswered \subseteq HeldText \cup Blocks(Unasked) /\ unanswered' = unanswered \ Blocks(AskedNow)
          /\ held' = held /\ ~one /\ pc' = "write"
      BY <1>12, <1>d DEF BatchTranslated, ToAsk
    <2>2. Blocks(Unasked) \subseteq Blocks(AskedNow)  BY <2>1 DEF Blocks, Unasked, AskedNow
    <2> QED  BY <2>1, <2>2 DEF ToAsk, HeldText
  <1>13. CASE \E fatal \in BOOLEAN : pc = "ask" /\ GiveUp(fatal)
    <2>1. IsFiniteSet(AskedNow)
      <3>1. IsFiniteSet(Texts)  BY <1>a, BatchPlaces
      <3>2. AskedNow \subseteq Texts  BY DEF AskedNow
      <3> QED  BY <3>1, <3>2, FS_Subset
    <2>2. AskedNow = {} /\ failures = 0
      <3>1. Cardinality(AskedNow) \in Nat  BY <2>1, FS_CardinalityType
      <3>2. failures' = failures + Cardinality(AskedNow)  BY <1>13 DEF GiveUp
      <3>3. Cardinality(AskedNow) = 0 /\ failures = 0  BY <1>a, <1>b, <3>1, <3>2
      <3> QED  BY <2>1, <3>3, FS_EmptySet
    <2>3. unanswered \subseteq HeldText \cup Blocks(Unasked) /\ unanswered' = unanswered
      <3>1. cancelFlag' = cancelFlag /\ pc = "ask" /\ unanswered' = unanswered  BY <1>13 DEF GiveUp
      <3>2. aborted = "no"  BY <1>0, <3>1 DEF StageInv
      <3> QED  BY <1>0, <1>c, <2>2, <3>1, <3>2 DEF AskedFor, Stopping, ToAsk
    <2>4. held' = held /\ batch' = batch  BY <1>13 DEF GiveUp
    <2>5. CASE one
      <3>1. pieces' = Append(pieces, 0) /\ pc' = "paragraph"  BY <1>13, <2>5 DEF GiveUp
      <3>2. Blocks(AskedNow) = {}  BY <2>2 DEF Blocks
      <3> QED  BY <1>0, <2>3, <2>4, <2>5, <3>1, <3>2, Empties, OneLess DEF ToAsk
    <2>6. CASE ~one
      <3>1. Texts = {}  BY <2>2, <2>6 DEF AskedNow
      <3>2. pc' = "write"  BY <1>13, <2>6 DEF GiveUp
      <3> QED  BY <1>e, <2>3, <2>4, <3>1, <3>2 DEF ToAsk, HeldText
    <2> QED  BY <2>5, <2>6
  <1>14. CASE ReplyMiscounted  BY <1>13, <1>14 DEF ReplyMiscounted
  <1>15. CASE RequestFails
    <2>1. PICK code \in Codes : GiveUp(Fatal(code))  BY <1>15 DEF RequestFails
    <2>2. Fatal(code) \in BOOLEAN  BY DEF Fatal, TooManyLimits
    <2> QED  BY <1>13, <1>15, <2>1, <2>2 DEF RequestFails
  <1>16. CASE WriteOut
    <2>1. unanswered \subseteq HeldText /\ unanswered' = unanswered /\ held' = held /\ pc' = "boundary"
      BY <1>16, <1>d DEF WriteOut, ToAsk
    <2> QED  BY <2>1 DEF ToAsk, HeldText
  <1>17. CASE BatchPassed
    <2>1. /\ unanswered \subseteq HeldText /\ unanswered' = unanswered /\ batch' = held
          /\ pc' \in {"flush", "parse", "done"} /\ (pc' = "done" => ending)
      BY <1>17, <1>d DEF BatchPassed, Resume, ToAsk
    <2>2. HeldText \subseteq Blocks(Texts)'  BY <2>1 DEF HeldText, Blocks, Texts
    <2>3. pc' = "done" => HeldText = {}
      <3>1. ending => held = <<>>  BY <1>0 DEF StageInv
      <3> QED  BY <2>1, <3>1, Empties DEF HeldText
    <2> QED  BY <2>1, <2>2, <2>3 DEF ToAsk
  <1>18. CASE Idle  BY <1>0, <1>18 DEF Idle, StageInv
  <1>19. CASE Cancel  BY <1>19, <1>c DEF Cancel
  <1>20. CASE Start \/ Drop  BY <1>20 DEF Start, Begin, Drop, Forget, Blank
  <1> QED
    BY <1>1, <1>2, <1>3, <1>4, <1>5, <1>6, <1>7, <1>8, <1>9, <1>10, <1>11, <1>12, <1>14, <1>15,
       <1>16, <1>17, <1>18, <1>19, <1>20 DEF Rewrite, Reading, Flushing, Answering, Caller, Passing

-----------------------------------------------------------------------------
(* The rewriter's theorems.                                                *)

LEMMA RewriteInvInit == RewriteInit => RewriteInv /\ Aligned
  <1> SUFFICES ASSUME RewriteInit  PROVE RewriteInv /\ Aligned
    OBVIOUS
  <1>1. BatchTypeOK  BY InitTypes
  <1>2. StageInv  BY DEF RewriteInit, StageInv
  <1>3. OrderInv  BY Empties DEF RewriteInit, OrderInv
  <1>4. AskedFor  BY DEF RewriteInit, AskedFor
  <1>5. Aligned  BY Empties DEF RewriteInit, Aligned
  <1> QED  BY <1>1, <1>2, <1>3, <1>4, <1>5 DEF RewriteInv

LEMMA RewriteInvKept == RewriteInv /\ [Rewrite \/ Caller]_rewriteVars => RewriteInv'
  <1>1. RewriteInv /\ (Rewrite \/ Caller) => RewriteInv'
    BY RewriteTypes, CallerTypes, StageKept, OrderKept, AskedKept DEF RewriteInv
  <1>2. RewriteInv /\ UNCHANGED rewriteVars => RewriteInv'
    <2> SUFFICES ASSUME RewriteInv, UNCHANGED rewriteVars  PROVE RewriteInv'
      OBVIOUS
    <2> USE DEF RewriteInv, rewriteVars, textVars, requestVars, outVars, countVars, observed
    <2>1. BatchTypeOK'  BY StutterTypes
    <2>2. StageInv' /\ OrderInv'  BY DEF StageInv, OrderInv
    <2>3. AskedFor'
      <3>1. ToAsk' = ToAsk  BY SameToAsk DEF ToAsk
      <3> QED  BY <3>1 DEF AskedFor, Stopping
    <2> QED  BY <2>1, <2>2, <2>3
  <1> QED  BY <1>1, <1>2

LEMMA AlignedStays == ~LooseReplies => (RewriteInv /\ Aligned /\ [Rewrite \/ Caller]_rewriteVars => Aligned')
  <1> SUFFICES ASSUME ~LooseReplies, RewriteInv, Aligned, [Rewrite \/ Caller]_rewriteVars
               PROVE  Aligned'
    OBVIOUS
  <1>1. CASE UNCHANGED rewriteVars
    <2>1. UNCHANGED <<batch, pieces, pc, out>>
      BY <1>1 DEF rewriteVars, textVars, requestVars, outVars
    <2> QED  BY <2>1, SameBatch DEF Aligned, PiecesFit
  <1> QED  BY <1>1, AlignedKept

\* What the invariants say at the end of a run.
LEMMA LinesUpNow == RewriteInv /\ Aligned => TranslationsLineUp
  <1> SUFFICES ASSUME RewriteInv, Aligned  PROVE TranslationsLineUp
    OBVIOUS
  <1>1. \A i \in 1..Len(out) : out[i].block = i /\ out[i].with \in {0, i}
    BY DEF RewriteInv, OrderInv, Aligned
  <1>2. pc = "done" => Len(out) = read
    <2>1. pc = "done" => batch = <<>> /\ held = <<>>  BY DEF RewriteInv, StageInv
    <2>2. read = Len(out) + Len(batch) + Len(held) /\ Len(out) \in Nat
      BY LenProperties DEF RewriteInv, OrderInv, BatchTypeOK
    <2> QED  BY <2>1, <2>2, Empties
  <1> QED  BY <1>1, <1>2 DEF TranslationsLineUp

LEMMA NothingBogusNow == RewriteInv => NothingBogus
  <1> SUFFICES ASSUME RewriteInv, pc = "done", Committable, translated = 0  PROVE unanswered = {}
    BY DEF NothingBogus
  <1>1. failures = 0 /\ ~Stopping  BY DEF Committable, RewriteInv, BatchTypeOK
  <1>2. unanswered \subseteq HeldText  BY <1>1 DEF RewriteInv, AskedFor, ToAsk
  <1>3. held = <<>>  BY DEF RewriteInv, StageInv
  <1> QED  BY <1>2, <1>3, Empties DEF HeldText

\* Whatever the engine answers, and whenever the run is cancelled or given up, each block is written
\* once, in its place, followed by its own translation or none (flushBatch(), writeBatch()).
THEOREM LinesUp ==
  ASSUME ~LooseReplies
  PROVE  RewriteSpec => []TranslationsLineUp
  <1>1. RewriteInv /\ Aligned /\ [Rewrite \/ Caller]_rewriteVars => (RewriteInv /\ Aligned)'
    BY RewriteInvKept, AlignedStays
  <1> QED  BY <1>1, RewriteInvInit, LinesUpNow, PTL DEF RewriteSpec

\* A chapter with no translation at all is committed only if every text that could be sent was
\* answered for: no path drops a text without counting a failure or stopping the run.
THEOREM NoBogus == RewriteSpec => []NothingBogus
  BY RewriteInvInit, RewriteInvKept, NothingBogusNow, PTL DEF RewriteSpec
-----------------------------------------------------------------------------
(* The book: where the two tasks are.                                      *)

PlaceInv ==
  /\ wpc # "none" => /\ workerStarted /\ ~taskDone /\ ~taskFailed /\ state = "TRANSLATING"
                     /\ completed = current - 1
  /\ wpc \notin {"none", "top"} => current <= NumChapters
  /\ workerStarted => screen = "book" /\ state \in {"TRANSLATING"} \cup ResultStates /\ run > 0
  /\ mpc = "release" => /\ ~workerStarted /\ ~taskDone /\ ~taskFailed /\ state = "TRANSLATING"
                        /\ screen = "book" /\ run > 0 /\ current = 1 /\ completed = 0
  /\ screen = "picker" \/ (screen = "book" /\ state = "CONFIRM_RETRANSLATE") => run < MaxRuns
  /\ pc # "idle" <=> wpc \in {"rewrite", "boundary"}
  /\ wpc = "boundary" => pc \in {"paragraph", "boundary"}

LEMMA RewriterPlace ==
  /\ Rewrite => pc # "idle" /\ pc' # "idle"
  /\ Passing => pc \in {"paragraph", "boundary"} /\ pc' # "idle"
  <1>1. ReadBlock => pc # "idle" /\ pc' # "idle"
    <2> SUFFICES ASSUME ReadBlock  PROVE pc # "idle" /\ pc' # "idle"
      OBVIOUS
    <2>1. PICK size \in Sizes : Take(size, [block |-> read + 1, text |-> Sendable(size)])
      BY DEF ReadBlock
    <2> QED  BY <2>1 DEF ReadBlock, Take
  <1>2. EndOfInput => pc # "idle" /\ pc' # "idle"  BY DEF EndOfInput
  <1>3. Flushing => pc # "idle" /\ pc' # "idle"
    BY DEF Flushing, FlushUntranslated, Resume, FlushNothing, FlushTexts, HeapTimesOut, HeapWaitCancelled,
       HeapReady, NextParagraph, NoMoreParagraphs
  <1>4. Answering => pc # "idle" /\ pc' # "idle"
    BY DEF Answering, ParagraphTranslated, BatchTranslated, ReplyMiscounted, RequestRetried,
       RequestFails, GiveUp
  <1>5. WriteOut => pc # "idle" /\ pc' # "idle"  BY DEF WriteOut
  <1>6. Passing => pc \in {"paragraph", "boundary"} /\ pc' # "idle"
    BY DEF Passing, ParagraphPassed, BatchPassed, Resume
  <1> QED  BY <1>1, <1>2, <1>3, <1>4, <1>5, <1>6 DEF Rewrite, Reading

\* What the book does with the rewriter: a step of it, of its caller, or nothing.
LEMMA BookCalls ==
  ASSUME TypeOK, PlaceInv, [Next]_vars
  PROVE  [Rewrite \/ Caller]_rewriteVars
  <1> USE DEF TypeOK, BatchTypeOK
  <1>1. CASE Enter \/ SourcePicked \/ TargetPicked \/ Confirmed \/ WifiFailed
    BY <1>1 DEF Enter, SourcePicked, TargetPicked, Confirmed, WifiFailed, beforeUnchanged
  <1>2. CASE KeepReading \/ UNCHANGED vars  BY <1>2 DEF KeepReading, vars
  <1>3. CASE startTranslation
    <2>1. pc = "idle"  BY <1>3 DEF PlaceInv, startTranslation
    <2>2. /\ engine' = engine /\ cancelFlag' = FALSE
          /\ UNCHANGED <<pc, textVars, requestVars, outVars, countVars, observed>>
      BY <1>3 DEF startTranslation
    <2> QED  BY <2>1, <2>2 DEF Idle, Caller
  <1>4. CASE BackCancels \/ onExit  BY <1>4 DEF BackCancels, onExit, Caller
  <1>5. CASE \/ CreateWorker \/ ClaimBoundary \/ Repaint \/ Rerelease \/ AckBoundary \/ FinishDone
             \/ FinishFailed \/ Leave \/ ExitWaited
    BY <1>5 DEF CreateWorker, ClaimBoundary, Repaint, Rerelease, AckBoundary, FinishDone, FinishFailed,
       Leave, ExitWaited
  <1>6. CASE ExitRestore  BY <1>6 DEF ExitRestore, Drop, Caller
  <1>7. CASE PowerLoss  BY <1>7 DEF PowerLoss, Drop, Caller
  <1>8. CASE \/ LoopEnds \/ SkipChapter \/ FirstChapter \/ ChapterBoundary \/ ChapterBoundaryEnds
             \/ HeapWaited \/ Extracted \/ FileFails \/ BatchBoundary \/ RemoveFinal \/ RenameFails
             \/ Rename \/ DropCaches
    BY <1>8 DEF LoopEnds, SkipChapter, FirstChapter, ChapterBoundary, ChapterBoundaryEnds, HeapWaited,
       Extracted, FileFails, BatchBoundary, RemoveFinal, RenameFails, Rename, DropCaches, RaiseBoundary
  <1>9. CASE StartChapter \/ RewriteStep \/ BoundaryPassed \/ BatchBoundaryEnds
    BY <1>9 DEF StartChapter, RewriteStep, BoundaryPassed, BatchBoundaryEnds, Caller
  <1>10. CASE DropCancelled \/ DropFailed \/ Commit
    BY <1>10 DEF DropCancelled, DropFailed, Commit, Finished, Drop, Caller
  <1> QED
    BY <1>1, <1>2, <1>3, <1>4, <1>5, <1>6, <1>7, <1>8, <1>9, <1>10 DEF Next, User, Main, Worker

LEMMA BookTypes ==
  ASSUME TypeOK, PlaceInv, [Next]_vars
  PROVE  TypeOK'
  <1>1. BatchTypeOK'  BY BookCalls, RewriteTypes, CallerTypes, StutterTypes DEF TypeOK
  <1>a. {NumChapters, MaxRuns, MaxCrashes} \subseteq Nat  BY BookAssumption
  <1> USE <1>a DEF TypeOK, PlaceInv, mainVars, flagVars, cardVars, placeVars, beforeUnchanged, mainUnchanged,
      workerUnchanged, Chapter, States, PickerStates, ResultStates, MainPcs, WorkerPcs
  <1> HIDE DEF BatchTypeOK
  <1>2. CASE Enter \/ KeepReading \/ SourcePicked \/ TargetPicked \/ Confirmed \/ WifiFailed
    BY <1>1, <1>2 DEF Enter, KeepReading, SourcePicked, TargetPicked, Confirmed, WifiFailed, vars
  <1>3. CASE startTranslation
    <2>1. {taskDone', taskFailed', boundaryPending', boundaryAck'} \subseteq BOOLEAN
      BY <1>3 DEF startTranslation
    <2>2. {workerStarted', skipTranslated', fb'} \subseteq BOOLEAN  BY <1>3 DEF startTranslation
    <2>3. current' \in 1..NumChapters + 1 /\ completed' \in 0..NumChapters /\ run' \in 0..MaxRuns
      BY <1>3 DEF startTranslation
    <2> QED  BY <1>1, <1>3, <2>1, <2>2, <2>3 DEF startTranslation
  <1>4. CASE CreateWorker \/ Rerelease
    BY <1>1, <1>4 DEF CreateWorker, Rerelease, releaseFramebuffer
  <1>5. CASE ClaimBoundary \/ Repaint \/ AckBoundary \/ FinishDone \/ FinishFailed
    BY <1>1, <1>5 DEF ClaimBoundary, Repaint, AckBoundary, FinishDone, FinishFailed
  <1>6. CASE BackCancels \/ Leave \/ onExit \/ ExitWaited \/ ExitRestore
    BY <1>1, <1>6 DEF BackCancels, Leave, onExit, ExitWaited, ExitRestore
  <1>7. CASE LoopEnds \/ FirstChapter \/ ChapterBoundary \/ ChapterBoundaryEnds
    BY <1>1, <1>7 DEF LoopEnds, FirstChapter, ChapterBoundary, ChapterBoundaryEnds, RaiseBoundary
  <1>8. CASE SkipChapter  BY <1>1, <1>8 DEF SkipChapter, AtChapter
  <1>9. CASE HeapWaited \/ Extracted \/ FileFails \/ StartChapter
    BY <1>1, <1>9 DEF HeapWaited, Extracted, FileFails, StartChapter
  <1>10. CASE RewriteStep \/ BoundaryPassed \/ BatchBoundary \/ BatchBoundaryEnds
    BY <1>1, <1>10 DEF RewriteStep, BoundaryPassed, BatchBoundary, BatchBoundaryEnds, RaiseBoundary
  <1>11. CASE DropCancelled \/ DropFailed \/ Commit
    BY <1>1, <1>11 DEF DropCancelled, DropFailed, Commit
  <1>12. CASE RemoveFinal
    <2>1. final' \in [Chapter -> 0..MaxRuns]  BY <1>12 DEF RemoveFinal
    <2> QED  BY <1>1, <1>12, <2>1 DEF RemoveFinal
  <1>17. CASE RenameFails  BY <1>1, <1>17 DEF RenameFails
  <1>13. CASE Rename  BY <1>1, <1>13 DEF Rename
  <1>14. CASE DropCaches  BY <1>1, <1>14 DEF DropCaches
  <1>15. CASE PowerLoss
    <2>1. {taskDone', taskFailed', boundaryPending', boundaryAck'} \subseteq BOOLEAN
      BY <1>15 DEF PowerLoss
    <2>2. {workerStarted', skipTranslated', fb'} \subseteq BOOLEAN  BY <1>15 DEF PowerLoss
    <2>3. current' \in 1..NumChapters + 1 /\ completed' \in 0..NumChapters /\ run' \in 0..MaxRuns
      BY <1>15 DEF PowerLoss
    <2> QED  BY <1>1, <1>15, <2>1, <2>2, <2>3 DEF PowerLoss
  <1>16. CASE UNCHANGED vars  BY <1>1, <1>16 DEF vars
  <1> QED
    BY <1>2, <1>3, <1>4, <1>5, <1>6, <1>7, <1>8, <1>9, <1>10, <1>11, <1>12, <1>13, <1>14, <1>15, <1>16,
       <1>17
       DEF Next, User, Main, Worker

LEMMA PlaceKept ==
  ASSUME TypeOK, PlaceInv, [Next]_vars
  PROVE  PlaceInv'
  <1>a. {NumChapters, MaxRuns, MaxCrashes} \subseteq Nat  BY BookAssumption
  <1>b. current \in Nat /\ completed \in Nat /\ run \in Nat  BY <1>a DEF TypeOK
  <1> USE <1>a, <1>b DEF PlaceInv, mainVars, flagVars, cardVars, placeVars, beforeUnchanged, mainUnchanged,
      workerUnchanged, rewriteVars, ResultStates
  <1>2. CASE Enter \/ KeepReading \/ SourcePicked \/ TargetPicked \/ Confirmed \/ WifiFailed
    BY <1>2 DEF Enter, KeepReading, SourcePicked, TargetPicked, Confirmed, WifiFailed, vars, TypeOK
  <1>3. CASE startTranslation  BY <1>3 DEF startTranslation
  <1>4. CASE CreateWorker \/ Rerelease
    BY <1>4 DEF CreateWorker, Rerelease
  <1>5. CASE ClaimBoundary \/ Repaint \/ AckBoundary \/ FinishDone \/ FinishFailed
    BY <1>5 DEF ClaimBoundary, Repaint, AckBoundary, FinishDone, FinishFailed, Translating
  <1>6. CASE BackCancels \/ Leave \/ onExit \/ ExitWaited \/ ExitRestore
    BY <1>6 DEF BackCancels, Leave, onExit, ExitWaited, ExitRestore, Cancel, Forget
  <1>7. CASE LoopEnds \/ FirstChapter \/ ChapterBoundary \/ ChapterBoundaryEnds \/ SkipChapter
    BY <1>7 DEF LoopEnds, FirstChapter, ChapterBoundary, ChapterBoundaryEnds, RaiseBoundary, SkipChapter,
       AtChapter
  <1>9. CASE HeapWaited \/ Extracted \/ FileFails \/ StartChapter
    BY <1>9 DEF HeapWaited, Extracted, FileFails, StartChapter, Start, Begin
  <1>10. CASE RewriteStep \/ BoundaryPassed \/ BatchBoundary \/ BatchBoundaryEnds
    BY <1>10, RewriterPlace DEF RewriteStep, BoundaryPassed, BatchBoundary, BatchBoundaryEnds, RaiseBoundary
  <1>11. CASE DropCancelled \/ DropFailed \/ Commit
    BY <1>11 DEF DropCancelled, DropFailed, Commit, Finished, Forget
  <1>12. CASE RemoveFinal \/ RenameFails \/ Rename \/ DropCaches
    BY <1>12 DEF RemoveFinal, RenameFails, Rename, DropCaches
  <1>15. CASE PowerLoss  BY <1>15 DEF PowerLoss, Forget
  <1>16. CASE UNCHANGED vars  BY <1>16 DEF vars
  <1> QED
    BY <1>2, <1>3, <1>4, <1>5, <1>6, <1>7, <1>9, <1>10, <1>11, <1>12, <1>15, <1>16
       DEF Next, User, Main, Worker
-----------------------------------------------------------------------------
(* The framebuffer and the boundary.                                       *)

\* The worker waits at a boundary; the main task serves one.
Parked == {"chapterBoundary", "boundary"}
Repainting == {"repaint", "rerelease", "ack"}

\* Who has the boundary and the framebuffer, as long as nobody cancels.
HandInv ==
  /\ mpc \in {"exitWait", "exitRestore"} => cancelFlag
  /\ ~cancelFlag =>
       /\ boundaryPending => wpc \in Parked /\ ~boundaryAck /\ mpc \notin Repainting
       /\ mpc \in Repainting => wpc \in Parked /\ ~boundaryAck /\ ~boundaryPending
       /\ wpc \in Parked => boundaryAck \/ boundaryPending \/ mpc \in Repainting
       /\ ~BufferStuck /\ fb /\ wpc # "none" => mpc = "rerelease"

LEMMA HandKept ==
  ASSUME TypeOK, PlaceInv, HandInv, [Next]_vars
  PROVE  HandInv'
  <1> USE DEF HandInv, Parked, Repainting, mainVars, flagVars, cardVars, placeVars, beforeUnchanged,
      mainUnchanged, workerUnchanged, rewriteVars
  <1>2. CASE Enter \/ KeepReading \/ SourcePicked \/ TargetPicked \/ Confirmed \/ WifiFailed
    BY <1>2 DEF Enter, KeepReading, SourcePicked, TargetPicked, Confirmed, WifiFailed, vars
  <1>3. CASE startTranslation  BY <1>3 DEF startTranslation, PlaceInv
  <1>4. CASE CreateWorker
    <2>1. ~BufferStuck => fb' = FALSE  BY <1>4 DEF CreateWorker, releaseFramebuffer
    <2> QED  BY <1>4, <2>1 DEF CreateWorker, PlaceInv
  <1>5. CASE Rerelease
    <2>1. ~BufferStuck => fb' = FALSE  BY <1>5 DEF Rerelease, releaseFramebuffer
    <2> QED  BY <1>5, <2>1 DEF Rerelease
  <1>6. CASE ClaimBoundary \/ Repaint \/ AckBoundary
    BY <1>6 DEF ClaimBoundary, Repaint, AckBoundary, Translating
  <1>7. CASE FinishDone \/ FinishFailed
    BY <1>7 DEF FinishDone, FinishFailed, PlaceInv
  <1>8. CASE BackCancels \/ onExit  BY <1>8 DEF BackCancels, onExit, Cancel
  <1>9. CASE Leave \/ ExitWaited \/ ExitRestore
    BY <1>9 DEF Leave, ExitWaited, ExitRestore
  <1>10. CASE LoopEnds \/ FirstChapter \/ ChapterBoundary \/ ChapterBoundaryEnds \/ SkipChapter
    BY <1>10 DEF LoopEnds, FirstChapter, ChapterBoundary, ChapterBoundaryEnds, RaiseBoundary, SkipChapter,
       AtChapter, BoundaryEnds
  <1>11. CASE HeapWaited \/ Extracted \/ FileFails \/ StartChapter
    BY <1>11 DEF HeapWaited, Extracted, FileFails, StartChapter, Start
  <1>12. CASE RewriteStep
    <2>1. cancelFlag' = cancelFlag
      <3>1. ReadBlock \/ EndOfInput \/ WriteOut => cancelFlag' = cancelFlag
        BY DEF ReadBlock, EndOfInput, WriteOut
      <3>2. Flushing => cancelFlag' = cancelFlag
        BY DEF Flushing, FlushUntranslated, FlushNothing, FlushTexts, HeapTimesOut, HeapWaitCancelled,
           HeapReady, NextParagraph, NoMoreParagraphs
      <3>3. Answering => cancelFlag' = cancelFlag
        BY DEF Answering, ParagraphTranslated, BatchTranslated, ReplyMiscounted, RequestRetried,
           RequestFails, GiveUp
      <3> QED  BY <1>12, <3>1, <3>2, <3>3 DEF RewriteStep, Rewrite, Reading
    <2> QED  BY <1>12, <2>1 DEF RewriteStep
  <1>13. CASE BoundaryPassed \/ BatchBoundary \/ BatchBoundaryEnds
    BY <1>13 DEF BoundaryPassed, BatchBoundary, BatchBoundaryEnds, RaiseBoundary, Passing, ParagraphPassed,
       BatchPassed, BoundaryEnds
  <1>14. CASE DropCancelled \/ DropFailed \/ Commit
    BY <1>14 DEF DropCancelled, DropFailed, Commit, Finished
  <1>15. CASE RemoveFinal \/ RenameFails \/ Rename \/ DropCaches
    BY <1>15 DEF RemoveFinal, RenameFails, Rename, DropCaches
  <1>16. CASE PowerLoss  BY <1>16 DEF PowerLoss
  <1>17. CASE UNCHANGED vars  BY <1>17 DEF vars
  <1> QED
    BY <1>2, <1>3, <1>4, <1>5, <1>6, <1>7, <1>8, <1>9, <1>10, <1>11, <1>12, <1>13, <1>14, <1>15, <1>16,
       <1>17 DEF Next, User, Main, Worker

\* taskHandle is set once a run; what was started is running or has said how it ended.
StartedInv ==
  /\ workerStarted /\ wpc = "none" => taskDone \/ taskFailed
  /\ mpc = "exitWait" => workerStarted

LEMMA StartedKept ==
  ASSUME PlaceInv, StartedInv, [Next]_vars
  PROVE  StartedInv'
  <1> USE DEF StartedInv, mainVars, flagVars, cardVars, placeVars, beforeUnchanged, mainUnchanged,
      workerUnchanged
  <1>1. CASE \/ Enter \/ KeepReading \/ SourcePicked \/ TargetPicked \/ Confirmed \/ WifiFailed
             \/ UNCHANGED vars
    BY <1>1 DEF Enter, KeepReading, SourcePicked, TargetPicked, Confirmed, WifiFailed, vars
  <1>2. CASE startTranslation
    BY <1>2 DEF startTranslation, PlaceInv, ResultStates
  <1>3. CASE CreateWorker \/ ClaimBoundary \/ Repaint \/ Rerelease \/ AckBoundary
    BY <1>3 DEF CreateWorker, ClaimBoundary, Repaint, Rerelease, AckBoundary
  <1>4. CASE FinishDone \/ FinishFailed \/ BackCancels
    BY <1>4 DEF FinishDone, FinishFailed, BackCancels
  <1>5. CASE Leave \/ onExit \/ ExitWaited \/ ExitRestore \/ PowerLoss
    BY <1>5 DEF Leave, onExit, ExitWaited, ExitRestore, PowerLoss
  <1>6. CASE \/ LoopEnds \/ SkipChapter \/ FirstChapter \/ ChapterBoundary \/ ChapterBoundaryEnds
             \/ HeapWaited \/ Extracted \/ FileFails
    BY <1>6 DEF LoopEnds, SkipChapter, FirstChapter, ChapterBoundary, ChapterBoundaryEnds, RaiseBoundary,
       HeapWaited, Extracted, FileFails, AtChapter
  <1>7. CASE StartChapter \/ RewriteStep \/ BoundaryPassed \/ BatchBoundary \/ BatchBoundaryEnds
    BY <1>7 DEF StartChapter, RewriteStep, BoundaryPassed, BatchBoundary, BatchBoundaryEnds, RaiseBoundary
  <1>8. CASE DropCancelled \/ DropFailed \/ Commit
    BY <1>8 DEF DropCancelled, DropFailed, Commit, Finished
  <1>9. CASE RemoveFinal \/ RenameFails \/ Rename \/ DropCaches
    BY <1>9 DEF RemoveFinal, RenameFails, Rename, DropCaches
  <1> QED
    BY <1>1, <1>2, <1>3, <1>4, <1>5, <1>6, <1>7, <1>8, <1>9 DEF Next, User, Main, Worker

\* The safety behind BookEnds.  The screen is drawn at a boundary only while the worker waits there: a
\* cancelled run no longer does.
RepaintsWhileParked == mpc \in Repainting => wpc \in Parked \/ cancelFlag

\* Nobody waits for what cannot come: a parked worker is acknowledged, cancelled or about to be served, and
\* the worker onExit() waits for has been told to stop, and has said so if it is gone.
WaitsAreAnswered ==
  /\ wpc \in Parked => BoundaryEnds \/ boundaryPending \/ mpc \in Repainting
  /\ mpc = "exitWait" => cancelFlag /\ (wpc = "none" => taskDone \/ taskFailed)

-----------------------------------------------------------------------------
(* What is on the card.                                                    *)

\* The chapters that are damaged, but for the one in work.
InWork == wpc \in {"rename", "dropCaches"}
Debt == IF InWork THEN Damaged \ {current} ELSE Damaged
KeptInv ==
  /\ Cardinality(Debt) <= refusals + crashes
  /\ wpc = "dropCaches" => final[current] # 0
  /\ mpc = "exitRestore" => wpc = "none"

\* The steps that write chapters' files, or stop in the middle of that.
CardSteps == RemoveFinal \/ RenameFails \/ Rename \/ DropCaches \/ PowerLoss

LEMMA CardRests ==
  ASSUME TypeOK, PlaceInv, ~SlowNetwork, KeptInv, [Next]_vars, ~CardSteps
  PROVE  UNCHANGED <<final, had, stale, refusals, crashes>> /\ (InWork => current' = current /\ wpc' = wpc)
         /\ (InWork' => InWork)
  <1> USE DEF mainVars, flagVars, cardVars, placeVars, beforeUnchanged, mainUnchanged,
      workerUnchanged, InWork
  <1>2. CASE Enter \/ KeepReading \/ SourcePicked \/ TargetPicked \/ Confirmed \/ WifiFailed
    BY <1>2 DEF Enter, KeepReading, SourcePicked, TargetPicked, Confirmed, WifiFailed, vars
  <1>3. CASE startTranslation \/ CreateWorker  BY <1>3 DEF startTranslation, CreateWorker, PlaceInv
  <1>4. CASE \/ ClaimBoundary \/ Repaint \/ Rerelease \/ AckBoundary \/ FinishDone \/ FinishFailed
             \/ BackCancels \/ Leave \/ onExit \/ ExitWaited
    BY <1>4 DEF ClaimBoundary, Repaint, Rerelease, AckBoundary, FinishDone, FinishFailed, BackCancels,
       Leave, onExit, ExitWaited
  <1>5. CASE ExitRestore  BY <1>5 DEF ExitRestore, KeptInv
  <1>6. CASE LoopEnds \/ FirstChapter \/ ChapterBoundary \/ ChapterBoundaryEnds \/ SkipChapter
    BY <1>6 DEF LoopEnds, FirstChapter, ChapterBoundary, ChapterBoundaryEnds, RaiseBoundary, SkipChapter,
       AtChapter
  <1>7. CASE HeapWaited \/ Extracted \/ FileFails \/ StartChapter
    BY <1>7 DEF HeapWaited, Extracted, FileFails, StartChapter
  <1>8. CASE RewriteStep \/ BoundaryPassed \/ BatchBoundary \/ BatchBoundaryEnds
    BY <1>8 DEF RewriteStep, BoundaryPassed, BatchBoundary, BatchBoundaryEnds, RaiseBoundary
  <1>9. CASE DropCancelled \/ DropFailed \/ Commit
    BY <1>9 DEF DropCancelled, DropFailed, Commit, Finished
  <1>10. CASE UNCHANGED vars  BY <1>10 DEF vars
  <1> QED
    BY <1>2, <1>3, <1>4, <1>5, <1>6, <1>7, <1>8, <1>9, <1>10 DEF Next, User, Main, Worker, CardSteps

\* The worker does not outlive its activity if no call outlasts the wait.
LEMMA ExitKept ==
  ASSUME TypeOK, PlaceInv, ~SlowNetwork, KeptInv, [Next]_vars
  PROVE  mpc' = "exitRestore" => wpc' = "none"
  <1> USE DEF mainVars, flagVars, cardVars, placeVars, beforeUnchanged, mainUnchanged,
      workerUnchanged, KeptInv
  <1>2. CASE Enter \/ KeepReading \/ SourcePicked \/ TargetPicked \/ Confirmed \/ WifiFailed
    BY <1>2 DEF Enter, KeepReading, SourcePicked, TargetPicked, Confirmed, WifiFailed, vars
  <1>3. CASE startTranslation \/ CreateWorker \/ ExitRestore \/ PowerLoss
    BY <1>3 DEF startTranslation, CreateWorker, ExitRestore, PowerLoss
  <1>4. CASE \/ ClaimBoundary \/ Repaint \/ Rerelease \/ AckBoundary \/ FinishDone \/ FinishFailed
             \/ BackCancels \/ Leave
    BY <1>4 DEF ClaimBoundary, Repaint, Rerelease, AckBoundary, FinishDone, FinishFailed, BackCancels, Leave
  <1>5. CASE onExit \/ ExitWaited  BY <1>5 DEF onExit, ExitWaited, PlaceInv
  <1>6. CASE Worker
    <2>1. wpc # "none"
      BY <1>6 DEF Worker, LoopEnds, FirstChapter, ChapterBoundary, ChapterBoundaryEnds, SkipChapter,
         AtChapter, HeapWaited, Extracted, FileFails, StartChapter, RewriteStep, BoundaryPassed,
         BatchBoundary, BatchBoundaryEnds, DropCancelled, DropFailed, Commit, Finished, RemoveFinal,
         RenameFails, Rename, DropCaches
    <2>2. mpc' = mpc
      BY <1>6 DEF Worker, LoopEnds, FirstChapter, ChapterBoundary, ChapterBoundaryEnds, SkipChapter,
         HeapWaited, Extracted, FileFails, StartChapter, RewriteStep, BoundaryPassed, RaiseBoundary,
         BatchBoundary, BatchBoundaryEnds, DropCancelled, DropFailed, Commit, RemoveFinal, RenameFails,
         Rename, DropCaches
    <2> QED  BY <2>1, <2>2
  <1>10. CASE UNCHANGED vars  BY <1>10 DEF vars
  <1> QED  BY <1>2, <1>3, <1>4, <1>5, <1>6, <1>10 DEF Next, User, Main

\* Damage is a finite set, and one chapter more or less.
LEMMA Debts ==
  ASSUME TypeOK
  PROVE  /\ IsFiniteSet(Damaged) /\ IsFiniteSet(Debt) /\ Debt \subseteq Damaged
         /\ Damaged \subseteq Debt \cup {current} /\ Cardinality(Debt) \in Nat
         /\ Cardinality(Debt \cup {current}) \in Nat /\ IsFiniteSet(Debt \cup {current})
         /\ Cardinality(Debt \cup {current}) <= Cardinality(Debt) + 1
         /\ Cardinality(Damaged) <= Cardinality(Debt \cup {current})
  <1>1. IsFiniteSet(Chapter)  BY BookAssumption, FS_Interval DEF Chapter
  <1>2. Damaged \subseteq Chapter  BY DEF Damaged, TypeOK
  <1>3. IsFiniteSet(Damaged)  BY <1>1, <1>2, FS_Subset
  <1>4. Debt \subseteq Damaged /\ Damaged \subseteq Debt \cup {current}  BY DEF Debt
  <1>5. IsFiniteSet(Debt)  BY <1>3, <1>4, FS_Subset
  <1>6. Cardinality(Debt) \in Nat  BY <1>5, FS_CardinalityType
  <1>7. /\ IsFiniteSet(Debt \cup {current})
        /\ Cardinality(Debt \cup {current}) = IF current \in Debt THEN Cardinality(Debt)
                                                                  ELSE Cardinality(Debt) + 1
    BY <1>5, FS_AddElement
  <1>8. Cardinality(Damaged) <= Cardinality(Debt \cup {current})  BY <1>4, <1>7, FS_Subset
  <1> QED  BY <1>3, <1>4, <1>5, <1>6, <1>7, <1>8, FS_CardinalityType

LEMMA KeptStays ==
  ASSUME TypeOK, PlaceInv, ~SlowNetwork, KeptInv, [Next]_vars
  PROVE  KeptInv'
  <1>a. refusals \in Nat /\ crashes \in Nat /\ current \in Nat /\ run \in Nat
    BY BookAssumption DEF TypeOK
  <1>b. Cardinality(Debt) <= refusals + crashes /\ (wpc = "dropCaches" => final[current] # 0)
    BY DEF KeptInv
  <1>c. mpc' = "exitRestore" => wpc' = "none"  BY ExitKept
  <1>d. IsFiniteSet(Debt) /\ Cardinality(Debt) \in Nat  BY Debts
  <1>e. ASSUME Debt' \subseteq Debt  PROVE Cardinality(Debt') <= Cardinality(Debt) /\ Cardinality(Debt') \in Nat
    <2>1. IsFiniteSet(Debt') /\ Cardinality(Debt') <= Cardinality(Debt)  BY <1>d, <1>e, FS_Subset
    <2> QED  BY <2>1, FS_CardinalityType
  <1>f. ASSUME Debt' = Damaged
        PROVE  Cardinality(Debt') <= Cardinality(Debt) + 1 /\ Cardinality(Debt') \in Nat
    <2>1. IsFiniteSet(Damaged)  BY Debts
    <2>2. Cardinality(Damaged) \in Nat  BY <2>1, FS_CardinalityType
    <2>3. Cardinality(Damaged) <= Cardinality(Debt) + 1  BY <2>2, Debts
    <2> QED  BY <1>f, <2>2, <2>3
  <1> USE DEF mainVars, flagVars, cardVars, placeVars, workerUnchanged
  <1>1. CASE ~CardSteps
    <2>1. /\ UNCHANGED <<final, had, stale, refusals, crashes>> /\ (InWork => current' = current /\ wpc' = wpc)
          /\ (InWork' => InWork)
      BY <1>1, CardRests
    <2>2. Debt' = Debt
      <3>1. Damaged' = Damaged  BY <2>1 DEF Damaged
      <3>2. InWork' <=> InWork  BY <2>1 DEF InWork
      <3> QED  BY <2>1, <3>1, <3>2 DEF Debt
    <2>3. wpc' = "dropCaches" => final'[current'] # 0  BY <1>b, <2>1 DEF InWork
    <2> QED  BY <1>b, <1>c, <2>1, <2>2, <2>3 DEF KeptInv
  <1>2. CASE RemoveFinal
    <2>1. wpc = "removeFinal" /\ wpc' = "rename" /\ UNCHANGED <<current, had, stale, refusals, crashes>>
      BY <1>2 DEF RemoveFinal
    <2>2. \A c \in Chapter \ {current} : final'[c] = final[c]  BY <1>2 DEF RemoveFinal, TypeOK
    <2>3. had \subseteq Chapter  BY DEF TypeOK
    <2>4. Debt' \subseteq Debt  BY <2>1, <2>2, <2>3 DEF Debt, InWork, Damaged
    <2> QED  BY <1>a, <1>b, <1>c, <1>d, <1>e, <2>1, <2>4 DEF KeptInv
  <1>3. CASE RenameFails
    <2>1. wpc' = "none" /\ UNCHANGED <<final, had, stale, crashes>> /\ refusals' = refusals + 1
      BY <1>3 DEF RenameFails
    <2>2. Debt' = Damaged  BY <2>1 DEF Debt, InWork, Damaged
    <2> QED  BY <1>a, <1>b, <1>c, <1>d, <1>f, <2>1, <2>2 DEF KeptInv
  <1>4. CASE Rename
    <2>1. /\ wpc = "rename" /\ wpc' = "dropCaches" /\ UNCHANGED <<current, refusals, crashes>>
          /\ had' = had \cup {current} /\ stale' = stale \cup {current}
      BY <1>4 DEF Rename
    <2>2. current \in Chapter  BY <1>a, <2>1, BookAssumption DEF PlaceInv, TypeOK, Chapter
    <2>3. final'[current] = run /\ \A c \in Chapter \ {current} : final'[c] = final[c]
      BY <1>4, <2>2 DEF Rename, TypeOK
    <2>4. had \subseteq Chapter  BY DEF TypeOK
    <2>5. Debt' \subseteq Debt  BY <2>1, <2>3, <2>4 DEF Debt, InWork, Damaged
    <2>6. run > 0  BY <2>1 DEF PlaceInv
    <2> QED  BY <1>a, <1>b, <1>c, <1>d, <1>e, <2>1, <2>3, <2>5, <2>6 DEF KeptInv
  <1>5. CASE DropCaches
    <2>1. /\ wpc = "dropCaches" /\ wpc' = "top" /\ UNCHANGED <<final, had, refusals, crashes>>
          /\ stale' = stale \ {current}
      BY <1>5 DEF DropCaches
    <2>2. Debt' \subseteq Debt  BY <1>b, <2>1 DEF Debt, InWork, Damaged
    <2> QED  BY <1>a, <1>b, <1>c, <1>d, <1>e, <2>1, <2>2 DEF KeptInv
  <1>6. CASE PowerLoss
    <2>1. wpc' = "none" /\ UNCHANGED <<final, had, stale, refusals>> /\ crashes' = crashes + 1
      BY <1>6 DEF PowerLoss
    <2>2. Debt' = Damaged  BY <2>1 DEF Debt, InWork, Damaged
    <2> QED  BY <1>a, <1>b, <1>c, <1>d, <1>f, <2>1, <2>2 DEF KeptInv
  <1> QED  BY <1>1, <1>2, <1>3, <1>4, <1>5, <1>6 DEF CardSteps

LEMMA KeptNow == TypeOK /\ KeptInv => FinishedChaptersKept
  <1> SUFFICES ASSUME TypeOK, KeptInv  PROVE FinishedChaptersKept
    OBVIOUS
  <1>1. refusals \in Nat /\ crashes \in Nat  BY DEF TypeOK
  <1>2. Cardinality(Debt) <= refusals + crashes  BY DEF KeptInv
  <1>3. IsFiniteSet(Damaged) /\ Cardinality(Damaged) <= Cardinality(Debt \cup {current})
        /\ Cardinality(Debt \cup {current}) <= Cardinality(Debt) + 1
        /\ Cardinality(Debt) \in Nat /\ Cardinality(Debt \cup {current}) \in Nat
    BY Debts
  <1>4. Cardinality(Damaged) \in Nat  BY <1>3, FS_CardinalityType
  <1>5. CASE InWork  BY <1>1, <1>2, <1>3, <1>4, <1>5 DEF FinishedChaptersKept, InWork
  <1>6. CASE ~InWork
    <2>1. Debt = Damaged  BY <1>6 DEF Debt
    <2> QED  BY <1>1, <1>2, <1>4, <1>6, <2>1 DEF FinishedChaptersKept, InWork
  <1> QED  BY <1>5, <1>6
-----------------------------------------------------------------------------
\* The chapters counted are there.
CountInv ==
  /\ workerStarted => \A c \in 1..completed : final[c] # 0 /\ (~skipTranslated => final[c] = run)
  /\ wpc = "dropCaches" => final[current] = run
  /\ taskDone /\ ~cancelFlag /\ workerStarted => completed = NumChapters
  /\ state \in {"DONE", "CHOOSE_DISPLAY_MODE"} /\ workerStarted => completed = NumChapters

LEMMA CountKept ==
  ASSUME TypeOK, PlaceInv, CountInv, [Next]_vars
  PROVE  CountInv'
  <1>a. current \in Nat /\ completed \in Nat /\ run \in Nat /\ NumChapters \in Nat
    BY BookAssumption DEF TypeOK
  <1> USE <1>a DEF CountInv, mainVars, flagVars, cardVars, placeVars, beforeUnchanged, mainUnchanged,
      workerUnchanged, rewriteVars
  <1>2. CASE Enter \/ SourcePicked \/ TargetPicked \/ Confirmed \/ WifiFailed
    <2>1. ~workerStarted
      BY <1>2 DEF Enter, SourcePicked, TargetPicked, Confirmed, WifiFailed, PlaceInv, ResultStates
    <2>2. UNCHANGED <<wpc, final, current, run, workerStarted>>
      BY <1>2 DEF Enter, SourcePicked, TargetPicked, Confirmed, WifiFailed
    <2> QED  BY <2>1, <2>2
  <1>3. CASE startTranslation  BY <1>3 DEF startTranslation, PlaceInv
  <1>4. CASE CreateWorker  BY <1>4 DEF CreateWorker, PlaceInv
  <1>5. CASE ClaimBoundary \/ Repaint \/ Rerelease \/ AckBoundary \/ FinishFailed
    BY <1>5 DEF ClaimBoundary, Repaint, Rerelease, AckBoundary, FinishFailed
  <1>6. CASE FinishDone  BY <1>6 DEF FinishDone
  <1>7. CASE BackCancels \/ onExit  BY <1>7 DEF BackCancels, onExit, Cancel
  <1>8. CASE Leave \/ ExitWaited  BY <1>8 DEF Leave, ExitWaited
  <1>9. CASE ExitRestore  BY <1>9 DEF ExitRestore
  <1>10. CASE LoopEnds
    BY <1>10 DEF LoopEnds, PlaceInv, TypeOK, ResultStates
  <1>11. CASE SkipChapter
    <2>1. /\ completed' = completed + 1 /\ completed' = current /\ final[current] # 0 /\ skipTranslated
          /\ UNCHANGED <<final, skipTranslated, run, workerStarted, wpc, taskDone, state, cancelFlag>>
      BY <1>11 DEF SkipChapter, AtChapter, Skipped, PlaceInv
    <2>2. workerStarted' => \A c \in 1..completed' : final'[c] # 0 /\ (~skipTranslated' => final'[c] = run')
      <3>1. \A c \in 1..completed' : c \in 1..completed \/ c = current  BY <2>1
      <3> QED  BY <2>1, <3>1
    <2>3. ~taskDone /\ state \notin {"DONE", "CHOOSE_DISPLAY_MODE"} /\ wpc # "dropCaches"
      BY <1>11 DEF SkipChapter, AtChapter, PlaceInv
    <2> QED  BY <2>1, <2>2, <2>3
  <1>12. CASE \/ FirstChapter \/ ChapterBoundary \/ ChapterBoundaryEnds \/ HeapWaited \/ Extracted
              \/ FileFails \/ StartChapter \/ RewriteStep \/ BoundaryPassed \/ BatchBoundary
              \/ BatchBoundaryEnds \/ DropFailed \/ Commit \/ DropCancelled
    <2>1. /\ UNCHANGED <<completed, final, skipTranslated, run, state, workerStarted>>
          /\ wpc' # "dropCaches" /\ state = "TRANSLATING" /\ (taskDone' => cancelFlag')
      <3>1. CASE \/ FirstChapter \/ ChapterBoundary \/ ChapterBoundaryEnds \/ HeapWaited \/ Extracted
                 \/ FileFails \/ StartChapter \/ BatchBoundary \/ DropFailed \/ Commit
        BY <3>1 DEF FirstChapter, ChapterBoundary, ChapterBoundaryEnds, RaiseBoundary, AtChapter,
           HeapWaited, Extracted, FileFails, StartChapter, BatchBoundary, DropFailed, Commit, Finished,
           PlaceInv
      <3>2. CASE RewriteStep \/ BoundaryPassed \/ BatchBoundaryEnds
        BY <3>2 DEF RewriteStep, BoundaryPassed, BatchBoundaryEnds, PlaceInv
      <3>3. CASE DropCancelled  BY <3>3 DEF DropCancelled, Finished, PlaceInv
      <3> QED  BY <1>12, <3>1, <3>2, <3>3
    <2> QED  BY <2>1
  <1>13. CASE RemoveFinal
    <2>1. /\ wpc = "removeFinal" /\ wpc' = "rename" /\ final' = [final EXCEPT ![current] = 0]
          /\ UNCHANGED <<completed, current, skipTranslated, run, state, workerStarted, taskDone>>
      BY <1>13 DEF RemoveFinal
    <2>2. completed = current - 1 /\ ~taskDone /\ state = "TRANSLATING"  BY <2>1 DEF PlaceInv
    <2>3. \A c \in 1..completed : final'[c] = final[c]
      <3>1. \A c \in 1..completed : c \in Chapter /\ c # current
        BY <2>2 DEF TypeOK, Chapter
      <3> QED  BY <2>1, <3>1 DEF TypeOK
    <2> QED  BY <2>1, <2>2, <2>3
  <1>14. CASE RenameFails  BY <1>14 DEF RenameFails, PlaceInv
  <1>15. CASE Rename
    <2>1. /\ wpc = "rename" /\ wpc' = "dropCaches" /\ final' = [final EXCEPT ![current] = run]
          /\ UNCHANGED <<completed, current, skipTranslated, run, state, workerStarted, taskDone>>
      BY <1>15 DEF Rename
    <2>2. completed = current - 1 /\ ~taskDone /\ state = "TRANSLATING" /\ current <= NumChapters
      BY <2>1 DEF PlaceInv
    <2>3. \A c \in 1..completed : final'[c] = final[c]
      <3>1. \A c \in 1..completed : c \in Chapter /\ c # current
        BY <2>2 DEF TypeOK, Chapter
      <3> QED  BY <2>1, <3>1 DEF TypeOK
    <2>4. final'[current] = run  BY <2>1, <2>2 DEF TypeOK, Chapter
    <2> QED  BY <2>1, <2>2, <2>3, <2>4
  <1>16. CASE DropCaches
    <2>1. /\ wpc = "dropCaches" /\ wpc' = "top" /\ completed' = completed + 1
          /\ UNCHANGED <<final, skipTranslated, run, state, workerStarted, taskDone>>
      BY <1>16 DEF DropCaches
    <2>2. /\ completed = current - 1 /\ ~taskDone /\ state = "TRANSLATING" /\ run > 0
          /\ final[current] = run
      BY <2>1 DEF PlaceInv
    <2>3. \A c \in 1..completed' : c \in 1..completed \/ c = current  BY <2>1, <2>2
    <2> QED  BY <2>1, <2>2, <2>3
  <1>17. CASE PowerLoss  BY <1>17 DEF PowerLoss
  <1>18. CASE KeepReading \/ UNCHANGED vars  BY <1>18 DEF KeepReading, vars
  <1> QED
    BY <1>2, <1>3, <1>4, <1>5, <1>6, <1>7, <1>8, <1>9, <1>10, <1>11, <1>12, <1>13, <1>14, <1>15, <1>16,
       <1>17, <1>18 DEF Next, User, Main, Worker

LEMMA CountNow == TypeOK /\ PlaceInv /\ CountInv => ReportsWhatIsThere
  BY DEF CountInv, ReportsWhatIsThere

-----------------------------------------------------------------------------
(* The book's theorems.                                                    *)

LEMMA BookInit == Init => TypeOK /\ PlaceInv /\ HandInv /\ StartedInv /\ KeptInv /\ CountInv
  <1> SUFFICES ASSUME Init  PROVE TypeOK /\ PlaceInv /\ HandInv /\ StartedInv /\ KeptInv /\ CountInv
    OBVIOUS
  <1>a. NumChapters \in Nat /\ MaxRuns \in Nat  BY BookAssumption
  <1>1. BatchTypeOK  BY InitTypes DEF Init
  <1>2. TypeOK
    <2>1. {workerStarted, skipTranslated, fb} \subseteq BOOLEAN  BY DEF Init
    <2>2. {taskDone, taskFailed, boundaryPending, boundaryAck} \subseteq BOOLEAN  BY DEF Init
    <2>3. final \in [Chapter -> 0..MaxRuns]  BY <1>a DEF Init
    <2> QED
      BY <1>1, <1>a, <2>1, <2>2, <2>3 DEF Init, TypeOK, States, PickerStates, MainPcs, WorkerPcs
  <1>3. PlaceInv  BY DEF Init, RewriteInit, PlaceInv
  <1>4. HandInv  BY DEF Init, HandInv, Parked, Repainting
  <1>5. KeptInv
    <2>1. Debt = {}  BY DEF Init, Debt, InWork, Damaged
    <2>2. Cardinality(Debt) = 0  BY <2>1, FS_EmptySet
    <2> QED  BY <2>2 DEF Init, KeptInv
  <1>6. CountInv  BY DEF Init, CountInv
  <1>7. StartedInv  BY DEF Init, StartedInv
  <1> QED  BY <1>2, <1>3, <1>4, <1>5, <1>6, <1>7

LEMMA PlacesKept == TypeOK /\ PlaceInv /\ [Next]_vars => (TypeOK /\ PlaceInv)'
  BY BookTypes, PlaceKept

\* The types of both, for any number of chapters, runs and power losses.
THEOREM TypeCorrect == Spec => []TypeOK
  BY BookInit, PlacesKept, PTL DEF Spec

\* The book takes no step of the rewriter's that the rewriter's own specification does not have, so
\* that what is proved of one chapter holds of each chapter of a book.
THEOREM Rewrites == Spec => RewriteSpec
  <1>1. TypeOK /\ PlaceInv /\ [Next]_vars => [Rewrite \/ Caller]_rewriteVars  BY BookCalls
  <1>2. Init => RewriteInit  BY DEF Init
  <1> QED  BY <1>1, <1>2, BookInit, PlacesKept, PTL DEF Spec, RewriteSpec

\* In a book, too, no translation lands on another paragraph.
THEOREM BookLinesUp ==
  ASSUME ~LooseReplies
  PROVE  Spec => []TranslationsLineUp
  BY LinesUp, Rewrites, PTL

\* Nor is a chapter committed whose texts were dropped uncounted.
THEOREM BookNoBogus == Spec => []NothingBogus
  BY NoBogus, Rewrites, PTL

\* The boundary protocol keeps the framebuffer out of the heap while a request is out: the main
\* task draws only between a boundary raised and acknowledged.
THEOREM HeapForTheNetwork ==
  ASSUME ~BufferStuck
  PROVE  Spec => []NetworkHasTheHeap
  <1>1. TypeOK /\ PlaceInv /\ HandInv /\ [Next]_vars => (TypeOK /\ PlaceInv /\ HandInv)'
    BY PlacesKept, HandKept
  <1>2. HandInv => NetworkHasTheHeap  BY DEF HandInv, NetworkHasTheHeap, Parked, Repainting
  <1> QED  BY <1>1, <1>2, BookInit, PTL DEF Spec

\* The handshake of a boundary, with the framebuffer released or not: the main task takes it back only from
\* a worker that is parked.
THEOREM RepaintsOnlyWhileParked == Spec => []RepaintsWhileParked
  <1>1. TypeOK /\ PlaceInv /\ HandInv /\ [Next]_vars => (TypeOK /\ PlaceInv /\ HandInv)'
    BY PlacesKept, HandKept
  <1>2. HandInv => RepaintsWhileParked  BY DEF HandInv, RepaintsWhileParked
  <1> QED  BY <1>1, <1>2, BookInit, PTL DEF Spec

\* The waits of serviceBatchBoundary() and onExit() are never for an answer that was lost, in whatever order
\* a cancel, a repaint, the end of a chapter and the end of the run come.
THEOREM WaitsAreNeverInVain == Spec => []WaitsAreAnswered
  <1>1. TypeOK /\ PlaceInv /\ HandInv /\ StartedInv /\ [Next]_vars
          => (TypeOK /\ PlaceInv /\ HandInv /\ StartedInv)'
    BY PlacesKept, HandKept, StartedKept
  <1>2. HandInv /\ StartedInv => WaitsAreAnswered
    BY DEF HandInv, StartedInv, WaitsAreAnswered, BoundaryEnds
  <1> QED  BY <1>1, <1>2, BookInit, PTL DEF Spec

\* Cancelling, failing and losing power cost at most the chapter in work each time.
THEOREM FinishedKept ==
  ASSUME ~SlowNetwork
  PROVE  Spec => []FinishedChaptersKept
  <1>1. TypeOK /\ PlaceInv /\ KeptInv /\ [Next]_vars => (TypeOK /\ PlaceInv /\ KeptInv)'
    BY PlacesKept, KeptStays
  <1> QED  BY <1>1, KeptNow, BookInit, PTL DEF Spec

\* What a result screen says of the chapters is so.
THEOREM ReportsTruly == Spec => []ReportsWhatIsThere
  <1>1. TypeOK /\ PlaceInv /\ CountInv /\ [Next]_vars => (TypeOK /\ PlaceInv /\ CountInv)'
    BY PlacesKept, CountKept
  <1> QED  BY <1>1, CountNow, BookInit, PTL DEF Spec
=============================================================================
