-------------------------- MODULE TranslationBatches --------------------------
(***************************************************************************)
(* Translating the text of one chapter: TranslationHtmlRewriter, which     *)
(* collects the chapter's blocks into batches, sends a batch as one        *)
(* request or as a request per paragraph, as the engine's policy allows,   *)
(* and writes every block out followed by its translation.                 *)
(*                                                                         *)
(* A block is its number in the chapter and the length of its text; the    *)
(* chapter is whatever blocks are read.  A piece of a reply is the number  *)
(* of the block it translates, or 0 for one that is empty or the original. *)
(***************************************************************************)
EXTENDS Naturals, Sequences, FiniteSets

CONSTANTS
    Engines,          \* policies the chosen engine can have
    Sizes,            \* lengths of a block's text; 0 is none
    MaxText,          \* a longer text is never sent
    SeparatorBytes,   \* length of the blank line between two texts of a batch
    MaxFailures,      \* failed requests in a row before the run is given up
    MaxHeapTimeouts,  \* waits for memory in a row before it is
    MaxBlocks,        \* bound: blocks of a chapter
    LooseReplies      \* an engine may both join and split texts of one reply

Policies ==
    [batching : {"none", "separator", "array"}, target : Nat, merged : Nat,
     attempts : Nat \ {0}, rateLimits : Nat \ {0}]

ASSUME BatchAssumption ==
    /\ Engines \subseteq Policies /\ Sizes \subseteq Nat
    /\ {MaxText, SeparatorBytes, MaxBlocks} \subseteq Nat
    /\ {MaxFailures, MaxHeapTimeouts} \subseteq Nat \ {0}
    /\ LooseReplies \in BOOLEAN

VARIABLES
    engine,           \* the policy of the engine the settings name
    cancelFlag,       \* the activity wants the run to stop
    pc,               \* where the rewriter is
    read, ending,     \* blocks read; the chapter has been read
    held,             \* the block that waits for a flush before it is added
    batch, bytes,     \* the batch and batchTextBytes
    one, attempt,     \* one request per paragraph; attempts made of this request
    pieces,           \* translations: what came back, in order
    out,              \* what has been written
    translated, failures,       \* paragraphsTranslated, translateFailures
    inRow, limits, heapWaits,   \* consecutiveFailures, consecutive429, consecutiveHeapTimeouts
    aborted,          \* abortedOnErrors, abortedLowMemory
    unanswered,       \* observer: the blocks with a text no engine has answered for
    tooLong           \* observer: a text was too long to be sent

requestVars == <<one, attempt, pieces>>
countVars == <<failures, inRow, limits, heapWaits, aborted>>
textVars == <<read, ending, held, batch, bytes>>
outVars == <<out, translated>>
observed == <<unanswered, tooLong>>
rewriteVars == <<engine, cancelFlag, pc, textVars, requestVars, outVars, countVars, observed>>

Entry == [block : 1..MaxBlocks, text : Nat]
Written == [block : 1..MaxBlocks, with : 0..MaxBlocks]
Pcs == {"idle", "parse", "flush", "heap", "next", "ask", "paragraph", "write", "boundary", "done"}

Blank ==
    /\ read' = 0 /\ ending' = FALSE /\ held' = <<>> /\ batch' = <<>> /\ bytes' = 0
    /\ one' = FALSE /\ attempt' = 0 /\ pieces' = <<>> /\ out' = <<>> /\ translated' = 0
    /\ failures' = 0 /\ inRow' = 0 /\ limits' = 0 /\ heapWaits' = 0 /\ aborted' = "no"
    /\ unanswered' = {} /\ tooLong' = FALSE

\* rewriteFromFile() starts from scratch; between two runs nothing of them is left.
Begin == pc = "idle" /\ pc' = "parse" /\ Blank
Forget == pc' = "idle" /\ Blank

RewriteInit ==
    /\ engine \in Engines /\ cancelFlag = FALSE
    /\ pc = "idle" /\ read = 0 /\ ending = FALSE /\ held = <<>> /\ batch = <<>> /\ bytes = 0
    /\ one = FALSE /\ attempt = 0 /\ pieces = <<>> /\ out = <<>> /\ translated = 0
    /\ failures = 0 /\ inRow = 0 /\ limits = 0 /\ heapWaits = 0 /\ aborted = "no"
    /\ unanswered = {} /\ tooLong = FALSE

-----------------------------------------------------------------------------
(* Reading: flushBlock(), called for each closing block element.           *)

\* The places of the batch that have a text, and the place each has among them.
Texts == {i \in 1..Len(batch) : batch[i].text # 0}
Position(i) == Cardinality({j \in Texts : j <= i})
Count == Cardinality(Texts)

\* An array engine's batch goes first if the block would take it over the target.
MustFlushFirst(size) ==
    /\ engine.batching = "array" /\ size # 0 /\ size <= engine.merged /\ bytes > 0
    /\ bytes + SeparatorBytes + size > engine.target

Sendable(size) == IF size <= MaxText THEN size ELSE 0

Take(size, entry) ==
    IF MustFlushFirst(size)
    THEN held' = <<entry>> /\ pc' = "flush" /\ UNCHANGED <<batch, bytes>>
    ELSE /\ batch' = Append(batch, entry) /\ bytes' = bytes + entry.text
         /\ pc' = IF bytes' >= engine.target THEN "flush" ELSE "parse"
         /\ UNCHANGED held

\* After an error the rest of the chunk is still parsed; after a cancel blocks are dropped.
ReadBlock ==
    /\ pc = "parse" /\ ~cancelFlag /\ read < MaxBlocks
    /\ read' = read + 1
    /\ \E size \in Sizes :
        /\ Take(size, [block |-> read + 1, text |-> Sendable(size)])
        /\ unanswered' = unanswered \cup (IF Sendable(size) # 0 THEN {read'} ELSE {})
        /\ tooLong' = (tooLong \/ size > MaxText)
    /\ UNCHANGED <<engine, cancelFlag, ending, requestVars, outVars, countVars>>

\* The input ends, or cannot be read further; or the loop stops for an error or a cancel.
EndOfInput ==
    /\ pc = "parse"
    /\ ending' = TRUE
    /\ pc' = IF batch = <<>> THEN "done" ELSE "flush"
    /\ UNCHANGED <<engine, cancelFlag, read, held, batch, bytes, requestVars, outVars, countVars,
                   observed>>

-----------------------------------------------------------------------------
(* Sending: flushBatch().                                                  *)

Stopping == cancelFlag \/ aborted # "no"

\* The batch is through: what waited is added, then reading goes on.
Resume ==
    /\ batch' = held /\ held' = <<>>
    /\ bytes' = IF held = <<>> THEN 0 ELSE held[1].text
    /\ pc' = IF held # <<>> /\ bytes' >= engine.target THEN "flush"
             ELSE IF ending THEN "done" ELSE "parse"

FlushUntranslated ==
    /\ pc = "flush" /\ Stopping
    /\ out' = out \o [i \in 1..Len(batch) |-> [block |-> batch[i].block, with |-> 0]]
    /\ Resume
    /\ UNCHANGED <<engine, cancelFlag, read, ending, translated, requestVars, countVars, observed>>

FlushNothing ==
    /\ pc = "flush" /\ ~Stopping /\ Texts = {}
    /\ pieces' = <<>> /\ heapWaits' = 0
    /\ pc' = "write"
    /\ UNCHANGED <<engine, cancelFlag, textVars, one, attempt, outVars, failures, inRow, limits,
                   aborted, observed>>

FlushTexts ==
    /\ pc = "flush" /\ ~Stopping /\ Texts # {}
    /\ pieces' = <<>>
    /\ pc' = "heap"
    /\ UNCHANGED <<engine, cancelFlag, textVars, one, attempt, outVars, countVars, observed>>

\* waitForHeapReady() gives up.
HeapTimesOutUncounted ==
    /\ pc = "heap" /\ ~cancelFlag
    /\ heapWaits' = heapWaits + 1
    /\ aborted' = IF heapWaits' >= MaxHeapTimeouts THEN "memory" ELSE "no"
    /\ pc' = "write"
    /\ UNCHANGED <<engine, cancelFlag, textVars, requestVars, outVars, failures, inRow, limits, observed>>
HeapTimesOut ==
    /\ pc = "heap" /\ ~cancelFlag
    /\ failures' = failures + Count /\ heapWaits' = heapWaits + 1
    /\ aborted' = IF heapWaits' >= MaxHeapTimeouts THEN "memory" ELSE "no"
    /\ pc' = "write"
    /\ UNCHANGED <<engine, cancelFlag, textVars, requestVars, outVars, inRow, limits, observed>>

HeapWaitCancelled ==
    /\ pc = "heap" /\ cancelFlag
    /\ pc' = "write"
    /\ UNCHANGED <<engine, cancelFlag, textVars, requestVars, outVars, countVars, observed>>

\* The whole batch in one request, if the engine takes batches and it is not too large.
Mergeable == engine.batching # "none" /\ bytes + SeparatorBytes * (Count - 1) <= engine.merged

HeapReady ==
    /\ pc = "heap"
    /\ heapWaits' = 0 /\ attempt' = 0 /\ one' = ~Mergeable
    /\ pc' = IF Mergeable THEN "ask" ELSE "next"
    /\ UNCHANGED <<engine, cancelFlag, textVars, pieces, outVars, failures, inRow, limits, aborted,
                   observed>>

NextParagraph ==
    /\ pc = "next" /\ ~Stopping /\ Len(pieces) < Count
    /\ attempt' = 0
    /\ pc' = "ask"
    /\ UNCHANGED <<engine, cancelFlag, textVars, one, pieces, outVars, countVars, observed>>

NoMoreParagraphs ==
    /\ pc = "next" /\ (Stopping \/ Len(pieces) = Count)
    /\ pc' = "write"
    /\ UNCHANGED <<engine, cancelFlag, textVars, requestVars, outVars, countVars, observed>>

\* The blocks a request is about.
AskedNow == {i \in Texts : one => Position(i) = Len(pieces) + 1}
Blocks(places) == {batch[i].block : i \in places}

-----------------------------------------------------------------------------
(* The engine's answer.                                                    *)

\* The answer to one paragraph.
ParagraphTranslated ==
    /\ pc = "ask" /\ one
    /\ \E i \in AskedNow : \E piece \in {0, batch[i].block} : pieces' = Append(pieces, piece)
    /\ unanswered' = unanswered \ Blocks(AskedNow)
    /\ inRow' = 0 /\ limits' = 0
    /\ pc' = "paragraph"
    /\ UNCHANGED <<engine, cancelFlag, textVars, one, attempt, outVars, failures, heapWaits, aborted,
                   tooLong>>

\* A reply with one piece for each text, each the text's own; a loose engine may join two texts and
\* split another.
Faithful(reply) == \A i \in Texts : reply[Position(i)] \in {0, batch[i].block}
Replies == [1..Count -> Blocks(Texts) \cup {0}]

BatchTranslated ==
    /\ pc = "ask" /\ ~one
    /\ pieces' \in Replies /\ (Faithful(pieces') \/ LooseReplies)
    /\ unanswered' = unanswered \ Blocks(AskedNow)
    /\ inRow' = 0 /\ limits' = 0
    /\ pc' = "write"
    /\ UNCHANGED <<engine, cancelFlag, textVars, one, attempt, outVars, failures, heapWaits, aborted,
                   tooLong>>

\* The request is given up: it counts for each text it was about.
GiveUp(fatal) ==
    /\ failures' = failures + Cardinality(AskedNow)
    /\ inRow' = IF fatal THEN inRow ELSE inRow + 1
    /\ aborted' = IF fatal \/ inRow' >= MaxFailures THEN "errors" ELSE "no"
    /\ pieces' = IF one THEN Append(pieces, 0) ELSE <<>>
    /\ pc' = IF one THEN "paragraph" ELSE "write"
    /\ UNCHANGED <<engine, cancelFlag, textVars, one, attempt, outVars, heapWaits, observed>>

\* A reply that splits into another number of pieces is dropped, and not asked for again.
ReplyMiscountedKept ==
    /\ pc = "ask" /\ ~one
    /\ \E i \in 1..Count :
        pieces' = [k \in 1..Count - 1 |->
                      LET p == IF k < i THEN k ELSE k + 1
                      IN batch[CHOOSE j \in Texts : Position(j) = p].block]
    /\ limits' = 0 /\ inRow' = 0 /\ unanswered' = unanswered \ Blocks(AskedNow)
    /\ pc' = "write"
    /\ UNCHANGED <<engine, cancelFlag, textVars, one, attempt, outVars, failures, heapWaits, aborted,
                   tooLong>>
ReplyMiscounted == pc = "ask" /\ ~one /\ limits' = 0 /\ GiveUp(FALSE)

\* shouldRetryAfterFailure(): what an HTTP code means for the run.
Codes == {"refused", "rateLimited", "permanent", "transient"}
TooManyLimits(code) == code = "rateLimited" /\ limits + 1 >= engine.rateLimits
Fatal(code) == code = "refused" \/ TooManyLimits(code)
Retries(code) ==
    /\ code \in {"transient", "rateLimited"} /\ ~TooManyLimits(code)
    /\ attempt + 1 < engine.attempts

CountLimits(code) ==
    limits' = CASE code = "rateLimited" -> limits + 1 [] code = "refused" -> limits [] OTHER -> 0

RequestRetried ==
    /\ pc = "ask"
    /\ \E code \in Codes : Retries(code) /\ CountLimits(code)
    /\ attempt' = attempt + 1
    /\ UNCHANGED <<engine, cancelFlag, pc, textVars, one, pieces, outVars, failures, inRow,
                   heapWaits, aborted, observed>>

RequestFails ==
    /\ pc = "ask"
    /\ \E code \in Codes : ~Retries(code) /\ CountLimits(code) /\ GiveUp(Fatal(code))

-----------------------------------------------------------------------------
(* Writing out.                                                            *)

\* The k-th text of the batch gets the k-th piece, if there is one.
With(i) ==
    IF i \in Texts /\ Position(i) <= Len(pieces) THEN pieces[Position(i)] ELSE 0

WriteOut ==
    /\ pc = "write"
    /\ out' = out \o [i \in 1..Len(batch) |-> [block |-> batch[i].block, with |-> With(i)]]
    /\ translated' = translated + Cardinality({i \in 1..Len(batch) : With(i) # 0})
    /\ batch' = <<>> /\ bytes' = 0
    /\ pc' = "boundary"
    /\ UNCHANGED <<engine, cancelFlag, read, ending, held, requestVars, countVars, observed>>

\* onBatchBoundary() has returned, after a paragraph or after a batch.
ParagraphPassed ==
    /\ pc = "paragraph" /\ pc' = "next"
    /\ UNCHANGED <<engine, cancelFlag, textVars, requestVars, outVars, countVars, observed>>

BatchPassed ==
    /\ pc = "boundary" /\ Resume
    /\ UNCHANGED <<engine, cancelFlag, read, ending, requestVars, outVars, countVars, observed>>

-----------------------------------------------------------------------------
Reading == ReadBlock \/ EndOfInput
Flushing ==
    \/ FlushUntranslated \/ FlushNothing \/ FlushTexts
    \/ HeapTimesOut \/ HeapWaitCancelled \/ HeapReady \/ NextParagraph \/ NoMoreParagraphs
Answering ==
    \/ ParagraphTranslated \/ BatchTranslated \/ ReplyMiscounted \/ RequestRetried \/ RequestFails
Passing == ParagraphPassed \/ BatchPassed

\* One step of the rewriter; the callback is the caller's.
Rewrite == Reading \/ Flushing \/ Answering \/ WriteOut

\* The caller: between runs anything, then a run, its end asked for, its result forgotten.
Idle ==
    /\ pc = "idle" /\ engine' \in Engines /\ cancelFlag' \in BOOLEAN
    /\ UNCHANGED <<pc, textVars, requestVars, outVars, countVars, observed>>
Start == Begin /\ UNCHANGED <<engine, cancelFlag>>
Cancel ==
    /\ cancelFlag' = TRUE
    /\ UNCHANGED <<engine, pc, textVars, requestVars, outVars, countVars, observed>>
Drop == Forget /\ engine' \in Engines /\ cancelFlag' \in BOOLEAN
Caller == Idle \/ Start \/ Cancel \/ Drop \/ Passing

RewriteSpec == RewriteInit /\ [][Rewrite \/ Caller]_rewriteVars

-----------------------------------------------------------------------------
(* What the activities make of the result, and properties.                 *)

Asking == pc = "ask"

\* A result that is committed: not cancelled, not aborted, not "no paragraphs translated".
Committable == ~Stopping /\ ~(translated = 0 /\ failures > 0)

\* Types.
BatchTypeOK ==
    /\ engine \in Engines /\ cancelFlag \in BOOLEAN /\ pc \in Pcs
    /\ read \in 0..MaxBlocks /\ {ending, one} \subseteq BOOLEAN
    /\ held \in Seq(Entry) /\ Len(held) <= 1 /\ batch \in Seq(Entry) /\ bytes \in Nat
    /\ attempt \in Nat /\ pieces \in Seq(0..MaxBlocks) /\ out \in Seq(Written)
    /\ {translated, failures, inRow, limits, heapWaits} \subseteq Nat
    /\ aborted \in {"no", "errors", "memory"}
    /\ unanswered \subseteq 1..MaxBlocks /\ tooLong \in BOOLEAN

\* The blocks are written once each in the order of the chapter, none is followed by the
\* translation of another ("every later translation ... lands on the WRONG paragraph"), and at
\* the end of a run that is kept none is missing.
TranslationsLineUp ==
    /\ \A i \in 1..Len(out) : out[i].block = i /\ out[i].with \in {0, i}
    /\ pc = "done" /\ ~cancelFlag => Len(out) = read

\* A chapter of which nothing was translated is committed only if every text of it was answered
\* for: whatever kept a request from being made or answered shows in the count of failures.
NothingBogus == pc = "done" /\ Committable /\ translated = 0 => unanswered = {}

\* "A chapter that HAD translatable content but translated none of it ... must not be committed":
\* also when the texts were too long to be sent.
NothingLeftOut == pc = "done" /\ Committable /\ translated = 0 => unanswered = {} /\ ~tooLong

\* "Native-array providers must stay on their native batch path": no burst of single requests.
StaysNative == engine.batching = "array" => ~one
=============================================================================
