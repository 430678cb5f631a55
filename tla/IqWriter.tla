------------------------------ MODULE IqWriter ------------------------------
(***************************************************************************)
(* class IqWriter (src/src/iq_writer.{hpp,cpp}): the bounded queue between *)
(* the SDRplay stream callback and the thread that writes the .iq file.    *)
(*                                                                         *)
(* Three threads meet here: the callback thread calls enqueue(), the       *)
(* application thread calls finish() (as often as it likes: the destructor *)
(* does it again), and writerLoop() runs on a thread of its own.  Every    *)
(* member but output_ is guarded by mutex_, so a critical section is one   *)
(* atomic action; what a thread does outside the mutex (a write, a flush,  *)
(* a notification, the join) is an action of its own.  A thread blocked in *)
(* queueChanged_.wait is "asleep" until a notification, or a spurious      *)
(* wakeup, sends it back to test its predicate.                            *)
(***************************************************************************)
EXTENDS Integers, Sequences

CONSTANTS
  Blocks,           \* the IQ blocks that may be offered
  Samples,          \* [Blocks -> Nat]: complex samples in a block, 0 if empty
  MaxQueuedBlocks,  \* maxQueuedBlocks_; 0 makes the constructor refuse
  MaxOffers,        \* bound: calls of enqueue()
  MaxFinishes       \* bound: calls of finish()

ASSUME WriterAssumption ==
  /\ Samples \in [Blocks -> Nat]
  /\ MaxQueuedBlocks \in Nat /\ MaxOffers \in Nat /\ MaxFinishes \in Nat

VARIABLES
  queue, accepting, closing, writerFailure, failureMessage,  \* guarded
  samplesAccepted, samplesWritten, queueOverflowCount, droppedBlockCount,
  stopRequested,     \* *stopRequested_, as far as the writer sets it
  output,            \* output_: "good", "bad" (failbit or badbit) or "null"
  writer,            \* where writerThread_ is in writerLoop()
  block,             \* its local block, as a sequence of at most one
  finisher,          \* where the application thread is in finish()
  verdict,           \* what finish() last returned: "none", "ok", "failed"
  finishes,          \* how often finish() has returned
  accepted,          \* history: the blocks enqueue() accepted, in order
  offered, thrown,   \* history: calls of enqueue() that returned, that threw
  file,              \* the blocks the stream took, in order
  durable            \* how many of them have left the stream's buffer

guarded == <<queue, accepting, closing, writerFailure, failureMessage>>
counts  == <<samplesAccepted, samplesWritten, queueOverflowCount,
             droppedBlockCount>>
thread  == <<writer, block>>
stream  == <<output, file, durable>>
caller  == <<finisher, verdict, finishes>>
history == <<accepted, offered, thrown>>
vars    == <<guarded, counts, stopRequested, thread, stream, caller, history>>

-----------------------------------------------------------------------------
\* The constructor: without a stream or without queue space no thread starts.
Init ==
  \E usable \in BOOLEAN :
    /\ output \in {"good", "null"}
    /\ usable = (output = "good" /\ MaxQueuedBlocks > 0)
    /\ accepting = usable /\ closing = ~usable
    /\ writerFailure = ~usable /\ stopRequested = ~usable
    /\ failureMessage = IF usable THEN "none" ELSE "unusable"
    /\ writer = IF usable THEN "test" ELSE "exited"
    /\ queue = <<>> /\ block = <<>> /\ file = <<>> /\ accepted = <<>>
    /\ samplesAccepted = 0 /\ samplesWritten = 0
    /\ queueOverflowCount = 0 /\ droppedBlockCount = 0
    /\ durable = 0 /\ offered = 0 /\ thrown = 0
    /\ finisher = "idle" /\ verdict = "none" /\ finishes = 0

-----------------------------------------------------------------------------
(* Faulty variants: slips that would be easy to make in this class.  None  *)
(* is part of Next; substituting one for the operator of similar name      *)
(* shows that the property which is meant to catch it does.                *)

NotifyNobody == UNCHANGED writer

QueueIsFullOffByOne == Len(queue) > MaxQueuedBlocks

\* The predicate of wait() forgets closing_.
SleepThoughClosing ==
  /\ writer = "test" /\ queue = <<>>
  /\ writer' = "asleep"
  /\ UNCHANGED <<guarded, counts, stopRequested, block, stream, caller,
                 history>>

\* back() where front() was meant.
TakeNewestBlock ==
  /\ writer = "test" /\ queue # <<>>
  /\ block' = <<queue[Len(queue)]>>
  /\ queue' = SubSeq(queue, 1, Len(queue) - 1)
  /\ writer' = "write"
  /\ UNCHANGED <<accepting, closing, writerFailure, failureMessage, counts,
                 stopRequested, stream, caller, history>>

\* One per block instead of size() / 2.
CountWrittenBlocks ==
  /\ writer = "count"
  /\ samplesWritten' = samplesWritten + 1
  /\ block' = <<>> /\ writer' = "test"
  /\ UNCHANGED <<guarded, samplesAccepted, queueOverflowCount,
                 droppedBlockCount, stopRequested, stream, caller, history>>

\* Does not ask whether a failure was recorded before.
RecordEveryFailure(message, currentBlockWasDropped) ==
  /\ droppedBlockCount' = droppedBlockCount + Len(queue)
       + IF currentBlockWasDropped THEN 1 ELSE 0
  /\ queue' = <<>> /\ failureMessage' = message
  /\ writerFailure' = TRUE /\ accepting' = FALSE /\ closing' = TRUE
  /\ stopRequested' = TRUE
  /\ UNCHANGED <<samplesAccepted, samplesWritten, queueOverflowCount>>

\* Forgets the blocks that were accepted but are still queued.
RecordFailureOfBlock(message, currentBlockWasDropped) ==
  /\ IF writerFailure
     THEN UNCHANGED <<droppedBlockCount, queue, failureMessage>>
     ELSE /\ droppedBlockCount' = droppedBlockCount
               + IF currentBlockWasDropped THEN 1 ELSE 0
          /\ queue' = <<>> /\ failureMessage' = message
  /\ writerFailure' = TRUE /\ accepting' = FALSE /\ closing' = TRUE
  /\ stopRequested' = TRUE
  /\ UNCHANGED <<samplesAccepted, samplesWritten, queueOverflowCount>>

\* The state of the stream is not looked at after the flush.
FlushUnchecked ==
  /\ writer = "flush" /\ output' = "bad"
  /\ durable' \in durable .. Len(file)
  /\ writer' = "exited"
  /\ UNCHANGED <<guarded, counts, stopRequested, block, file, caller, history>>

\* finish() closes the queue but leaves accepting_ alone.
FinishKeepsAccepting ==
  /\ finisher = "idle" /\ finishes < MaxFinishes
  /\ closing' = TRUE
  /\ finisher' = "notify"
  /\ UNCHANGED <<queue, accepting, writerFailure, failureMessage, counts,
                 stopRequested, thread, stream, verdict, finishes, history>>

FinishWithoutJoin ==
  /\ finisher = "join"
  /\ finisher' = "reset"
  /\ UNCHANGED <<guarded, counts, stopRequested, thread, stream, verdict,
                 finishes, history>>

-----------------------------------------------------------------------------
\* queueChanged_.notify_one() and notify_all(): one thread ever waits.
Notify == writer' = IF writer = "asleep" THEN "test" ELSE writer

-----------------------------------------------------------------------------
(* enqueue(), called by the stream callback.                               *)

MayOffer == offered + thrown < MaxOffers

\* EnqueueResult::writerFailed and EnqueueResult::closed.
EnqueueRejected ==
  /\ MayOffer /\ (writerFailure \/ ~accepting)
  /\ droppedBlockCount' = droppedBlockCount + 1
  /\ offered' = offered + 1
  /\ UNCHANGED <<guarded, samplesAccepted, samplesWritten, queueOverflowCount,
                 stopRequested, thread, stream, caller, accepted, thrown>>

QueueIsFull == Len(queue) >= MaxQueuedBlocks

\* EnqueueResult::queueFull.  Storing the message allocates; if that throws,
\* the call leaves with the writer closed but nobody told or woken.
EnqueueQueueFull(allocates) ==
  /\ MayOffer /\ ~writerFailure /\ accepting /\ QueueIsFull
  /\ queueOverflowCount' = queueOverflowCount + 1
  /\ droppedBlockCount' = droppedBlockCount + 1
  /\ accepting' = FALSE /\ closing' = TRUE
  /\ IF allocates
     THEN failureMessage' = "overflow" /\ stopRequested' = TRUE /\ Notify
     ELSE UNCHANGED <<failureMessage, stopRequested, writer>>
  /\ offered' = offered + 1
  /\ UNCHANGED <<queue, writerFailure, samplesAccepted, samplesWritten,
                 block, stream, caller, accepted, thrown>>

\* EnqueueResult::accepted.
EnqueueAccepted(b) ==
  /\ MayOffer /\ ~writerFailure /\ accepting /\ ~QueueIsFull
  /\ samplesAccepted' = samplesAccepted + Samples[b]
  /\ queue' = Append(queue, b)
  /\ Notify
  /\ accepted' = Append(accepted, b) /\ offered' = offered + 1
  /\ UNCHANGED <<accepting, closing, writerFailure, failureMessage,
                 samplesWritten, queueOverflowCount, droppedBlockCount,
                 stopRequested, block, stream, caller, thrown>>

\* push_back throws bad_alloc: the queue is as before, but the samples are
\* counted already, and the exception leaves through the callback.
EnqueueThrows(b) ==
  /\ MayOffer /\ ~writerFailure /\ accepting /\ ~QueueIsFull
  /\ samplesAccepted' = samplesAccepted + Samples[b]
  /\ thrown' = thrown + 1
  /\ UNCHANGED <<guarded, samplesWritten, queueOverflowCount,
                 droppedBlockCount, stopRequested, thread, stream, caller,
                 accepted, offered>>

Enqueue ==
  \/ EnqueueRejected
  \/ \E allocates \in BOOLEAN : EnqueueQueueFull(allocates)
  \/ \E b \in Blocks : EnqueueAccepted(b) \/ EnqueueThrows(b)

-----------------------------------------------------------------------------
(* writerLoop(), on writerThread_.                                         *)

\* wait() finds closing_ || !queue_.empty() false and releases the mutex.
Sleep ==
  /\ writer = "test" /\ queue = <<>> /\ ~closing
  /\ writer' = "asleep"
  /\ UNCHANGED <<guarded, counts, stopRequested, block, stream, caller,
                 history>>

SpuriousWakeup ==
  /\ writer = "asleep" /\ writer' = "test"
  /\ UNCHANGED <<guarded, counts, stopRequested, block, stream, caller,
                 history>>

TakeBlock ==
  /\ writer = "test" /\ queue # <<>>
  /\ block' = <<Head(queue)>> /\ queue' = Tail(queue)
  /\ writer' = "write"
  /\ UNCHANGED <<accepting, closing, writerFailure, failureMessage, counts,
                 stopRequested, stream, caller, history>>

\* The loop ends once the queue is drained and the writer is closing.
Drained ==
  /\ writer = "test" /\ queue = <<>> /\ closing
  /\ writer' = "flush"
  /\ UNCHANGED <<guarded, counts, stopRequested, block, stream, caller,
                 history>>

\* The stream may pass on any part of what it buffers, at any call.
WriteSucceeds ==
  /\ writer = "write"
  /\ file' = file \o block
  /\ durable' \in durable .. Len(file')
  /\ writer' = "count"
  /\ UNCHANGED <<guarded, counts, stopRequested, block, output, caller,
                 history>>

\* An empty block is not written, so it cannot fail.
WriteFails ==
  /\ writer = "write" /\ Samples[Head(block)] > 0
  /\ output' = "bad"
  /\ durable' \in durable .. Len(file)
  /\ writer' = "writeFailed"
  /\ UNCHANGED <<guarded, counts, stopRequested, block, file, caller, history>>

CountWritten ==
  /\ writer = "count"
  /\ samplesWritten' = samplesWritten + Samples[Head(block)]
  /\ block' = <<>> /\ writer' = "test"
  /\ UNCHANGED <<guarded, samplesAccepted, queueOverflowCount,
                 droppedBlockCount, stopRequested, stream, caller, history>>

\* recordWriterFailure(): only the first failure of the writer is accounted
\* for; that the queue may have overflowed before is not asked.
RecordWriterFailure(message, currentBlockWasDropped) ==
  /\ IF writerFailure
     THEN UNCHANGED <<droppedBlockCount, queue, failureMessage>>
     ELSE /\ droppedBlockCount' = droppedBlockCount + Len(queue)
               + IF currentBlockWasDropped THEN 1 ELSE 0
          /\ queue' = <<>> /\ failureMessage' = message
  /\ writerFailure' = TRUE /\ accepting' = FALSE /\ closing' = TRUE
  /\ stopRequested' = TRUE
  /\ UNCHANGED <<samplesAccepted, samplesWritten, queueOverflowCount>>

\* The failed block goes out of scope as the loop is left.
RecordWriteFailure ==
  /\ writer = "writeFailed"
  /\ RecordWriterFailure("writing", TRUE)
  /\ block' = <<>> /\ writer' = "flush"
  /\ UNCHANGED <<stream, caller, history>>

FlushSucceeds ==
  /\ writer = "flush" /\ output = "good"
  /\ durable' = Len(file)
  /\ writer' = "exited"
  /\ UNCHANGED <<guarded, counts, stopRequested, block, output, file, caller,
                 history>>

\* A stream that is bad already stays bad.
FlushFails ==
  /\ writer = "flush"
  /\ output' = "bad"
  /\ durable' \in durable .. Len(file)
  /\ writer' = "flushFailed"
  /\ UNCHANGED <<guarded, counts, stopRequested, block, file, caller, history>>

RecordFlushFailure ==
  /\ writer = "flushFailed"
  /\ RecordWriterFailure("flushing", FALSE)
  /\ writer' = "exited"
  /\ UNCHANGED <<block, stream, caller, history>>

WriterLoop ==
  \/ Sleep \/ TakeBlock \/ Drained
  \/ WriteSucceeds \/ WriteFails \/ CountWritten \/ RecordWriteFailure
  \/ FlushSucceeds \/ FlushFails \/ RecordFlushFailure

-----------------------------------------------------------------------------
(* finish(), on the application thread.                                    *)

FinishClose ==
  /\ finisher = "idle" /\ finishes < MaxFinishes
  /\ accepting' = FALSE /\ closing' = TRUE
  /\ finisher' = "notify"
  /\ UNCHANGED <<queue, writerFailure, failureMessage, counts, stopRequested,
                 thread, stream, verdict, finishes, history>>

FinishNotify ==
  /\ finisher = "notify"
  /\ Notify
  /\ finisher' = "join"
  /\ UNCHANGED <<guarded, counts, stopRequested, block, stream, verdict,
                 finishes, history>>

\* A thread that never started, or was joined before, is not joinable.
FinishJoin ==
  /\ finisher = "join" /\ writer = "exited"
  /\ finisher' = "reset"
  /\ UNCHANGED <<guarded, counts, stopRequested, thread, stream, verdict,
                 finishes, history>>

\* Destroying the stream closes the file, which may still pass data on.
FinishReset ==
  /\ finisher = "reset"
  /\ output' = "null"
  /\ durable' \in IF output = "bad" THEN durable .. Len(file) ELSE {durable}
  /\ verdict' = IF writerFailure THEN "failed" ELSE "ok"
  /\ finishes' = finishes + 1 /\ finisher' = "idle"
  /\ UNCHANGED <<guarded, counts, stopRequested, thread, file, history>>

Finish == FinishNotify \/ FinishJoin \/ FinishReset

\* Every call has been made and has returned.
Done ==
  /\ finishes = MaxFinishes /\ ~MayOffer
  /\ UNCHANGED vars

Next ==
  \/ Enqueue \/ WriterLoop \/ SpuriousWakeup
  \/ FinishClose \/ Finish \/ Done

Spec == Init /\ [][Next]_vars

\* The writer thread and a call of finish() are scheduled, and the stream's
\* calls return; nobody has to call enqueue() or finish().
FairSpec == Spec /\ WF_vars(WriterLoop) /\ WF_vars(Finish)

-----------------------------------------------------------------------------
(* Properties.                                                             *)

\* The bool members and the caller's atomic<bool>.
FlagsOK ==
  /\ accepting \in BOOLEAN /\ closing \in BOOLEAN
  /\ writerFailure \in BOOLEAN /\ stopRequested \in BOOLEAN

\* The types, and the queue's limit: it never holds more than
\* maxQueuedBlocks_, and it overflows at most once (enqueue() closes it).
TypeOK ==
  /\ queue \in Seq(Blocks) /\ Len(queue) <= MaxQueuedBlocks
  /\ FlagsOK
  /\ failureMessage \in {"none", "unusable", "overflow", "writing", "flushing"}
  /\ samplesAccepted \in Nat /\ samplesWritten \in Nat
  /\ queueOverflowCount \in {0, 1} /\ droppedBlockCount \in Nat
  /\ output \in {"good", "bad", "null"}
  /\ writer \in {"test", "asleep", "write", "writeFailed", "count", "flush",
                 "flushFailed", "exited"}
  /\ block \in Seq(Blocks) /\ Len(block) <= 1
  /\ finisher \in {"idle", "notify", "join", "reset"}
  /\ verdict \in {"none", "ok", "failed"} /\ finishes \in Nat
  /\ accepted \in Seq(Blocks) /\ offered \in Nat /\ thrown \in Nat
  /\ file \in Seq(Blocks) /\ durable \in 0 .. Len(file)

\* The block that was taken from the queue and is not in the file.
InHand == IF writer \in {"write", "writeFailed"} THEN block ELSE <<>>

\* Blocks reach the file in the order in which enqueue() accepted them, none
\* missing and none twice, and until the writer fails each accepted block is
\* in the file, in the writer's hands or in the queue (README.md:230-231).
InOrder ==
  /\ Len(file) <= Len(accepted) /\ file = SubSeq(accepted, 1, Len(file))
  /\ ~writerFailure => accepted = file \o InHand \o queue

\* Every call of enqueue() that returned is accounted for exactly once: its
\* block is in the file, on its way there, or in droppedBlockCount_, whatever
\* failed in between and however often (README.md:232-234).
EveryOfferAccounted ==
  offered = Len(file) + Len(InHand) + Len(queue) + droppedBlockCount

\* size() / 2 added up over a sequence of blocks.
SamplesIn(blocks) ==
  LET sum[n \in 0 .. Len(blocks)] ==
        IF n = 0 THEN 0 ELSE sum[n - 1] + Samples[blocks[n]]
  IN sum[Len(blocks)]

\* The sample counts are those of the blocks: samplesWritten_ of the blocks in
\* the file, but for one the writer is about to count, and samplesAccepted_ of
\* the blocks accepted, provided that no allocation failed inside enqueue().
SamplesAgree ==
  /\ samplesWritten + (IF writer = "count" THEN SamplesIn(block) ELSE 0)
       = SamplesIn(file)
  /\ thrown = 0 => samplesAccepted = SamplesIn(accepted)

\* README.md:253 lists among the metadata "complex samples accepted and
\* written": samplesAccepted_ is the number of samples in accepted blocks.
AcceptedSamplesExact == samplesAccepted = SamplesIn(accepted)

\* finish() returns true only for a complete recording: every accepted block
\* was written, in order, and none is stuck in the stream's buffer.
OkMeansRecorded == verdict = "ok" => file = accepted /\ durable = Len(file)

\* The writer thread never sleeps on work: what it should be woken for is
\* either not there, or a notification is still to come from finish().
NoLostWakeup ==
  writer = "asleep" => queue = <<>> /\ (closing => finisher = "notify")

\* finish() destroys the stream only after the last use by the writer thread.
OutputOutlivesWriter == writer # "exited" => output # "null"

\* Once the writer has failed, the message, which runCapture() then prints
\* (rsp1b_capture.cpp:297-298), is that of its first failure: nothing was ever
\* accepted, a block could not be written, or all were and the flush failed.
\* A message of an overflow is lost then, as recordWriterFailure() asks only
\* for an earlier writer failure; queueOverflowCount_ still tells of it.
MessageNamesWriterFailure ==
  /\ writerFailure =>
       \/ failureMessage = "unusable" /\ accepted = <<>>
       \/ failureMessage = "writing" /\ Len(file) < Len(accepted)
       \/ failureMessage = "flushing" /\ file = accepted
  /\ failureMessage \in {"unusable", "writing", "flushing"} => writerFailure
  /\ failureMessage = "overflow" => queueOverflowCount = 1

\* Once finish() has returned, the recording and its counts are final: later
\* enqueue() calls only add to droppedBlockCount_, and later finish() calls,
\* the destructor's among them, give the same verdict.
FinalAfterFinish ==
  [][verdict # "none" =>
       /\ UNCHANGED <<queue, accepted, file, writerFailure, samplesAccepted,
                      samplesWritten, queueOverflowCount, verdict>>
       /\ droppedBlockCount' - droppedBlockCount = offered' - offered]_vars

\* A call of finish() returns, whatever the writer thread was doing.
FinishReturns == finisher = "notify" ~> finisher = "idle"

\* A queued block is taken care of even if nothing is enqueued or finished
\* after it: the notification of the last enqueue() is enough.
QueueDrains == queue # <<>> ~> queue = <<>>

\* The writer implements the promise of OrderedRecording.
Promise == INSTANCE OrderedRecording WITH
  log <- accepted, recording <- file, lost <- droppedBlockCount,
  open <- accepting, failed <- writerFailure

KeepsPromise == Promise!Spec
=============================================================================
