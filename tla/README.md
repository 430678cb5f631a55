# TLA+ verification of rsp1b-capture-tools

`rsp1b_capture` records IQ samples from an SDRplay RSP1B receiver into a file;
`rsp1b_probe` checks that a receiver streams. This directory holds a formal
model of the parts of these programs that are hard to test: threads, failing
calls, crashes, and the order in which things are given up.

## Inventory

| Component | State | Operations | Works with | Correct when |
|---|---|---|---|---|
| IQ writer (`iq_writer`) | queue, three flags, four counts, failure message, output stream, thread | `enqueue`, `finish`, writer thread, destructor | stream callback (producer), application thread (`finish`), `stopRequested` | accepted blocks are written in order, each offered block is accounted for once, `finish` returns and tells the truth |
| Receiver session (`rsp1b_device`) | what was obtained from the API service, receiver parameters | `connect`, `configure`, `initialise`, `stopStreaming`, `shutdown`, destructor | API service; both programs | everything obtained is given back once, in a legal order; Bias-T goes off before the stream ends |
| Event callback (`rsp1b_device`) | `EventState` atomics | one call per event, on the service's thread | session (acknowledgement), `stopRequested` | each overload event is acknowledged or counted; it runs only while the session can serve it |
| Stream callback (`rsp1b_capture`) | `CaptureStreamState` | one call per delivery, on the service's thread | IQ writer, `stopRequested` | a block that is not accepted ends the capture |
| Capture coordinator (`rsp1b_capture`) | locals of `runCapture` | startup, loop, stop, report | all of the above, signal flag | exit status 0 only for a complete recording with matching metadata |
| Output files and rollback (`output_file`) | files; `active_`, `backupPath_` | `checkOutputPath`, `preserve`, `commit`, `restore`, destructor | file system, coordinator | an earlier recording is not lost before its replacement is under way |
| Metadata (`metadata`) | none | companion name, rendering, `writeMetadataFile` | coordinator | written last, to a path of its own |
| Probe (`rsp1b_probe`) | atomic counters and ranges | callback, `runProbe` | session, signal flag | reports the range of the samples seen; the stream ends before the callbacks' objects do |
| Capture options (`capture_options`) | options understood so far | one pass over the arguments | coordinator | bad values are refused; a value is never taken for an option, nor the other way round |
| Signal flag (`signal_stop`) | one flag | one store by the handler, looks by both programs | coordinator, probe | a signal is noticed and reported |
| Timestamp (`timestamp`) | none | formats the time, may fail | options, coordinator | failure is reported |
| SDRplay API service | external | `sdrplay_api_*` | session, callbacks | assumed, see below |

What makes the behaviour hard: three threads meet in the writer, and a fourth
party (the signal handler) asks for the end; any call of the service, any write
and any file operation may fail, after which the rest of the clean-up goes on;
an overwritten recording must survive a process that dies at any moment.

## Modules

| Module | Models | Run or proof |
|---|---|---|
| `OrderedRecording` | what a writer promises, without threads or queues | refined by `IqWriter`, used by `Capture` |
| `IqWriter` | `class IqWriter` | `writer`, `writer_liveness`, `writer_allocation` |
| `MCIqWriter` | instance of `IqWriter` | the same |
| `IqWriterProofs` | theorems about `IqWriter` | TLAPS |
| `SdrplayApi` | the service, external | with `DeviceSession` |
| `DeviceSession` | `class DeviceSession` and `eventCallback` | `session` |
| `DeviceSessionProofs` | theorems about `DeviceSession` | TLAPS |
| `Capture` | `runCapture` and its stream callback, with session, writer and signal | `capture`, `capture_liveness`, `capture_drain` |
| `CaptureProofs` | theorems about `Capture` | TLAPS |
| `Probe` | `runProbe` and its stream callback, with session and signal | `probe` |
| `ProbeProofs` | theorems about `Probe` | TLAPS |
| `OutputFiles` | rollback, and the file operations of `runCapture` over several runs | `files` |
| `OutputFilesProofs` | theorems about `OutputFiles` | TLAPS |
| `OutputPaths` | `metadataPathFor`, `validateDistinctOutputPaths`, and the file operations of a capture that passes | `paths` |
| `MCOutputPaths` | instance of `OutputPaths` | `paths` |
| `OutputPathsProofs` | theorems about `OutputPaths` | TLAPS |
| `CaptureOptions` | `parseCaptureOptions` | `options` |
| `CaptureOptionsProofs` | theorems about `CaptureOptions` | TLAPS |

`Capture` and `Probe` extend `DeviceSession`, so a capture has the session's
variables and its operations are the session's actions. `Capture` has
`W == INSTANCE OrderedRecording`: of the writer it knows only what `IqWriter`
is shown to implement.

`OrderedRecording` is the abstract specification and has no operation of the
code to correspond to. In the others a variable is a member of the class
without its trailing underscore, or a local of the function, and an action is a
critical section, an API call, a file operation or the code between two of
these. Most modules have a section of faulty variants. They are not part of any
specification; substituting one for the operator of similar name shows that a
property is able to fail.

### IqWriter

All members but `output_` are guarded by `mutex_`, so a critical section is one
action. What happens outside the mutex is separate: the write, the flush, the
notification in `finish` (the one in `enqueue` is made under the lock), the
join. `Sleep` is the predicate of `wait` found false; `Notify` and
`SpuriousWakeup` send the thread back to test it. The stream may pass on what
it buffers at any call (`durable`), may fail in any write of a non-empty block
and in any flush, and stays bad. `push_back` and the assignment of the overflow
message may throw (`EnqueueThrows`, `EnqueueQueueFull(FALSE)`). `finish` may be
called several times by one thread, which is what the program and the
destructor do. `Init` covers the constructor's two refusals. Left out: the
branch for a block longer than a `streamsize`, which no vector can reach.

The `writer` run has a queue of two, three sizes of block (one of them empty),
four offers and two calls of `finish`: enough for an empty, part-filled and
full queue while a block is in the writer's hands, an overflow, offers after
it, and a second verdict. `KeepsPromise` is the refinement of
`OrderedRecording`: log, recording, losses and verdict of the abstract writer
are `accepted`, `file`, `droppedBlockCount` and `verdict` here.

`writer_liveness` uses a queue of one and assumes weak fairness of the writer
thread (`WriterLoop`) and of the thread inside `finish` (`Finish`): the
operating system schedules a thread that is not blocked, and a write returns.
Nothing obliges anybody to call `enqueue` or to start `finish`, and spurious
wakeups are not assumed to come. So `QueueDrains` says that the notification
sent by the last `enqueue` suffices, and `FinishReturns` that `finish` cannot
hang, also when the overflow path failed to notify.

`writer_allocation` is a disagreement between code and documentation:
`samplesAccepted_` is increased before `push_back`, so it counts a block whose
`push_back` threw. README.md:253 calls the number "complex samples accepted and written".
`SamplesAgree` in the `writer` run states what does hold.

`MessageNamesWriterFailure` is about the message that `runCapture` prints after
a writer failure. It is that of the first writer failure, not of whatever
happened first: `recordWriterFailure` asks only for an earlier writer failure,
so the message of an overflow is lost when a write or the flush fails after it.
The overflow is still told of by its count.

### DeviceSession

`at` is the API call the application thread makes next; every call may fail.
The service (`SdrplayApi`) records what it has granted, which calls ever failed
and which were made when it did not allow them. Assumed of it: a failed call
has no effect, and a successful Uninit returns only when no callback runs. The
client may call `configure`, `initialise`, `stopStreaming` and `shutdown` in any
order and number, and destroy the session between any two operations; it
connects once, starts no second stream beside a running one, and does not use
a session after `shutdown`. Both programs stay within this. Events arrive as
soon as the service streams, which is before `initialise` has noted that. The
calls of `configure` and `initialise` that are refused change nothing and have
no action. `MaxOverloads` is 2: one event can be answered while the next meets
the end of the session.

`NothingLeaked`, `CleanMeansIdle` and `OnlyLegalCalls` say that what was
obtained is given back, once and in order, however far startup came.
`BiasTOffFirst` is README.md:190-191. Its exception is real: the attempt is
noted before its result (`rsp1b_device.cpp:260`), so a failed request is not
repeated, but `CleanMeansIdle` shows that it is reported.
`CallbackInsideSession` holds only as long as Uninit has not failed; the code
releases the device all the same (`rsp1b_device.cpp:194`).

### OutputFiles

`files` maps each path to what is there: nothing, something that is not a
regular file, or a file with the run that wrote it. A run follows `runCapture`
from the path checks to its return, one action per change of the file system;
the receiver and the writer contribute outcomes. Each file operation may fail,
`Throw` is an exception that unwinds the stack (session, then writer, then
rollback), and `Crash` ends the process anywhere. Left out: the directory that
is created. The comparison of the two paths, which only refuses, is in
`OutputPaths`. Runs do not overlap, as README.md:171-175 requires of the
operator.

Three runs and two backup names are the smallest instance in which a crash
leaves a backup, a second one leaves another, and a third run finds no free
name; `kMaximumBackupSuffix` is 1000 in the code.

`NothingLost` is the promise behind `--force`: a recording found at the start
exists, under its path or a backup name, until the receiver has been
initialised and the backup is given up. `LeavesNoTrace` says what a run that
gives up earlier leaves: the files as it found them, unless putting them back
failed as well. The one trace of an exception is a new file where there was
none. `SuccessIsComplete`, `WriterOwnsPath` and `OnlyAuthorizedChanges` relate
exit status, metadata, open stream and `--force` to the files. A run that
crashes after its commit leaves an older companion file beside the new
recording; nothing is promised about that, and nothing is stated.

### Capture

`step` is the place of the application thread in `runCapture`, from `connect`
to `exited`; while a session operation is under way (`at` is not `"client"`)
it does not move. An action of the application thread is one call and the test
of its result. Beside it run

- the stream callback: `StreamCallback` is its entry, which reads the pointer
  to the writer and counts a block as delivered; `Enqueue` is the rest of it,
  with the writer accepting, refusing or running out of memory;
- the event callback and the API calls of the session, unchanged;
- the writer, in its abstract form: `WriterRecords` and `WriterFails`;
- the signal. One that arrives after the last look is left out: nothing reads
  the flag any more.

`Throw` is an exception where strings are built or printed between two calls.
`Leave` and `DestroyObjects` destroy the locals in the order of the language:
the session, then `callbackContext`, `capture` and `events`, then the writer,
whose destructor calls `finish`. `crashed` is the null pointer that
`streamCallback` would follow if `capture.writer` were reset between its two
reads (`EnqueueNull`); no state reaches it unless Uninit has failed. What a
callback does with objects that are gone is undefined behaviour and ends the
model's description of it.

A block has the number of its delivery, so order and completeness are one
equation. The capture's duration is not modelled: it may be over at any time.

The `capture` run has two blocks, one overload event and up to two functions of
the API that fail; `DeviceSession.cfg` lets every call fail. Two blocks are
needed for one that is recorded while the next is lost, and for an order; two
failures for a failed Uninit followed by another failed call. `ExitTellsTheTruth`
is the program's promise to the script that calls it. `InterruptionReported`
and `StatisticsFinal` are about who still runs when the flags are read.
`CallbackFindsItsObjects` and `StopFlagOutlivesWriter` are about lifetimes: the
first has the exception of a failed Uninit, the second that of an exception
that leaves `runCapture` before `finish` (`rsp1b_capture.cpp:163`: the flag the
writer was given lies in `events`, which is destroyed before the writer).
`LossIsTold` is about the one refusal that no statistic counts:
`EnqueueResult::closed`, which a callback would get that outlives `finish`.
None does, because every way to `finish` (the end of a capture, a failed
commit, an exception) has the stream stopped before; with the writer drained
before the receiver is stopped, as README.md:198-200 has it, blocks would
be lost in silence.

`capture_liveness` assumes weak fairness of the application thread
(`Application`: the loop polls every 25 ms, and calls of the service return),
of the writer thread, and of callbacks that are under way (`Enqueue`, and
`AnswerOverload`, the rest of an event callback that has begun to answer).
Nothing obliges the service to deliver a block or an event, a removal included,
nor the duration to end, so `StopEndsCapture` says that a request to stop, or a
signal alone, suffices. A loop that did not look at the signal would go on for
ever behind a silent receiver. One block, one event and one failing function
are enough: each can make the request.

`capture_drain` is a disagreement between code and documentation:
README.md:198-200 has the writer drained and closed, and the metadata written,
before the receiver is released; the code shuts the session down first
(`rsp1b_capture.cpp:252-258`) and writes the metadata at the end (line 327).
The code's order is the one the other properties need: only after Uninit is no
callback left that could enqueue.

### Probe

`step`, `Go` and the session are as in `Capture`. The stream callback updates
its atomics one after the other, so `UpdateMinimum` and `UpdateMaximum` are
actions of their own. The objects the callbacks use are declared after the
session and destroyed before it; `ObjectsOutliveStream` says that this does no
harm, because no path from `initialise` to the end misses the two calls that
end the stream. `ProbeTellsTheTruth` says what exit status zero means. It does
not mean that every callback had valid input: such input
(`rsp1b_probe.cpp`, `streamCallback`) ends the stream early, and no flag says
so. Two samples that may be equal, one event and up to two failing functions
are enough for every order of the updates and for a partial clean-up. Exit status
zero does not mean that there were samples, either: `runProbe` prints that none
came and succeeds.

### OutputPaths

A name is the sequence of its parts between dots, which may be empty (a leading
or a final dot); both paths lie in one directory, which is left out. Two
switches are independent: whether the program was compiled to compare names
without case (`comparesFolded`), and whether the file system ignores case
(`foldsCase`). `entries` gives each name the number of a file, so that names
may be absent, apart or hard links, and `contents` says what each file holds.
A capture goes through the checks, sets an earlier recording aside, opens its
own and writes the metadata, each operation as the code does it: a name is
truncated, or created, whatever file is behind it. Here these operations
succeed; `OutputFiles` has their failures.

`RecordingKeptApart` is the reason for the checks, stated of the files and not
of the checks: no step turns a file that holds IQ data into one that holds
metadata, neither the new recording nor an earlier one that is on its way out.
It fails when `metadataPathFor` misses an upper-case extension, on a file system
that ignores case under a program that does not, and when hard links are not
compared. `OnlyHardLinksRefused` is the converse: a companion name never equals
the name of its recording, so nobody is refused for a name, nor at the end of a
capture for a file that the capture itself wrote. The `paths` run has the names
that `metadataPathFor` tells apart: without an extension, with one that is
replaced, with `.txt` in either case, once and twice, and with empty parts.
Two files beside the capture's own suffice for two names.

### CaptureOptions

One action per iteration of the loop in `parseCaptureOptions`, and a reference
definition without a loop: which arguments stand where an option is read, and
the last value of each. `AcceptedAsWritten` says that the two agree. A number
is one of the classes the parser tells apart. Five arguments allow two options
with a value and a third one, hence every confusion of a value with an option
and a repeated option; longer lines repeat these.

## Proofs

Every theorem is about all values of the constants. The assumptions are those
named in the modules: sizes, limits and bounds are natural numbers, a sample
fits into 16 bits, and a file name has a part that is not empty. Each
safety property of a run that must pass is a theorem.

`IqWriterProofs` proves all safety properties of `IqWriter` and the refinement.
The properties are not inductive. That `finish` does not destroy the stream
early (`OutputOutlivesWriter`), for example, needs that the thread in `finish`
passes the join only after the writer has exited; that a favourable verdict
means a complete file needs that a writer about to flush has an empty queue and
a good stream or a recorded failure. `IInv` adds this: `Control` relates the
writer's place in its loop to flags, queue and the block in hand; `StreamState`
relates it to the stream; and `Verdict` says what an earlier verdict implies.
`Invariance` is the result, with one lemma per group of actions.
`FinishIsFinal` and `Implementation` are step properties and use `IInv` in both
states of a step; the latter maps each action to a step of `OrderedRecording`
or to a stutter.

`SamplesCounted` is the equation between the sample counts and the blocks. Its
sum is a recursive function over a sequence, and the prover has no induction
for it. The lemmas use least counterexamples instead: if some prefix had no
sum, or two sequences with equal blocks had different sums, there would be a
shortest such prefix, which the step of the definition refutes.
`WriterWindsDown` is what `FinishReturns` rests on apart from fairness.
`Remaining` counts the steps the writer thread has before it; once the writer
is closing, each of its steps lowers it and no other step raises it, and a
`finish` that has come to the join never waits for a sleeping thread.

`DeviceSessionProofs` proves all properties of the `session` run, for any
number of events. They are not inductive because the session's flags and the
service's state differ whenever a call has failed or is not noted yet.
`SessionInv` says by how much: `Obtaining` and `GivingBack` say which flags are
set at which call of `connect` and `shutdown`; `Noted`, that what the session
believes to hold it holds; `Owed`, that what it holds without believing so is
what a failed call refused to take back, and that this failure has been or will
be reported (`Blemished`); `Power` says the same of the antenna supply.

`OutputFilesProofs` proves all properties of the `files` run, for any number of
runs and backup names. `FilesInv` says for each place in `runCapture` what has
become of the files the run found: nothing (`Untouched`), a new file where
there was none (`NewOnly`), the original under a backup name (`SetAside`), or
the replacement (`Replaced`). `Runs` orders files by the run that wrote them,
without which a run could take its own file for an earlier one. That the search
for a backup name finds a free one rests on the well-foundedness of the natural
numbers (`FreeSuffixIsFree`).

`CaptureProofs` proves all safety properties of the `capture` run, for any
number of blocks and events and with every call failing. The lemma
`Composition` comes first: each step of a capture is a step, or none, of the
session and of the writer. That says nothing of `runCapture`, as the steps are
built from the components' actions; it is what carries `SessionInv` over to a
capture (`SessionInCapture`), so that it need not be proved again. `CaptureInv` adds what the two do not know of each other: `Where` relates
the place in `runCapture` to the session's life, `Stopped` says where nothing
streams, `Writer` where the writer exists and has no verdict, `InCallback` that
a block under way has its objects, `Signal` that a signal will be noted,
`Complete` that the log has every block delivered or a flag tells, and `Success`
what is known once success is noted. The other theorems follow from these;
`LossHasCause` adds that failures are never forgotten and that, by `InCallback`
and `Writer`, no block under way meets a closed writer while Uninit has not
failed.

Two more are what a return of `runCapture` rests on apart from fairness.
`CaptureRunsOut`: a measure of places and calls still to come falls at each
step of the application thread and at an exception, and no callback, signal or
writer step raises it. So no path goes round in clean-up, whichever calls fail.
`WaitsAreAnswered`: what the thread waits for can happen. At the join the
writer was told to end, and has recorded everything, or has failed, or has a
block to record; inside Uninit a callback under way has its objects.

`ProbeProofs` goes the same way, with the lemma `ProbeUsesSession` to carry
`SessionInv` over. `ProbeInv` relates the
place in `runProbe` to the session (`Located`, `Framed`) and says that a sample
on its way has its objects and the stream (`SampleInStream`). It takes the
lemmas `Progress` and `OperationsProgress` of `DeviceSessionProofs`: an
operation of the session reaches its return only through the calls in its
list. `Measured` counts how many samples each extremum has been compared with,
which differs while a callback is between its two updates (`Lowered`,
`Raised`); that the two agree when the statistics are printed follows because
Uninit waits for the callback. `Printed` and `Judged` carry this to the exit
status, for any samples and any number of them.

`OutputPathsProofs` compares a name with its companion part by part:
`CompanionDiffers` says that they differ after folding, for names with any
number of dots, by their length or their last part. `PathsInv` follows the files
from there: until the capture begins, IQ data is behind the recording's name
only (`Earlier`); once accepted, it is never behind the companion's, and what
`--force` had to authorize needs no more by the time it is looked at again
(`Checked`). `KeptApart` reads this in each step that writes.

`CaptureOptionsProofs` is about command lines of any length. `ReadAsOption` is
a recursive function, so the lemmas first show that it exists (`ReadingExists`,
by a least counterexample) and how it goes on behind an option with and without
a value (`PlaceAfter`). `ParserInv` says that the loop stands at a place where
an option is read, that everything before it was acceptable, and that each
field holds the last value of its option so far (`IsLast`).

TLC checked each inductive invariant on the instance of its run before it was
proved.

Only model-checked: liveness (`FinishReturns`, `QueueDrains`,
`StopEndsCapture`), which needs fairness and ENABLED, beyond the part that
`WriterWindsDown`, `CaptureRunsOut` and `WaitsAreAnswered` state without them.
The two runs that find a violation have nothing to prove.

## Plan

Done, in the order of importance: the writer with its abstract specification
and proofs, the session with its events, the files of several runs; then the
capture composed of session and writer, the probe, options and paths, and the
proofs about each of them. What is left:

1. A refinement that joins `Capture` and `OutputFiles`, whose places in
   `runCapture` are the same, so that exit status zero speaks of receiver and
   files together.

## Not modelled

- Formatting and text: `renderMetadata`, `captureUsage`, diagnostics, the
  counts of callbacks and resets, which are only printed.
- `timestamp`, which wraps the C library; that it may fail is a choice in
  `CaptureOptions` and `Capture`.
- Installing the signal handlers, which fails before anything is opened.
- The expected number of samples (`rsp1b_capture.cpp:35`): it saturates by one
  comparison of long doubles, which has no counterpart here, and is only
  printed.
- The parsing of decimal numbers by the standard library.
- What a callback does with destroyed objects after a failed Uninit: undefined.
- Exceptions inside session operations, none of which allocates memory.
- Other programs at work on the same paths, which README.md:171-174 leaves to
  the operator.
- The receiver's tuning parameters, except for Bias-T, and its own behaviour.

## Running

    tlc -config MCIqWriter.cfg MCIqWriter.tla
    tlc -config MCIqWriterLive.cfg MCIqWriter.tla
    tlc -config MCIqWriterAlloc.cfg MCIqWriter.tla     # finds a violation
    tlc -config DeviceSession.cfg DeviceSession.tla
    tlc -config OutputFiles.cfg OutputFiles.tla
    tlc -config Capture.cfg Capture.tla
    tlc -config CaptureLive.cfg Capture.tla
    tlc -config CaptureDrain.cfg Capture.tla           # finds a violation
    tlc -config Probe.cfg Probe.tla
    tlc -config OutputPaths.cfg MCOutputPaths.tla
    tlc -config CaptureOptions.cfg CaptureOptions.tla
    tlapm IqWriterProofs.tla
    tlapm DeviceSessionProofs.tla
    tlapm OutputFilesProofs.tla
    tlapm CaptureProofs.tla
    tlapm ProbeProofs.tla
    tlapm OutputPathsProofs.tla
    tlapm CaptureOptionsProofs.tla
