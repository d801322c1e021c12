# llm-to-voice: a TLA+ model of the voice pipeline

`llmvoice` streams the answer of a language model as text and as speech. A
submit starts up to three worker threads, LLM -> segmenter -> TTS, which hand
text to each other through bounded queues and audio through a ring buffer; the
caller polls text and audio, asks whether the session is done, and may cancel
at any time. This directory holds a model of that program: TLA+ modules, TLC
configurations that check them on small instances, and TLAPS proofs for all
values of the constants. Paths below are relative to `src/cpp/src/`.

## The system

| Component | State | Operations | Where |
|---|---|---|---|
| C API and session | the handle, the thread-local error; per session four queues, the ring, the worker count, the first error, the text remainder, the pending segment, three threads | Create, Destroy, Warmup, the LLM context and two voice contexts, SetSegmenterConfig, three submits, Cancel, PollText, PollPcm, IsDone, LastError | `llmvoice.cpp` |
| Blocking queue | a deque, a mutex, two condition variables, a closed flag | push, pop, tryPop, close | `threading/BlockingQueue.hpp` |
| Ring buffer | slots, two atomic positions | write, read, available, totals, clear | `threading/SpscRingBuffer.hpp` |
| LLM backend | chat history, what the KV cache is believed to hold, whether that is known, a cancel flag, a mutex | createFreshContext, warmup, synthesizeToQueue, cancel | `llm/Qwen3Backend.cpp` |
| TTS backend | sample, transcript, seed and instruction of a voice; a cancel flag | createBaseContext, createVoiceDesignContext, warmup, synthesizeToBuffer, cancel | `tts/Qwen3TtsBackend.cpp` |
| Segmenter and tags | bytes, characters, text and sentences not yet given out; inside a think block; scan position | segment, stripTags | `segmenter/*.hpp` |
| Command-line client | where `main` is, the audio device, samples written | pipeline, llm-only, voice-design; the audio callback | `main.cpp` |
| Benchmark, helpers, miniaudio | no state that others depend on | | `benchmark/`, `helpers/`, `audio/` |

They interact by calls (API -> backends), by shared state (queues, ring, atomic
flags and counters between the caller's threads and the workers) and by one
callback (the TTS engine calls `on_chunk`, which writes to the ring and reads
the cancel flag). What is hard: every decision of the caller reads several
pieces of state while three or four threads change them; a stage may fail while
the ones before it are blocked; a cancel must reach workers wherever they wait
but never the next session; text has to be held until its audio is played; the
KV cache has to be right after any failure. `PROJECT.json` lists each of these
hazards at its line with the properties that cover it, or the reason why none
does yet.

## Modules

| Module | Models | Role |
|---|---|---|
| `QueueOps` | the queue as one atomic step per operation | used by `Session`, `BoundedQueue`, `BlockingQueue` |
| `Session` | a session, its workers, its client | the core |
| `MCSession` | | sets of calls for the runs |
| `SessionProofs` | | theorems about `Session`: types, worker count, outcome, cancel flags, text, text against audio |
| `Contexts` | the calls outside a session: warmup, LLM and voice contexts | composes `Session` with the state of both backends |
| `MCContexts` | | voices of the run |
| `ContextsProofs` | | theorems about `Contexts` |
| `Client` | `main` and its audio callback | composes `Session` with the program that uses it |
| `ClientProofs` | | theorems about `Client` |
| `BoundedQueue` | what the queue promises | abstract |
| `BlockingQueue` | mutex, condition variables, notifications | implements `BoundedQueue` |
| `MCBlockingQueue` | | threads of the run |
| `BlockingQueueProofs` | | theorems about `BlockingQueue` |
| `AudioStream` | what the ring promises | abstract |
| `SpscRingBuffer` | slots, positions, visibility | implements `AudioStream` |
| `SpscRingBufferProofs` | | theorems about `SpscRingBuffer` |
| `Tags` | tags in a text, and the text without them | used by `Segmenter` |
| `Segmenter` | what the segmenter does with bytes, characters, text and sentences | a component of its own |
| `MCSegmenter` | | pieces of the run |
| `SegmenterProofs` | | theorems about `Segmenter`: types, buffers, single segments, independence of the cut |
| `SegmenterTextProofs` | | theorems about `Segmenter`: words and tags of all segments |
| `Qwen3Backend` | chat history against KV cache | a component of its own |
| `MCQwen3Backend` | | the tokenizer of the run |
| `Qwen3BackendProofs` | | theorems about `Qwen3Backend` |

The two data structures are abstracted in `Session` (a queue operation or a
block of audio is one step) and justified by refinement in the modules that
model them. `Qwen3Backend` is apart because its state is guarded by a mutex for
a whole call and meets the session only through the token queue and the cancel
flag, both of which `Session` has; the mutex itself is in `Contexts`.
`Segmenter` is apart because its buffers belong to one thread; `Session` has its
queues, its failures and its stops.

### Session

One step of a worker is one operation on state shared with another thread: a
push, a pop, a write to the ring, closing a queue, setting a flag, recording
the error, decrementing the count. `pc[w]` says where worker `w` is. A call of
the client is cut at each of its accesses to shared state: IsDone and a submit
look at the worker count, the text buffers and the ring one after the other
(`LookWorkers`, `LookText`, `LookPcm`); PollText takes a segment, takes its
start position, compares, looks at the workers, looks at the ring
(`TakeText` .. `CheckPcm`); Cancel sets two flags and closes four queues in six
steps and then joins. `LookText` reads three things in one step: two of them
belong to the client thread. The audio is polled by an action that is enabled
between any two steps of IsDone or PollText, as the callback of `main.cpp`
does; it is not while a submit, Cancel or Destroy replaces the session, which
the API does not allow.

Data is reduced to what the properties tell apart. A token or a segment is its
number; text is its length in bytes (`PieceLen` each; the space between
segments is part of it); audio frames are counted. The segmenter turns a token
into any number of segments, as any text might. The LLM stops anywhere. A
segment has any number of frames up to `MaxFrames`, or none (a tag, an empty
synthesis). A synthesis that is cancelled ends as a success or as a failure,
since that is up to the external engine. Failures are bounded by `MayFail`,
which includes the creation of a thread. `stop` counts how far a thread is in
the sequence `StopSteps` of what it halts. `shown`, `given` and `speech` are
history: what the client got, and where the audio of a segment began.

The memory order of the worker count matters: a worker decrements it with
release and the client loads it with acquire, so the client that sees 0 sees
all that workers wrote before. The model has interleaving semantics for these
atomics, which is what the pairing provides.

### Contexts

`Contexts` adds to `Session` what the calls outside a session change in the
backends. `owner` is the mutex of the LLM backend: the worker takes it when
`synthesizeToQueue` begins and gives it back when that returns, and
createFreshContext and warmup take it on the client's thread. `voice` has one
entry per member of the TTS backend that a synthesis is given, and says to
which voice its value belongs; a voice context that fails half-way leaves some
of them changed. A context call is cut where it takes the mutex, where it can
fail, and between its two backends (`llmvoiceWarmup` warms up one, then the
other). A worker uses the voice and the TTS engine without a lock, so the
question is whether the client can touch them meanwhile.

The client is the one of `llmvoice.h`: it makes these calls before it submits,
that is without a session or once IsDone said true, and submits speech only if
the last voice context succeeded. SetSegmenterConfig only sets what the next
submit copies; `Segmenter` takes any configuration at each call of `segment`.

### Client

`Client` is `main.cpp` from `llmvoiceCreate` to its return: `at` is where
`main` is, and each call of the API is the action of `Session`, with all its
steps. The audio callback is a process of its own while the device runs, so it
polls between any two steps of `main`, of IsDone and of PollText. `main`
catches nothing: where it throws, the process is gone (`Throws`), with workers
and session. `failed` is history, since the session with its error is destroyed
before the exit code is decided. The commands are the four `Modes`; llm-only
has two.

`ImplementsSession` shows that every step of the program except its sudden end
is one that `Session` allows, so that what is shown of `Session` with any
client holds of this one. `Delivered` says what the loop of `main` is for: it
is left only when everything the session had was printed, and played or saved.
`Ends` says that it is left at all, `Silent` when it may not be.

### BlockingQueue

A critical section is one step, because nothing reads or writes the queue
without the mutex. Waiting, waking up, and notifying after the unlock are steps
of their own, a notification wakes any one waiter, and a wait may end without
one. `close` notifies consumers and producers separately.

### SpscRingBuffer

The copy of a block is one step per item, so both threads can be anywhere in
their blocks. A load of the other side's position may return any value between
the last one seen and the newest (`readSeen`, `writeSeen`), and seeing a value
means seeing the items copied before it was stored. Positions are kept
unbounded in the state so that properties can speak of items, but every
comparison the code makes goes through a word of `WordBits` bits.

### Qwen3Backend

Tokens are model values: one per role, one per prompt, `"end"` per message, and
the tokenizer applied to the pieces of a reply. `ctx.kv` is what the context
really holds, `ctx.committed` what the backend believes, `ctx.logits` the
tokens after which the scores were computed that the next sample uses. A decode
may fail after any part of its tokens; removing cached tokens may be refused;
formatting or tokenizing may throw. Positions and batches of one decode are not
told apart. The `todo` of a call that decodes nothing keeps the old scores,
which is why `SameCount` leaves one token.

### Segmenter and Tags

One piece of model output is one action, as in the loop of `segment`: bytes
join `_bytes`, whole characters move to `_utf8`, what is shown to `_text`,
sentences to `_pending`, segments out. `End` is the flush. A call of `segment`
resets everything first. The output queue accepts all: if its consumer closes
it, the segmenter stops between two pushes, which is in `Session`, and what
came out before is what comes out here.

A byte is a symbol. `"C3"` and `"E2"` lead two and three bytes, `"80"`, `"98"`
and `"A6"` continue, which makes an emoji (`E2 98 ..`), the ellipsis (`E2 80
A6`) and characters that end in its last byte; the other symbols are bytes of
their own. Leads of four bytes, other ranges of emoji, and other punctuation
take the same paths and are left out. The letters of the think markers are
shortened, so lengths count symbols.

The properties do not use the buffers. `Text`, `Shown` and `Words` say of a
whole input what a reader of it would: the well-formed characters, those
outside think blocks, the words. `TextKept` compares the words of the segments
with them, and `ChunkIndependent` compares every state with the one after a
single piece, which is where split markers and the kept scan position matter.

`Tags` has `withoutTrailingTags`, which decides whether a sentence that ends
with a tag still lacks its period, and `stripTags` with `hasSpeakableText`,
which the pipeline applies to a segment before it is spoken (`Speech`).
`TagsWhole` says that the tags of the segments are those of the text, whole and
in order, `SpeechIsRest` that what is spoken of a segment is what is left of
it, without its tags and the gaps they leave.

## Runs

| Run | Question | States | Bounds |
|---|---|---|---|
| `SessionText` | is LLM text complete and in order, whatever is called and fails? | 783 k | queue 1, 3 tokens, 2 segments, 2-byte pieces, 0..3-byte polls |
| `SessionPipeline` | is text never ahead of its audio, and IsDone final? | 590 k | queue 1, ring 2, 3 segments, 2 frames each |
| `SessionFaults` | is the worker count right, is the outcome reported, does a context call wait, is the voice the one asked for? | 2.4 M | 2 segments, two voices (symmetric), both TTS modes; every stage, thread creation, context call and warmup may fail; cancels |
| `SessionStops` | do Cancel and a failed submit return, though nobody polls, and does a failure stop the stages before it? | 223 k | queue 1, 3 tokens, 2 segments |
| `SessionCompletes` | does a polled session end? | 27 k | queue 1, 2 segments |
| `SessionSilence` | the same with one more segment: it need not | | queue 1, 3 segments |
| `Client` | does the program end, with all output, tell the truth by its exit code, and use the API as it must? | 434 k | queue 1, 4 tokens, 3 segments, one frame each, all commands, three places to throw |
| `BlockingQueue` | is no wakeup lost, is it the atomic queue? | 81 k | capacity 2, two producers, two consumers, poller, closer |
| `SpscRingBuffer` | is there no race, is it the stream? | 138 k | 4 slots, positions wrap at 8, 13 items, blocks of up to 5 |
| `Segmenter` | do segments keep the text and its tags, however it is cut? | 339 k | 5 pieces out of sets of 6 to 8, two configurations |
| `SegmenterTail` | is no byte lost behind a broken lead? some are | | 3 pieces |
| `Qwen3Backend` | does the model see the chat? | 400 k | 3 turns, budget 14, 2 tokens per reply, 2 prompts |

Why the bounds suffice. A queue of one item is full and empty in turn, so every
stage meets both with two or three items; two producers and two consumers are
the least for a notification to reach the wrong thread. A poll of 0 to 3 bytes
of pieces of 2 covers nothing, part of a piece, a piece and one and a half. The
ring wraps its slots three times and its word once, with blocks that are empty,
partial, full and larger than the buffer. The budget of 14 tokens makes the
third turn drop the first, and the tokenizer that merges two pieces makes the
cached reply differ from its next tokenization. A session may follow any number
of others: runs of `Session` are cyclic, only the counters inside one session
are bounded. Five pieces hold two characters and half of a third, a think block
that is opened, left open or opened again, and two sentences that are joined;
every rule of the sentence scan looks at most at four symbols; a tag may come
cut in two. Two voices are the least that can be mixed.

`Client` has `QueueCapa + 2` segments, so the stall of `SessionSilence` happens
in it, and so many tokens that the LLM meets a full queue behind a TTS stage
that failed: `Ends` does not hold for want of segments. It says that the
program ends, or is for good in exactly that stall (`Silent`), and then `main`
still asks and polls for ever. With at most `QueueCapa + 1` segments there is
no stall, so the program ends. `SessionStops` covers Destroy, too, which takes
the steps of Cancel; that it returns is part of `Ends`. The failures of
`Client` leave out the segmenter's, which `SessionFaults` and `SessionStops`
have. `Client` has no deadlock check because the program ends.

### The properties that are violated

`SessionSilence` documents a disagreement of code and documentation.
`llmvoice.h:67` and `README.md:97` say that TTS stalls if the text is not read.
It can also stall though both outputs are polled for ever. PollText holds the
text of a segment until audio after its start was polled, or until no worker
runs. A run of `QueueCapa + 1` segments without audio (tags only, or an empty
synthesis) leaves one segment pending and `QueueCapa` in the output queue, and
at the next segment, whatever it is, the TTS worker is blocked on the queue of
start positions: no audio can come, the worker cannot end, and nothing is
released. With the capacity of 64 this takes 65 segments without audio in a row
and one more behind them. `SessionCompletes` shows that a session of no more
than `QueueCapa + 1` segments always ends.

`SegmenterTail` shows a loss at the end of an input. The segmenter drops a lead
byte without its continuations and goes on with the next byte
(`segmenter/Segmenter.hpp:118`), but it looks at a lead only once as many bytes
have come as it asks for. If the input ends before, `flush` (line 405) drops
the lead and the valid bytes behind it: `E2 a` loses the `a`, while `E2 a a`
keeps both. `TextKept` holds for inputs without their part behind such a lead.

## Fairness

`Spec` has none: all safety runs hold for any scheduling. `LiveSpec` is weakly
fair to each worker and to a call in progress: threads that can run do.
Whenever a worker waits it is in a queue, where module `BlockingQueue` shows
that who can go on does, or it sleeps and retries for room in the ring.
`PollingSpec` adds a client that keeps asking IsDone, polling text with room
for it, and polling audio if there is some, as the loop at `main.cpp:277` and
the callback do; these actions are enabled only between other calls, hence
strong fairness. `LiveProgram` is weakly fair to `main`, to the audio callback
and to each worker, threads that the operating system runs, and needs no
assumption on the calls: the loop of `main` makes them. Nothing is assumed
about failures, cancels, exceptions or the number of tokens. `BlockingQueue` is
weakly fair to each thread that is not waiting; it assumes no spurious wakeup
and no further call.

## What is proved

TLAPS checks the following for every value of the constants.

* `TypeCorrect`: `Spec => []TypeOK` for `Session`. The types are not inductive
  alone: a submit starts the head of `starting` and makes a session in mode
  `call`, so `Phases` ties the place in a call to the call and to the
  workers still to be started.
* `Quiet`: `WorkersCounted` and `QuietOnceSeen`. The count is right only if a
  worker is off when it is started (`StillOff`), and a first submit looks at no
  count at all, so no worker may run without a session. From the count, a client
  that reads 0 knows that all are off, and only a submit turns one on.
* `Outcome`: `OutcomeReported`. `OutcomeInv` follows a failure from the throw
  through the catch blocks to the error: a worker that threw and is off has
  recorded one, and what is recorded names a worker that threw. With `Quiet`,
  the client that saw no worker reads the final error.
* `Drained`: `DoneMeansDrained`. `DrainInv` says what each look has established
  and, with `Quiet`, that nobody undoes it.
* `NoStray`: `NoStrayCancel`. A flag is raised by a stage that throws or by a
  call that is going to stop the session; `CancelInv` remembers in the call and
  in `threw` which of the two it was, and a submit lowers the flags before it
  starts a worker.
* `InOrder`: `TextInOrder`. What was shown, what is pending, and the contents of
  the queues and of the hands of the workers between them are consecutive
  numbers (`ChainInv`, with one `Consecutive` per queue). The chain breaks
  behind a closed queue, and the lemmas say which those are: a worker closes its
  output at its end (`ClosingInv`), a stage that failed closes the queues before
  it, and the client those it stops, in the order of `StopSteps` (`StopInv`).
  `StaffInv` says which workers a mode has, `CopyInv` that no remainder is
  overwritten.
* `Complete`: `NothingLost`. With `Drained`, the end of the chain is reached;
  `FinishInv` says that TTS, unless it failed, has taken all that was produced
  when it ends.
* `AudioFirst`: `TextNotBeforeAudio`. Each segment on its way to the client has
  the position where its audio starts beside it in a second queue; `Starts`
  pairs the two, through the two pushes of TTS and the two pops of PollText, and
  `StartsAt` says what such a position knows: where the audio starts, or that
  there is none yet.
* `Unhindered`: `NeverWaits` of `Contexts`. `Secluded` says that from the begin
  of a context call to the next other call no worker lives, which `Quiet`
  provides where it begins, and that the worker which holds the mutex lives: it
  gives it back before it takes its next step.
* `OneVoice`: `VoiceAsAsked`. `VoiceInv` says that all that makes up the voice is
  `wanted` once a voice context succeeded, that between its two steps the sample
  is already the new one, and that speech is submitted only then.
* `DeviceSafe`, `ExitCode`, `UsesSession`: `DeviceHasSession`, `ExitTruth` and
  `ImplementsSession` of `Client`. `ClientInv` carries the invariants of
  `Session` along and adds where `main` is against the call it is in
  (`Coherent`, `MainInv`), which stages have failed against what is recorded
  (`FailedInv`), and that no more audio is read than was written, without which
  the block of the callback might be negative.
* `AllDelivered`: `Delivered` of `Client`. `ClientInv` ties the end of the loop to
  an IsDone that said true and the stages that failed at any time to those of
  this session; every step of the program is one of `Session` or its sudden end
  (`ThrowsText`), so the invariants behind `Complete` and `Drained` hold of it,
  the audio callback beside `main` included.
* `QueueTypeCorrect`, `PromiseKept`, `Wakeups` of `BlockingQueue`: the queue
  stays within its capacity; each step of the class is one of `BoundedQueue` or
  none (the part of `Implements` without fairness); and `NoLostWakeup`. The last
  is an argument by counting threads on their way: `Covers` lists the ways a
  step may change how many are needed and which there are, and `StillEnough`
  says that there are still enough after each. It uses cardinalities of finite
  sets.
* `RingTypeCorrect`, `Disjoint`, `RingIsStream` of `SpscRingBuffer`: `TypeOK`,
  `NoRace` and the refinement of `AudioStream`. `Claims` bounds what each side
  may still see of the other's position: even from the oldest such value, the
  slots it claims end where the other's begin. `Contents` says what is in the
  slots. The lemmas are about remainders: a position and its value in a word
  have the same slot, and positions less than a buffer apart have different
  ones. All three assume `Rounded`: the number of slots is less than the range
  of a word and divides it. That `std::bit_ceil` provides this is arithmetic of
  powers of two, which takes an induction on the exponent; TLC evaluates `Size`
  in the run, and without the rounding it finds the refinement violated.
* `KnownContext`: `Spec => []KvIsCommitted` for `Qwen3Backend`, for any
  tokenizer. The invariant is carried by every operation on a context: cutting
  makes it known, decoding extends both sides, failing forgets.
* `Turns`, `Faithful`, `BackendTypeOK`: `TurnsPaired`, `ModelSeesChat` and
  `TypeOK` of `Qwen3Backend`. `ChatInv` says that the history is the system
  prompt with turns behind it and that its parity tells whether a call is in its
  loop; dropping turns keeps the parity, because the loop goes on only while
  four messages are left (`DropsIs`, `DroppedLength`). `HeldInv` says that the
  context holds the chat: what is kept of it is the common beginning of what it
  holds and what it should hold, and never all of that, so that the scores come
  after the last token (`KeptIs`, `ToDoIs`). `ModelSeesChat` needs
  `TokenizerAssumption`: whatever is tokenized becomes a sequence of tokens.
* `SegmenterTypes`, `Prompt`, `Speakables`: `TypeOK`, `NothingDecidedHeld` and
  `SegmentsSpeakable` of `Segmenter`. `SegmenterInv` says what waits in each
  buffer between two calls: the bytes of a character that is cut off, a prefix
  of the marker looked for (`HeldIs`), text in which no sentence ends up to
  where the search has come (`Checked`, `CutEnd`), and sentences too short to be
  said alone (`Waiting`); behind `Flushed` nothing waits, and only the last
  segment may be short (`Segmented`). That a joined segment is speakable takes
  `JoinUntagged`: what was added between two sentences is no part of a tag.
* `TagsSilent`: `SpeechIsRest`. The code goes through the text once and puts
  white space off until it knows what follows; the reference drops the tags,
  and then takes every solid byte and one blank for each gap (`Picked`,
  `GapIs`). `TidyIs` is the invariant of that loop, at each byte.
* `ChunksAlike`: `ChunkIndependent`. The heart is `FedTwice`: from any state
  that `SegmenterInv` allows, two pieces do what one piece with both does, to
  every field of the state. Each loop has its own part of that. Bytes (`Utf8More`): where
  the scan of the first piece ends with a cut-off character, the scan of both
  goes on with that character. Think blocks (`ThinkMore`): what is held back
  is the longest end that could begin the marker, so a marker across the
  border starts in what is held (`First`). Sentences (`CutMore`): a stop that is
  decided stays one whatever follows (`StopMore`), and the position up to which
  the first scan came has none before it, so that the second may start there.
  Pushing (`PushesBoth`) is a fold. The invariant `Chunks` says that the pieces
  so far are one piece with the input so far. Its step compares recursive
  functions before and after a step that keeps the settings, which takes that
  each is the only one of its kind (`EmitUnique`).
* `TextComplete`, `TagsComplete`: `TextKept` and `TagsWhole`, which are about
  `Whole(input)`, without a character that the end cuts off and the bytes behind
  its lead. By the invariant
  `Chunks` an input in one piece is enough; there, each loop gives what its part
  of the reference gives. Bytes (`Utf8Text`): the scan takes the characters that
  the whole input has, and what it skips starts none (`LetterIs`). Think blocks
  (`ThinkText`): markers do not overlap (`MarkersApart`), so from one step of the
  scan to the next a block is either open or not (`SteadyOn`), and `Shown` has
  the same bytes; what is held back is released by `flush` (`Released`). From
  there on words and tags are treated as one: the `Items` of a text are its
  words, or its tags, in their order. A text divided at a blank has the items of
  its parts (`ItemsMore`), and `findSentenceEnd` cuts only there, whatever
  follows (`EndSharp`, `ReadsMore`); white space that is stripped holds none
  (`StripItems`), and a join has those of both texts (`JoinedItems`). An added
  period changes one word at most, by that period, and no tag (`DottedItems`,
  `Like`). So all that was said and what still waits (`Said`) have the items of
  what was cut off so far (`PushSaid`, `PushesSaid`), and after `flush` those of
  all that is shown (`FlushedSaid`, `FinalItems`).

Some of these need induction. The induction theorems of the library take a
predicate as a parameter, which no installed prover can instantiate, but the
strict order of the finite subsets of a set is given as well founded without
one. From the intervals `1 .. n` follows that a set of numbers has a least one
(`LeastNumber`), and from that induction for a set of numbers instead of a
predicate (`NumberInduction`, `DownInduction`, `UpInduction`). So `Drops` and
`CommonPrefix` exist, and the recursive function in `FlattenSeq` exists and
yields a sequence (`FlattenExists`, `FlattenIsSeq`). The loops of the segmenter
are functions of a position too, each value given by those behind it: the
values up to a position settle the next one (`Utf8Local`, `ThinkLocal`,
`CutLocal`), so the function exists (`Utf8Exists`, `ThinkExists`, `CutExists`,
`FoldExists`, `FlatExists`), and what holds of its values is shown by going back
from the end of the text. A `FlattenSeq` is the last of its partial results
(`Flats`, `FlattenIs`, `FlattenUnique`), and that of two lists behind each other
is that of both (`FlattenBoth`).

The assumptions on constants are those named in the modules; TLC evaluates them
in every run. What stays with TLC is liveness and fairness, which need
`ENABLED`: `CallsReturn`, `FailureStopsUpstream`, `Completes`, `Ends` and the
fairness in `Implements` of the queue. Every other property of a passing run is
a theorem. `SegmenterAssumption` says what the proofs use of the tables: an
abbreviation is a sequence of bytes, as the entries of the array in the code
are strings.

## Not modelled

Calls the header forbids. CreateLlmContext or Warmup during a session would wait
for the mutex that the LLM worker holds, and for ever if that worker waits for
this client to poll; a voice context during a session would replace the sample
under a synthesis. A client that submits speech although its voice context
failed would hear the new sample with the transcript of an earlier voice:
`BaseTranscript` leaves that state behind, and `wanted` keeps the modelled
client from using it. (`tts/GenerationType.hpp` calls the transcript optional;
the code throws without one.)

The lengths of samples and transcripts, option parsing, the content of files,
printing, time measurement (`benchmark/`), build files and patches. llama.cpp,
qwentts.cpp and miniaudio are external: decode, sampling, synthesis and playback
are nondeterministic choices over what the code handles.

## Plan

1. Done: queue, session, ring and LLM backend; the segmenter, against a
   reference that sees the whole input, with the tags.
2. Done: the compositions of `Session` with the state of the backends
   (`Contexts`) and with the program (`Client`).
3. Done: proofs for both data structures, both compositions, and every safety
   property of `Session`, `Qwen3Backend` and `Segmenter`.
4. Left: liveness, which stays with TLC.
