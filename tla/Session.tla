------------------------------ MODULE Session -------------------------------
(***************************************************************************)
(* A PipelineSession of llmvoice.cpp and the client that drives it through *)
(* the C API.  Up to three worker threads (LLM, segmenter, TTS) hand text  *)
(* over bounded closable queues and audio over a ring buffer; the client   *)
(* submits, polls text and audio, asks whether the session is done, and    *)
(* cancels.                                                                *)
(*                                                                         *)
(* A step of a worker is one operation on state it shares with another     *)
(* thread.  A call of the client is the sequence of its accesses to shared *)
(* state, so workers interleave with a call in progress.  Audio is polled  *)
(* on a thread of its own, as main.cpp does (playbackCallback).            *)
(*                                                                         *)
(* Segments, and in raw mode tokens, are numbered in the order in which    *)
(* they are produced; audio frames are only counted.                       *)
(***************************************************************************)
EXTENDS QueueOps, Integers

CONSTANTS
    PcmCapa,        \* frames the ring buffer pcmOut holds
    MaxTokens,      \* the maxTokens argument of a submit
    MaxSegments,    \* bound: segments one session produces
    MaxPerToken,    \* bound: segments completed by one token, or by the flush
    MaxFrames,      \* bound: frames synthesised for one segment
    PieceLen,       \* bytes of one piece of text
    MaxRoom,        \* bound: maxBytes of a PollText call
    Modes,          \* the submit calls the client makes
    Calls,          \* the other calls it makes, once it has a handle
    MayFail         \* stages that may throw, and "start": thread creation

Workers == {"llm", "seg", "tts"}
QueueNames == {"token", "toTts", "segOut", "pcmStart"}
AllModes == {"pipeline", "segmented", "raw", "tts"}
AllCalls == {"null", "isDone", "pollText", "pollPcm", "cancel", "destroy"}

ASSUME SessionAssumption ==
    /\ PcmCapa \in Nat \ {0}
    /\ MaxTokens \in Nat
    /\ MaxSegments \in Nat
    /\ MaxPerToken \in Nat
    /\ MaxFrames \in Nat
    /\ PieceLen \in Nat \ {0}
    /\ MaxRoom \in Nat
    /\ Modes \subseteq AllModes
    /\ Calls \subseteq AllCalls
    /\ MayFail \subseteq Workers \cup {"start"}

NoSegment == 0
NoError == "none"

-----------------------------------------------------------------------------
VARIABLES
    (* LlmvoiceHandle *)
    alive,          \* the handle exists
    cancelled,      \* the cancel flag of each backend
    lastError,      \* the thread_local error of the client thread
    (* PipelineSession *)
    mode,           \* which submit made the session; "none": no session
    q,              \* the four queues
    written, read,  \* totalWritten and totalRead of pcmOut
    running,        \* runningWorkers
    err,            \* error: the first stage that failed
    remainder,      \* bytes of llmTextRemainder
    pending,        \* pendingSegment: [seg, start], seg = NoSegment if empty
    (* the worker threads *)
    pc,             \* where each worker is; "off": no thread
    threw,          \* the worker left its work by an exception
    tokens,         \* LLM: loop counter
    todo,           \* segmenter: segments it still pushes for this token
    made,           \* segmenter: number of the last segment made
    cur,            \* TTS: the segment at hand
    left,           \* TTS: frames of it not written yet
    (* the client thread *)
    call,           \* API call in progress
    cpc,            \* where in it; "idle", or "done": IsDone just returned true
    starting,       \* submit: workers still to be started
    room,           \* PollText: bytes of the destination still free
    stop,           \* how far each thread is in its StopSteps
    (* history of what the client received *)
    shown,          \* pieces of text in the order in which they were released
    given,          \* bytes of text copied to the client
    speech          \* per segment, first frame of its audio (-1: has none);
                    \* NoSegment stands for the text of a SubmitTts

clientSide == <<alive, lastError, mode, read, remainder, pending, call, cpc,
                starting, room, shown, given>>
segVars == <<todo, made>>
ttsVars == <<cur, left, speech>>
vars == <<clientSide, cancelled, q, written, running, err, pc, threw, tokens,
          segVars, ttsVars, stop>>

NoPending == [seg |-> NoSegment, start |-> 0]
AllOff == \A w \in Workers : pc[w] = "off"

(* textOutputQueue *)
Out == IF mode \in {"pipeline", "segmented"} THEN "segOut" ELSE "token"

(* The queue a submit hands to startSegmenter. *)
SegmenterOut == IF mode = "pipeline" THEN "toTts" ELSE "segOut"

(* The workers a submit starts, in its order. *)
StartOrder(m) ==
    CASE m = "pipeline"  -> <<"llm", "seg", "tts">>
      [] m = "segmented" -> <<"seg", "llm">>
      [] m = "raw"       -> <<"llm">>
      [] m = "tts"       -> <<"tts">>

(* Mutants: the client forgets a queue that the TTS worker may wait for; the
   catch block of TTS leaves the token queue open. *)
StopSteps_OutputOpen ==
    [client |-> <<"llm", "tts", "token", "toTts", "pcmStart">>,
     seg    |-> <<"llm", "token">>,
     tts    |-> <<"llm", "token", "toTts">>]
StopSteps_TokenOpen ==
    [client |-> <<"llm", "tts", "token", "toTts", "segOut", "pcmStart">>,
     seg    |-> <<"llm", "token">>,
     tts    |-> <<"llm", "toTts">>]

(* What a thread does to bring others to a halt, step by step: the client in
   cancelSession, the segmenter and TTS in their catch blocks.  A step sets a
   backend's cancel flag or closes a queue. *)
StopSteps ==
    [client |-> <<"llm", "tts", "token", "toTts", "segOut", "pcmStart">>,
     seg    |-> <<"llm", "token">>,
     tts    |-> <<"llm", "token", "toTts">>]

(* isSessionDone, its three looks at shared state in order.  Mutants: the text
   that did not fit, or that waits for its audio, is forgotten. *)
NoWorkerRuns == running = 0
NoTextLeft_NoRemainder == pending = NoPending /\ IsEmpty(q[Out])
NoTextLeft_NoPending == remainder = 0 /\ IsEmpty(q[Out])
NoTextLeft == remainder = 0 /\ pending = NoPending /\ IsEmpty(q[Out])
Available == written - read

Min2(a, b) == IF a < b THEN a ELSE b

-----------------------------------------------------------------------------
(* Everything a PipelineSession holds, as a submit in mode m makes it and as
   its destruction leaves it (m = "none"). *)
FreshSession(m) ==
    /\ mode' = m
    /\ q' = [n \in QueueNames |-> EmptyQueue]
    /\ written' = 0 /\ read' = 0
    /\ running' = 0
    /\ err' = NoError
    /\ remainder' = 0
    /\ pending' = NoPending
    /\ pc' = [w \in Workers |-> "off"]
    /\ threw' = [w \in Workers |-> FALSE]
    /\ tokens' = 0 /\ todo' = 0 /\ made' = 0
    /\ cur' = NoSegment /\ left' = 0
    /\ stop' = [t \in DOMAIN StopSteps |-> 0]
    /\ shown' = <<>> /\ given' = 0
    /\ speech' = [s \in 0..MaxSegments |-> -1]

Init ==
    /\ alive = FALSE
    /\ cancelled = [b \in {"llm", "tts"} |-> FALSE]
    /\ lastError = NoError
    /\ mode = "none"
    /\ q = [n \in QueueNames |-> EmptyQueue]
    /\ written = 0 /\ read = 0
    /\ running = 0
    /\ err = NoError
    /\ remainder = 0
    /\ pending = NoPending
    /\ pc = [w \in Workers |-> "off"]
    /\ threw = [w \in Workers |-> FALSE]
    /\ tokens = 0 /\ todo = 0 /\ made = 0
    /\ cur = NoSegment /\ left = 0
    /\ call = "none" /\ cpc = "idle" /\ starting = <<>> /\ room = 0
    /\ stop = [t \in DOMAIN StopSteps |-> 0]
    /\ shown = <<>> /\ given = 0
    /\ speech = [s \in 0..MaxSegments |-> -1]

-----------------------------------------------------------------------------
(* The worker threads *)

Goto(w, l) == pc' = [pc EXCEPT ![w] = l]

(* Where startWorker's thread begins. *)
FirstStep(w) ==
    CASE w = "llm" -> "gen"
      [] w = "seg" -> "pop"
      [] w = "tts" -> IF mode = "tts" THEN "speak" ELSE "pop"

(* A backend or the segmenter throws: the catch block of the stage runs, if it
   has one, and then startWorker's. *)
Throw(w) ==
    /\ threw' = [threw EXCEPT ![w] = TRUE]
    /\ Goto(w, CASE w = "llm" -> "close"
                 [] w = "seg" -> "close"
                 [] w = "tts" -> IF mode = "tts" THEN "fail" ELSE "stop")

(* Set the cancel flag of backend x, or close queue x. *)
Halt(x) ==
    IF x \in QueueNames
    THEN q' = [q EXCEPT ![x] = Closed(@)] /\ UNCHANGED cancelled
    ELSE cancelled' = [cancelled EXCEPT ![x] = TRUE] /\ UNCHANGED q

(* Qwen3Backend::synthesizeToQueue, at the head of its loop: go on, or leave it
   because of the token limit, a cancel or an end-of-generation token. *)
LlmGenerate ==
    /\ pc["llm"] = "gen"
    /\ \/ tokens < MaxTokens /\ ~cancelled["llm"] /\ Goto("llm", "push")
       \/ Goto("llm", "close")
    /\ UNCHANGED <<clientSide, segVars, ttsVars, cancelled, q, written,
                   running, err, threw, tokens, stop>>

(* The prompt or the last token could not be decoded. *)
LlmThrow ==
    /\ pc["llm"] = "gen" /\ "llm" \in MayFail
    /\ Throw("llm")
    /\ UNCHANGED <<clientSide, segVars, ttsVars, cancelled, q, written,
                   running, err, tokens, stop>>

(* Mutant: a token is dropped when the queue is full. *)
LlmPush_Drops ==
    /\ pc["llm"] = "push"
    /\ q' = IF CanPush(q["token"])
            THEN [q EXCEPT !["token"] = Pushed(@, tokens + 1)] ELSE q
    /\ tokens' = tokens + 1
    /\ Goto("llm", "gen")
    /\ UNCHANGED <<clientSide, segVars, ttsVars, cancelled, written, running,
                   err, threw, stop>>

(* The result of push is not looked at. *)
LlmPush ==
    /\ pc["llm"] = "push" /\ CanPush(q["token"])
    /\ q' = [q EXCEPT !["token"] = Pushed(@, tokens + 1)]
    /\ tokens' = tokens + 1
    /\ Goto("llm", "gen")
    /\ UNCHANGED <<clientSide, segVars, ttsVars, cancelled, written, running,
                   err, threw, stop>>

(* Segmenter::segment takes a token, which completes any number of segments.
   Without another token it flushes, which may complete some more. *)
SegPop ==
    /\ pc["seg"] = "pop" /\ CanPop(q["token"])
    /\ \E k \in 0..MaxPerToken :
           /\ k <= MaxSegments - made
           /\ todo' = k
           /\ IF IsEmpty(q["token"])
              THEN /\ Goto("seg", IF k = 0 THEN "close" ELSE "flush")
                   /\ UNCHANGED q
              ELSE /\ q' = [q EXCEPT !["token"] = Popped(@)]
                   /\ Goto("seg", IF k = 0 THEN "pop" ELSE "emit")
    /\ UNCHANGED <<clientSide, ttsVars, cancelled, written, running, err,
                   threw, tokens, made, stop>>

SegThrow ==
    /\ pc["seg"] = "pop" /\ "seg" \in MayFail
    /\ Throw("seg")
    /\ UNCHANGED <<clientSide, segVars, ttsVars, cancelled, q, written,
                   running, err, tokens, stop>>

(* Push one segment; if the consumer closed the queue, do nothing more. *)
SegEmit ==
    /\ pc["seg"] \in {"emit", "flush"} /\ CanPush(q[SegmenterOut])
    /\ q' = [q EXCEPT ![SegmenterOut] = Pushed(@, made + 1)]
    /\ made' = made + 1
    /\ todo' = todo - 1
    /\ Goto("seg", IF q[SegmenterOut].closed THEN "close"
                   ELSE IF todo > 1 THEN pc["seg"]
                   ELSE IF pc["seg"] = "flush" THEN "close" ELSE "pop")
    /\ UNCHANGED <<clientSide, ttsVars, cancelled, written, running, err,
                   threw, tokens, stop>>

(* QueueCloser: the LLM and the segmenter close their output however they
   leave it. *)
CloseOutput(w) ==
    /\ w \in {"llm", "seg"} /\ pc[w] = "close"
    /\ LET out == IF w = "llm" THEN "token" ELSE SegmenterOut
       IN  q' = [q EXCEPT ![out] = Closed(@)]
    /\ Goto(w, IF ~threw[w] THEN "leave" ELSE IF w = "seg" THEN "stop" ELSE "fail")
    /\ UNCHANGED <<clientSide, segVars, ttsVars, cancelled, written, running,
                   err, threw, tokens, stop>>

(* The TTS worker of the pipeline takes the next segment, if there is one. *)
TtsPop ==
    /\ pc["tts"] = "pop" /\ CanPop(q["toTts"])
    /\ IF IsEmpty(q["toTts"])
       THEN Goto("tts", "leave") /\ UNCHANGED <<q, cur>>
       ELSE /\ cur' = Head(q["toTts"].items)
            /\ q' = [q EXCEPT !["toTts"] = Popped(@)]
            /\ Goto("tts", "start")
    /\ UNCHANGED <<clientSide, segVars, cancelled, written, running, err,
                   threw, tokens, left, stop, speech>>

(* Before it is spoken, the segment goes to the client: the position where its
   audio starts first, then its text.  A closed queue means cancelled. *)
TtsAnnounce(at, queue, item, next) ==
    /\ pc["tts"] = at /\ CanPush(q[queue])
    /\ q' = [q EXCEPT ![queue] = Pushed(@, item)]
    /\ Goto("tts", IF q[queue].closed THEN "leave" ELSE next)
    /\ UNCHANGED <<clientSide, segVars, ttsVars, cancelled, written, running,
                   err, threw, tokens, stop>>

TtsPushStart == TtsAnnounce("start", "pcmStart", written, "out")
TtsPushText == TtsAnnounce("out", "segOut", cur, "speak")

AfterSpeech == IF mode = "pipeline" THEN "pop" ELSE "leave"

(* Nothing of the segment is speakable, or its synthesis yields no audio. *)
TtsSkip ==
    /\ pc["tts"] = "speak"
    /\ Goto("tts", AfterSpeech)
    /\ UNCHANGED <<clientSide, segVars, ttsVars, cancelled, q, written,
                   running, err, threw, tokens, stop>>

(* synthesizeToBuffer will yield n frames of audio. *)
TtsSynthesize ==
    /\ pc["tts"] = "speak"
    /\ \E n \in 1..MaxFrames : left' = n
    /\ Goto("tts", "synth")
    /\ UNCHANGED <<clientSide, segVars, cancelled, q, written, running, err,
                   threw, tokens, cur, stop, speech>>

(* on_chunk writes what fits; while the ring is full it sleeps and retries. *)
TtsWrite ==
    /\ pc["tts"] = "synth" /\ ~cancelled["tts"]
    /\ LET n == Min2(left, PcmCapa - Available)
       IN  /\ n > 0
           /\ written' = written + n
           /\ left' = left - n
           /\ Goto("tts", IF n = left THEN AfterSpeech ELSE "synth")
    /\ speech' = [speech EXCEPT ![cur] = IF @ < 0 THEN written ELSE @]
    /\ UNCHANGED <<clientSide, segVars, cancelled, q, running, err, threw,
                   tokens, cur, stop>>

(* on_chunk returns false on a cancel; the synthesis ends there. *)
TtsCancelled ==
    /\ pc["tts"] = "synth" /\ cancelled["tts"]
    /\ left' = 0
    /\ Goto("tts", AfterSpeech)
    /\ UNCHANGED <<clientSide, segVars, cancelled, q, written, running, err,
                   threw, tokens, cur, stop, speech>>

(* qt_synthesize reports an error, or that it was cancelled. *)
TtsThrow ==
    /\ \/ pc["tts"] \in {"speak", "synth"} /\ "tts" \in MayFail
       \/ pc["tts"] = "synth" /\ cancelled["tts"]
    /\ left' = 0
    /\ Throw("tts")
    /\ UNCHANGED <<clientSide, segVars, cancelled, q, written, running, err,
                   tokens, cur, stop, speech>>

(* One step of a catch block: nobody drains this stage's input anymore. *)
StopUpstream(w) ==
    /\ w \in {"seg", "tts"} /\ pc[w] = "stop"
    /\ Halt(StopSteps[w][stop[w] + 1])
    /\ stop' = [stop EXCEPT ![w] = @ + 1]
    /\ Goto(w, IF stop[w] + 1 = Len(StopSteps[w]) THEN "fail" ELSE "stop")
    /\ UNCHANGED <<clientSide, segVars, ttsVars, written, running, err, threw,
                   tokens>>

(* startWorker: PipelineSession::fail keeps the first error. *)
RecordFailure(w) ==
    /\ pc[w] = "fail"
    /\ err' = IF err = NoError THEN w ELSE err
    /\ Goto(w, "leave")
    /\ UNCHANGED <<clientSide, segVars, ttsVars, cancelled, q, written,
                   running, threw, tokens, stop>>

(* startWorker: the last thing a worker does. *)
Leave(w) ==
    /\ pc[w] = "leave"
    /\ running' = running - 1
    /\ Goto(w, "off")
    /\ UNCHANGED <<clientSide, segVars, ttsVars, cancelled, q, written, err,
                   threw, tokens, stop>>

Llm == \/ LlmGenerate \/ LlmThrow \/ LlmPush \/ CloseOutput("llm")
       \/ RecordFailure("llm") \/ Leave("llm")
Seg == \/ SegPop \/ SegThrow \/ SegEmit \/ CloseOutput("seg")
       \/ StopUpstream("seg") \/ RecordFailure("seg") \/ Leave("seg")
Tts == \/ TtsPop \/ TtsPushStart \/ TtsPushText \/ TtsSkip \/ TtsSynthesize
       \/ TtsWrite \/ TtsCancelled \/ TtsThrow
       \/ StopUpstream("tts") \/ RecordFailure("tts") \/ Leave("tts")

-----------------------------------------------------------------------------
(* The client thread.  A call may begin when none is in progress.           *)

workerSide == <<cancelled, q, written, running, err, pc, threw, tokens, segVars,
                ttsVars, stop>>

MayCall == alive /\ cpc \in {"idle", "done"}
HasSession == mode # "none"

Return == call' = "none" /\ cpc' = "idle"

(* llmvoiceCreate: a null or unsupported config, or a model that does not load,
   yields no handle. *)
Create ==
    /\ ~alive
    /\ \/ alive' = TRUE /\ cancelled' = [b \in {"llm", "tts"} |-> FALSE]
          /\ UNCHANGED lastError
       \/ lastError' = "api" /\ UNCHANGED <<alive, cancelled>>
    /\ UNCHANGED <<mode, read, remainder, pending, call, cpc, starting, room,
                   shown, given, q, written, running, err, pc, threw, tokens,
                   segVars, ttsVars, stop>>

(* A submit of a null text. *)
SubmitNull ==
    /\ MayCall /\ "null" \in Calls
    /\ lastError' = "api"
    /\ Return
    /\ UNCHANGED <<workerSide, alive, mode, read, remainder, pending, starting,
                   room, shown, given>>

(* A submit; call remembers its mode.  An earlier session must be done. *)
Submit(m) ==
    /\ MayCall
    /\ call' = m
    /\ cpc' = IF HasSession THEN "workers" ELSE "begin"
    /\ UNCHANGED <<workerSide, alive, lastError, mode, read, remainder, pending,
                   starting, room, shown, given>>

(* llmvoiceIsDone: true without a session. *)
IsDone ==
    /\ MayCall /\ "isDone" \in Calls
    /\ IF HasSession THEN call' = "isDone" /\ cpc' = "workers"
                     ELSE cpc' = "done" /\ UNCHANGED call
    /\ UNCHANGED <<workerSide, alive, lastError, mode, read, remainder, pending,
                   starting, room, shown, given>>

(* isSessionDone, one look at shared state after the other, for either caller. *)
Look(at, clear, next) ==
    /\ cpc = at
    /\ IF clear
       THEN cpc' = next /\ UNCHANGED <<call, lastError>>
       ELSE /\ Return
            /\ lastError' = IF call = "isDone" THEN lastError ELSE "api"
    /\ UNCHANGED <<workerSide, alive, mode, read, remainder, pending, starting,
                   room, shown, given>>

LookWorkers_Skipped == Look("workers", TRUE, "text")    \* mutant
LookWorkers == Look("workers", NoWorkerRuns, "text")
LookText == Look("text", NoTextLeft, "pcm")
LookPcm == Look("pcm", Available = 0, IF call = "isDone" THEN "report" ELSE "begin")

(* Mutant: only a failure is handed over, a success leaves the error as it is. *)
Report_FailureOnly ==
    /\ cpc = "report"
    /\ lastError' = IF err = NoError THEN lastError ELSE err
    /\ call' = "none" /\ cpc' = "done"
    /\ UNCHANGED <<workerSide, alive, mode, read, remainder, pending, starting,
                   room, shown, given>>

(* llmvoiceIsDone hands the outcome of the session to the caller. *)
Report ==
    /\ cpc = "report"
    /\ lastError' = err
    /\ call' = "none" /\ cpc' = "done"
    /\ UNCHANGED <<workerSide, alive, mode, read, remainder, pending, starting,
                   room, shown, given>>

(* Mutant: the cancel flags are not reset. *)
Begin_FlagsStay ==
    /\ cpc = "begin" /\ AllOff
    /\ UNCHANGED cancelled
    /\ FreshSession(call)
    /\ starting' = StartOrder(call)
    /\ cpc' = "count"
    /\ UNCHANGED <<alive, lastError, call, room>>

(* The rest of beginSession: destroying the old session joins its threads. *)
Begin ==
    /\ cpc = "begin" /\ AllOff
    /\ cancelled' = [b \in {"llm", "tts"} |-> FALSE]
    /\ FreshSession(call)
    /\ starting' = StartOrder(call)
    /\ cpc' = "count"
    /\ UNCHANGED <<alive, lastError, call, room>>

(* startWorker counts the worker, then starts its thread. *)
CountWorker ==
    /\ cpc = "count"
    /\ running' = running + 1
    /\ cpc' = "spawn"
    /\ UNCHANGED <<alive, lastError, mode, read, remainder, pending, call, starting,
                   room, shown, given, cancelled, q, written, err, pc, threw,
                   tokens, segVars, ttsVars, stop>>

SpawnWorker ==
    /\ cpc = "spawn"
    /\ Goto(Head(starting), FirstStep(Head(starting)))
    /\ starting' = Tail(starting)
    /\ IF Len(starting) = 1 THEN Return ELSE cpc' = "count" /\ UNCHANGED call
    /\ UNCHANGED <<alive, lastError, mode, read, remainder, pending, room, shown,
                   given, cancelled, q, written, running, err, threw, tokens,
                   segVars, ttsVars, stop>>

(* Mutant: the worker that did not start stays counted. *)
SpawnFails_StaysCounted ==
    /\ cpc = "spawn" /\ "start" \in MayFail
    /\ cpc' = "stop"
    /\ starting' = <<>>
    /\ UNCHANGED <<alive, lastError, mode, read, remainder, pending, call, room,
                   shown, given, cancelled, q, written, running, err, pc, threw,
                   tokens, segVars, ttsVars, stop>>

(* The thread cannot be created: the submit cancels the half-built session. *)
SpawnFails ==
    /\ cpc = "spawn" /\ "start" \in MayFail
    /\ running' = running - 1
    /\ cpc' = "stop"
    /\ starting' = <<>>
    /\ UNCHANGED <<alive, lastError, mode, read, remainder, pending, call, room,
                   shown, given, cancelled, q, written, err, pc, threw, tokens,
                   segVars, ttsVars, stop>>

(* llmvoiceCancel and llmvoiceDestroy *)
Cancel(c) ==
    /\ MayCall /\ c \in Calls
    /\ call' = c /\ cpc' = "stop"
    /\ UNCHANGED <<workerSide, alive, lastError, mode, read, remainder, pending,
                   starting, room, shown, given>>

(* One step of cancelSession; without a session only the flags are set. *)
StopSession ==
    /\ cpc = "stop"
    /\ Halt(StopSteps["client"][stop["client"] + 1])
    /\ stop' = [stop EXCEPT !["client"] = @ + 1]
    /\ LET last == IF HasSession THEN Len(StopSteps["client"]) ELSE 2
       IN  cpc' = IF stop["client"] + 1 = last THEN "join" ELSE "stop"
    /\ UNCHANGED <<alive, lastError, mode, read, remainder, pending, call, starting,
                   room, shown, given, written, running, err, pc, threw, tokens,
                   segVars, ttsVars>>

(* Destroying the session joins its threads; then the call that cancelled it
   returns: a failed submit reports its error, Destroy frees the handle. *)
Join ==
    /\ cpc = "join" /\ AllOff
    /\ FreshSession("none")
    /\ lastError' = IF call \in AllModes THEN "api" ELSE lastError
    /\ alive' = (call # "destroy")
    /\ Return
    /\ UNCHANGED <<cancelled, starting, room>>

(* PollText and PollPcm on the client thread, without a session. *)
PollNothing ==
    /\ MayCall /\ ~HasSession /\ {"pollText", "pollPcm"} \cap Calls # {}
    /\ lastError' = "api"
    /\ Return
    /\ UNCHANGED <<workerSide, alive, mode, read, remainder, pending, starting,
                   room, shown, given>>

(* llmvoicePollText with a destination of r bytes: the remainder comes first. *)
PollText(r) ==
    /\ MayCall /\ HasSession /\ "pollText" \in Calls
    /\ LET n == Min2(remainder, r)
       IN  /\ remainder' = remainder - n
           /\ given' = given + n
           /\ room' = r - n
    /\ IF room' = 0 THEN Return ELSE call' = "pollText" /\ cpc' = "take"
    /\ UNCHANGED <<workerSide, alive, lastError, mode, read, pending, starting,
                   shown>>

(* Mutants: the copy is not limited to the piece; the segment stays pending. *)
Release_NoLimit(s) ==
    /\ shown' = Append(shown, s)
    /\ given' = given + room
    /\ remainder' = PieceLen - room
    /\ room' = 0
    /\ pending' = NoPending
    /\ Return
Release_StaysPending(s) ==
    LET n == Min2(PieceLen, room)
    IN  /\ shown' = Append(shown, s)
        /\ given' = given + n
        /\ remainder' = PieceLen - n
        /\ room' = room - n
        /\ UNCHANGED pending
        /\ IF n = room THEN Return ELSE cpc' = "take" /\ UNCHANGED call

(* The piece of text s goes out, the part of it that does not fit becomes the
   remainder. *)
Release(s) ==
    LET n == Min2(PieceLen, room)
    IN  /\ shown' = Append(shown, s)
        /\ given' = given + n
        /\ remainder' = PieceLen - n
        /\ room' = room - n
        /\ pending' = NoPending
        /\ IF n = room THEN Return ELSE cpc' = "take" /\ UNCHANGED call

(* The head of the loop: take the next piece, unless one is pending. *)
TakeText ==
    /\ cpc = "take"
    /\ \/ /\ pending # NoPending
          /\ cpc' = "audio"
          /\ UNCHANGED <<q, pending, call, room, shown, given, remainder>>
       \/ /\ pending = NoPending /\ IsEmpty(q[Out])
          /\ Return
          /\ UNCHANGED <<q, pending, room, shown, given, remainder>>
       \/ /\ pending = NoPending /\ ~IsEmpty(q[Out])
          /\ q' = [q EXCEPT ![Out] = Popped(@)]
          /\ IF mode = "pipeline"
             THEN /\ pending' = [seg |-> Head(q[Out].items), start |-> 0]
                  /\ cpc' = "takeStart"
                  /\ UNCHANGED <<call, room, shown, given, remainder>>
             ELSE Release(Head(q[Out].items))
    /\ UNCHANGED <<alive, lastError, mode, read, starting, cancelled, written,
                   running, err, pc, threw, tokens, segVars, ttsVars, stop>>

(* The position of its audio; 0 should the queue be empty. *)
TakeStart ==
    /\ cpc = "takeStart"
    /\ IF IsEmpty(q["pcmStart"])
       THEN UNCHANGED <<q, pending>>
       ELSE /\ pending' = [pending EXCEPT !.start = Head(q["pcmStart"].items)]
            /\ q' = [q EXCEPT !["pcmStart"] = Popped(@)]
    /\ cpc' = "audio"
    /\ UNCHANGED <<alive, lastError, mode, read, remainder, call, starting, room,
                   shown, given, cancelled, written, running, err, pc, threw,
                   tokens, segVars, ttsVars, stop>>

(* Text waits for its audio, or until no audio can come anymore. *)
AudioStarted_AtStart == read >= pending.start           \* mutant
AudioStarted == read > pending.start

HoldOrRelease(at, release, hold) ==
    /\ cpc = at
    /\ IF release
       THEN Release(pending.seg)
       ELSE /\ IF hold = "idle" THEN Return ELSE cpc' = hold /\ UNCHANGED call
            /\ UNCHANGED <<remainder, pending, room, shown, given>>
    /\ UNCHANGED <<workerSide, alive, lastError, mode, read, starting>>

CheckAudio == HoldOrRelease("audio", AudioStarted, "noWorkers")
CheckWorkers_Never ==     \* mutant: text always waits for audio
    /\ cpc = "noWorkers"
    /\ Return
    /\ UNCHANGED <<workerSide, alive, lastError, mode, read, remainder, pending,
                   starting, room, shown, given>>
CheckWorkers ==
    /\ cpc = "noWorkers"
    /\ IF NoWorkerRuns THEN cpc' = "noPcm" /\ UNCHANGED call ELSE Return
    /\ UNCHANGED <<workerSide, alive, lastError, mode, read, remainder, pending,
                   starting, room, shown, given>>
CheckPcm == HoldOrRelease("noPcm", Available = 0, "idle")

(* llmvoicePollPcm, on the audio thread: not while the client replaces or
   destroys the session. *)
PollPcm(n) ==
    /\ HasSession /\ "pollPcm" \in Calls
    /\ call \in {"none", "isDone", "pollText"}
    /\ read' = read + n
    /\ UNCHANGED <<workerSide, alive, lastError, mode, remainder, pending, call,
                   cpc, starting, room, shown, given>>

-----------------------------------------------------------------------------
(* The steps of a call in progress, which need no decision of the client. *)
InCall ==
    \/ LookWorkers \/ LookText \/ LookPcm \/ Report
    \/ Begin \/ CountWorker \/ SpawnWorker \/ SpawnFails
    \/ StopSession \/ Join
    \/ TakeText \/ TakeStart \/ CheckAudio \/ CheckWorkers \/ CheckPcm

NewCall ==
    \/ Create \/ SubmitNull \/ IsDone \/ PollNothing
    \/ \E m \in Modes : Submit(m)
    \/ \E c \in {"cancel", "destroy"} : Cancel(c)
    \/ \E r \in 0..MaxRoom : PollText(r)

Audio == \E n \in 1..Available : PollPcm(n)

Next == Llm \/ Seg \/ Tts \/ InCall \/ NewCall \/ Audio

Spec == Init /\ [][Next]_vars

(* Threads are scheduled: a worker that can go on does, and so does a call. *)
LiveSpec ==
    /\ Spec
    /\ WF_vars(Llm) /\ WF_vars(Seg) /\ WF_vars(Tts)
    /\ WF_vars(InCall)

(* A client that keeps polling, as the loop of main.cpp does.  Each call is
   enabled only between two others, hence strong fairness. *)
PollingSpec ==
    /\ LiveSpec
    /\ SF_vars(IsDone)
    /\ SF_vars(\E r \in 1..MaxRoom : PollText(r))
    /\ SF_vars(Audio)

-----------------------------------------------------------------------------
(* The types of the variables of each side, and of those the sides share. *)
ClientTypes ==
    /\ alive \in BOOLEAN
    /\ lastError \in Workers \cup {NoError, "api"}
    /\ mode \in AllModes \cup {"none"}
    /\ read \in Nat /\ remainder \in Nat
    /\ pending \in [seg : Nat, start : Nat]
    /\ call \in AllModes \cup {"none", "isDone", "pollText", "cancel", "destroy"}
    /\ cpc \in {"idle", "done", "workers", "text", "pcm", "report", "begin",
                "count", "spawn", "stop", "join", "take", "takeStart", "audio",
                "noWorkers", "noPcm"}
    /\ starting \in Seq(Workers) /\ room \in Nat
    /\ shown \in Seq(Nat) /\ given \in Nat

SharedTypes ==
    /\ cancelled \in [{"llm", "tts"} -> BOOLEAN]
    /\ q \in [QueueNames -> Queues(Nat)]
    /\ written \in Nat /\ running \in Int
    /\ err \in Workers \cup {NoError}
    /\ stop \in [DOMAIN StopSteps -> Nat]

WorkerPlaces == {"off", "gen", "push", "pop", "emit", "flush", "start", "out",
                 "speak", "synth", "close", "stop", "fail", "leave"}

WorkerTypes ==
    /\ pc \in [Workers -> WorkerPlaces]
    /\ threw \in [Workers -> BOOLEAN]
    /\ tokens \in Nat /\ todo \in Int /\ made \in Nat
    /\ cur \in Nat /\ left \in Nat
    /\ speech \in [0..MaxSegments -> Int]

(* Type correctness. *)
TypeOK == ClientTypes /\ SharedTypes /\ WorkerTypes

(* A worker is counted before its thread exists and until it has recorded its
   failure, so runningWorkers = 0 proves that nothing more will happen
   (comments at llmvoice.cpp:109 and :124). *)
Live(w) == IF pc[w] = "off" THEN 0 ELSE 1
Total == Live("llm") + Live("seg") + Live("tts")
WorkersCounted == running = IF cpc = "spawn" THEN Total + 1 ELSE Total

(* "No worker is running here": from the moment a caller of isSessionDone has
   seen no worker until it returns or has reset the cancel flags and replaced
   the session, none is (llmvoice.cpp:141 and :176). *)
QuietOnceSeen == cpc \in {"text", "pcm", "report", "begin"} => AllOff

(* What the session has produced for PollText. *)
Produced ==
    CASE mode = "raw" -> tokens
      [] mode = "tts" -> 0
      [] OTHER        -> made

(* When IsDone says true of a session, no worker is left to add to its output
   and every buffer between a worker and the client is empty.  It stays so
   until the client's next call (llmvoice.h:95). *)
DoneMeansDrained ==
    cpc = "done" /\ HasSession =>
        /\ AllOff
        /\ remainder = 0 /\ pending = NoPending /\ q[Out].items = <<>>
        /\ read = written

(* When IsDone says true of a session, every byte released was copied to the
   client and, unless a stage failed, every piece made was released. *)
NothingLost ==
    cpc = "done" /\ HasSession =>
        /\ given = PieceLen * Len(shown)
        /\ (\A w \in Workers : ~threw[w]) => Len(shown) = Produced

(* A Cancel, or the abort of a failed session, does not reach into a later
   session: while a session runs that nobody cancels and in which no stage
   failed, no cancel flag is up (llmvoice.cpp:176-178). *)
NoStrayCancel ==
    /\ HasSession /\ call \notin AllModes \cup {"cancel", "destroy"}
    /\ \A w \in Workers : ~threw[w]
    => ~cancelled["llm"] /\ ~cancelled["tts"]

(* When IsDone says true of a session, LastError is "" if every stage succeeded
   and otherwise names a stage that failed (llmvoice.h:96). *)
OutcomeReported ==
    cpc = "done" /\ HasSession =>
        IF \A w \in Workers : ~threw[w]
        THEN lastError = NoError
        ELSE lastError \in Workers /\ threw[lastError]

(* The client gets the text in the order in which it was produced, no piece
   twice and none left out, also when a stage fails. *)
TextInOrder == \A i \in DOMAIN shown : shown[i] = i

(* The text of a segment with audio is released only after the first frame of
   that audio was polled (llmvoice.h:68). *)
TextNotBeforeAudio ==
    \A i \in DOMAIN shown :
        shown[i] \in DOMAIN speech /\ speech[shown[i]] >= 0 =>
            read > speech[shown[i]]

(* Every call returns, even if nobody polls: in particular Cancel and Destroy
   get every worker out of whatever it waits for. *)
CallsReturn == call # "none" ~> call = "none"

(* A stage that fails stops the stages that feed it; they do not stay blocked
   on a queue nobody drains, even if nobody polls (llmvoice.cpp:193 and :313). *)
FailureStopsUpstream ==
    /\ threw["tts"] ~> pc["llm"] = "off" /\ pc["seg"] = "off"
    /\ threw["seg"] ~> pc["llm"] = "off"

(* If the client keeps polling both text and audio, the session ends: IsDone,
   or the next submit, finds it done, unless it is cancelled first
   (llmvoice.h:67). *)
Completes == HasSession ~> cpc \in {"done", "begin"} \/ ~HasSession
=============================================================================
