---------------------------- MODULE SessionProofs ----------------------------
(****************************************************************************)
(* Theorems about Session, for every value of its constants: its types,     *)
(* what an answer of IsDone is worth, that no cancel flag strays into a     *)
(* session, and that the text the client gets is all of the text, in order, *)
(* and not ahead of its audio.                                              *)
(****************************************************************************)
EXTENDS Session, TLAPS

-----------------------------------------------------------------------------
(* The queue operators keep the type of a queue. *)
LEMMA QueueTypes ==
    ASSUME NEW T, NEW queue \in Queues(T), NEW item \in T
    PROVE  /\ Pushed(queue, item) \in Queues(T)
           /\ Closed(queue) \in Queues(T)
PROOF
  <1>1. /\ queue = [items |-> queue.items, closed |-> queue.closed]
        /\ queue.items \in Seq(T) /\ queue.closed \in BOOLEAN
        BY DEF Queues
  <1>2. Append(queue.items, item) \in Seq(T)
        BY <1>1
  <1>3. [queue EXCEPT !.items = Append(@, item)] \in Queues(T)
        BY <1>1, <1>2 DEF Queues
  <1>4. [queue EXCEPT !.closed = TRUE] \in Queues(T)
        BY <1>1 DEF Queues
  <1> QED
        BY <1>3, <1>4 DEF Pushed, Closed

(* What is popped from a queue that is not empty is one of its items. *)
LEMMA PopTypes ==
    ASSUME NEW T, NEW queue \in Queues(T), ~IsEmpty(queue)
    PROVE  /\ Popped(queue) \in Queues(T)
           /\ Head(queue.items) \in T
PROOF
  BY DEF Popped, Queues, IsEmpty

-----------------------------------------------------------------------------
(* The workers a submit in progress has still to start. *)
Remaining == {<<"llm", "seg", "tts">>, <<"seg", "tts">>, <<"tts">>,
              <<"seg", "llm">>, <<"llm">>}

(* How the place in a call restricts the call, the workers it has still to
   start, and the session. *)
Phases ==
    /\ cpc \in {"workers", "text", "pcm"} => call \in AllModes \cup {"isDone"}
    /\ cpc = "report" => call = "isDone"
    /\ cpc = "begin" => call \in AllModes
    /\ cpc \in {"count", "spawn"} => starting \in Remaining /\ mode \in AllModes

(* A new handle, before any call. *)
LEMMA TypeInit == Init => TypeOK
PROOF
  <1> SUFFICES ASSUME Init PROVE TypeOK
      OBVIOUS
  <1>1. ClientTypes
    <2>1. alive \in BOOLEAN
          BY DEF Init
    <2>2. pending \in [seg : Nat, start : Nat]
          BY DEF Init, NoPending, NoSegment
    <2>3. starting \in Seq(Workers) /\ shown \in Seq(Nat)
          BY DEF Init
    <2> QED
          BY <2>1, <2>2, <2>3 DEF Init, ClientTypes
  <1>2. SharedTypes
    <2>1. EmptyQueue \in Queues(Nat)
          BY DEF EmptyQueue, Queues
    <2>2. q \in [QueueNames -> Queues(Nat)]
          BY <2>1 DEF Init
    <2> QED
          BY <2>2 DEF Init, SharedTypes
  <1>3. WorkerTypes
        BY SessionAssumption DEF Init, WorkerTypes, WorkerPlaces, NoSegment
  <1> QED
      BY <1>1, <1>2, <1>3 DEF TypeOK

(* What the workers' steps leave alone. *)
LEMMA WorkersLeaveClient == Llm \/ Seg \/ Tts => UNCHANGED clientSide
PROOF
  <1>1. Llm => UNCHANGED clientSide
        BY DEF Llm, LlmGenerate, LlmThrow, LlmPush, CloseOutput, RecordFailure, Leave
  <1>2. Seg => UNCHANGED clientSide
        BY DEF Seg, SegPop, SegThrow, SegEmit, CloseOutput, StopUpstream,
           RecordFailure, Leave
  <1>3. Tts => UNCHANGED clientSide
        BY DEF Tts, TtsPop, TtsPushStart, TtsPushText, TtsAnnounce, TtsSkip,
           TtsSynthesize, TtsWrite, TtsCancelled, TtsThrow, StopUpstream,
           RecordFailure, Leave
  <1> QED
      BY <1>1, <1>2, <1>3

(* Each worker keeps the types of the variables of the workers. *)
LEMMA LlmTypes == TypeOK /\ Llm => WorkerTypes'
PROOF
  <1> SUFFICES ASSUME TypeOK, Llm PROVE WorkerTypes'
      OBVIOUS
  <1>1. CASE LlmGenerate
        BY <1>1 DEF LlmGenerate, Goto, TypeOK, WorkerTypes, WorkerPlaces, segVars,
           ttsVars
  <1>2. CASE LlmThrow
        BY <1>2 DEF LlmThrow, Throw, Goto, TypeOK, WorkerTypes, WorkerPlaces, segVars,
           ttsVars
  <1>3. CASE LlmPush
    <2>1. pc' \in [Workers -> WorkerPlaces]
          BY <1>3 DEF LlmPush, Goto, TypeOK, WorkerTypes, WorkerPlaces
    <2> QED
          BY <2>1, <1>3 DEF LlmPush, TypeOK, WorkerTypes, segVars, ttsVars
  <1>4. CASE CloseOutput("llm")
    <2>1. \E l \in WorkerPlaces : Goto("llm", l)
          BY <1>4 DEF CloseOutput, WorkerPlaces
    <2> QED
          BY <1>4, <2>1 DEF CloseOutput, Goto, TypeOK, WorkerTypes, segVars,
             ttsVars
  <1>5. CASE RecordFailure("llm")
        BY <1>5 DEF RecordFailure, Goto, TypeOK, WorkerTypes, WorkerPlaces, segVars,
           ttsVars
  <1>6. CASE Leave("llm")
        BY <1>6 DEF Leave, Goto, TypeOK, WorkerTypes, WorkerPlaces, segVars,
           ttsVars
  <1> QED
      BY <1>1, <1>2, <1>3, <1>4, <1>5, <1>6 DEF Llm

(* Likewise the segmenter. *)
LEMMA SegTypes == TypeOK /\ Seg => WorkerTypes'
PROOF
  <1> SUFFICES ASSUME TypeOK, Seg PROVE WorkerTypes'
      OBVIOUS
  <1>1. CASE SegPop
        BY <1>1 DEF SegPop, Goto, TypeOK, WorkerTypes, WorkerPlaces, segVars,
           ttsVars
  <1>2. CASE SegThrow
        BY <1>2 DEF SegThrow, Throw, Goto, TypeOK, WorkerTypes, WorkerPlaces, segVars,
           ttsVars
  <1>3. CASE SegEmit
    <2>1. pc' \in [Workers -> WorkerPlaces]
          BY <1>3 DEF SegEmit, Goto, TypeOK, WorkerTypes, WorkerPlaces
    <2> QED
          BY <2>1, <1>3 DEF SegEmit, TypeOK, WorkerTypes, ttsVars
  <1>4. CASE CloseOutput("seg")
    <2>1. \E l \in WorkerPlaces : Goto("seg", l)
          BY <1>4 DEF CloseOutput, WorkerPlaces
    <2> QED
          BY <1>4, <2>1 DEF CloseOutput, Goto, TypeOK, WorkerTypes, segVars,
             ttsVars
  <1>5. CASE StopUpstream("seg")
        BY <1>5 DEF StopUpstream, Goto, TypeOK, WorkerTypes, WorkerPlaces, segVars,
           ttsVars
  <1>6. CASE RecordFailure("seg")
        BY <1>6 DEF RecordFailure, Goto, TypeOK, WorkerTypes, WorkerPlaces, segVars,
           ttsVars
  <1>7. CASE Leave("seg")
        BY <1>7 DEF Leave, Goto, TypeOK, WorkerTypes, WorkerPlaces, segVars,
           ttsVars
  <1> QED
      BY <1>1, <1>2, <1>3, <1>4, <1>5, <1>6, <1>7 DEF Seg

(* Likewise TTS, which also dates the audio of a segment. *)
LEMMA TtsTypes == TypeOK /\ Tts => WorkerTypes'
PROOF
  <1> SUFFICES ASSUME TypeOK, Tts PROVE WorkerTypes'
      OBVIOUS
  <1>1. CASE TtsPop
    <2>1. pc' \in [Workers -> WorkerPlaces]
          BY <1>1 DEF TtsPop, Goto, TypeOK, WorkerTypes, WorkerPlaces
    <2>2. cur' \in Nat
      <3>1. q["toTts"] \in Queues(Nat) /\ cur \in Nat
            BY DEF TypeOK, SharedTypes, WorkerTypes, QueueNames
      <3> QED
            BY <1>1, <3>1, PopTypes DEF TtsPop
    <2> QED
          BY <2>1, <2>2, <1>1 DEF TtsPop, TypeOK, WorkerTypes, segVars
  <1>2. CASE TtsPushStart
    <2>1. pc' \in [Workers -> WorkerPlaces]
          BY <1>2 DEF TtsPushStart, TtsAnnounce, Goto, TypeOK, WorkerTypes,
             WorkerPlaces
    <2> QED
          BY <2>1, <1>2 DEF TtsPushStart, TtsAnnounce, TypeOK, WorkerTypes,
             segVars, ttsVars
  <1>3. CASE TtsPushText
    <2>1. pc' \in [Workers -> WorkerPlaces]
          BY <1>3 DEF TtsPushText, TtsAnnounce, Goto, TypeOK, WorkerTypes,
             WorkerPlaces
    <2> QED
          BY <2>1, <1>3 DEF TtsPushText, TtsAnnounce, TypeOK, WorkerTypes,
             segVars, ttsVars
  <1>4. CASE TtsSkip
        BY <1>4 DEF TtsSkip, AfterSpeech, Goto, TypeOK, WorkerTypes, WorkerPlaces, segVars,
           ttsVars
  <1>5. CASE TtsSynthesize
    <2>1. pc' \in [Workers -> WorkerPlaces]
          BY <1>5 DEF TtsSynthesize, Goto, TypeOK, WorkerTypes, WorkerPlaces
    <2>2. left' \in Nat
          BY <1>5, SessionAssumption DEF TtsSynthesize
    <2> QED
          BY <2>1, <2>2, <1>5 DEF TtsSynthesize, TypeOK, WorkerTypes, segVars
  <1>6. CASE TtsWrite
    <2> DEFINE n == Min2(left, PcmCapa - Available)
    <2>1. pc' \in [Workers -> WorkerPlaces]
          BY <1>6 DEF TtsWrite, AfterSpeech, Goto, TypeOK, WorkerTypes, WorkerPlaces
    <2>2. left' \in Nat
      <3>1. left \in Nat /\ PcmCapa - Available \in Int
            BY SessionAssumption
            DEF TypeOK, WorkerTypes, SharedTypes, ClientTypes, Available
      <3>2. n \in Int /\ n <= left
            BY <3>1 DEF Min2
      <3>3. left' = left - n
            BY <1>6 DEF TtsWrite
      <3> QED
            BY <3>1, <3>2, <3>3
    <2>3. speech' \in [0..MaxSegments -> Int]
      <3>1. speech \in [0..MaxSegments -> Int] /\ written \in Int
            BY DEF TypeOK, WorkerTypes, SharedTypes
      <3>2. \/ speech' = [speech EXCEPT ![cur] = written]
            \/ speech' = [speech EXCEPT ![cur] = speech[cur]]
            BY <1>6 DEF TtsWrite
      <3> QED
            BY <3>1, <3>2
    <2> QED
          BY <2>1, <2>2, <2>3, <1>6 DEF TtsWrite, TypeOK, WorkerTypes, segVars
  <1>7. CASE TtsCancelled
        BY <1>7 DEF TtsCancelled, AfterSpeech, Goto, TypeOK, WorkerTypes, WorkerPlaces,
           segVars, ttsVars
  <1>8. CASE TtsThrow
        BY <1>8 DEF TtsThrow, Throw, Goto, TypeOK, WorkerTypes, WorkerPlaces, segVars,
           ttsVars
  <1>9. CASE StopUpstream("tts")
        BY <1>9 DEF StopUpstream, Goto, TypeOK, WorkerTypes, WorkerPlaces, segVars,
           ttsVars
  <1>10. CASE RecordFailure("tts")
        BY <1>10 DEF RecordFailure, Goto, TypeOK, WorkerTypes, WorkerPlaces, segVars,
           ttsVars
  <1>11. CASE Leave("tts")
        BY <1>11 DEF Leave, Goto, TypeOK, WorkerTypes, WorkerPlaces, segVars,
           ttsVars
  <1> QED
      BY <1>1, <1>2, <1>3, <1>4, <1>5, <1>6, <1>7, <1>8, <1>9, <1>10, <1>11 DEF Tts

-----------------------------------------------------------------------------
(* A queue replaced by a queue leaves the queues typed. *)
LEMMA QueueReplaced ==
    ASSUME q \in [QueueNames -> Queues(Nat)],
           NEW n \in QueueNames, NEW queue \in Queues(Nat)
    PROVE  [q EXCEPT ![n] = queue] \in [QueueNames -> Queues(Nat)]
PROOF
  OBVIOUS

(* Closing a queue or setting a cancel flag keeps the shared types. *)
LEMMA HaltTypes ==
    ASSUME SharedTypes, NEW x, Halt(x)
    PROVE  /\ q' \in [QueueNames -> Queues(Nat)]
           /\ cancelled' \in [{"llm", "tts"} -> BOOLEAN]
PROOF
  <1>1. CASE x \in QueueNames
    <2>1. Closed(q[x]) \in Queues(Nat)
          BY <1>1, QueueTypes, 0 \in Nat DEF SharedTypes
    <2> QED
          BY <1>1, <2>1, QueueReplaced DEF Halt, SharedTypes
  <1>2. CASE x \notin QueueNames
        BY <1>2 DEF Halt, SharedTypes
  <1> QED
      BY <1>1, <1>2

(* The workers keep the types of what they share with the client. *)
LEMMA WorkersKeepShared == TypeOK /\ (Llm \/ Seg \/ Tts) => SharedTypes'
PROOF
  <1> SUFFICES ASSUME TypeOK, Llm \/ Seg \/ Tts PROVE SharedTypes'
      OBVIOUS
  <1>1. SharedTypes
        BY DEF TypeOK
  <1>q. ASSUME NEW n \in QueueNames, NEW x \in Nat
        PROVE  /\ [q EXCEPT ![n] = Pushed(@, x)] \in [QueueNames -> Queues(Nat)]
               /\ [q EXCEPT ![n] = Closed(@)] \in [QueueNames -> Queues(Nat)]
               /\ ~IsEmpty(q[n]) =>
                      [q EXCEPT ![n] = Popped(@)] \in [QueueNames -> Queues(Nat)]
    <2>1. q[n] \in Queues(Nat)
          BY <1>1 DEF SharedTypes
    <2>2. Pushed(q[n], x) \in Queues(Nat) /\ Closed(q[n]) \in Queues(Nat)
          BY <2>1, QueueTypes
    <2>3. ~IsEmpty(q[n]) => Popped(q[n]) \in Queues(Nat)
          BY <2>1, PopTypes
    <2> QED
          BY <1>1, <2>2, <2>3, QueueReplaced DEF SharedTypes
  <1>n. "token" \in QueueNames /\ "toTts" \in QueueNames /\ SegmenterOut \in QueueNames
        /\ "pcmStart" \in QueueNames /\ "segOut" \in QueueNames
        BY DEF QueueNames, SegmenterOut
  <1>2. CASE \/ LlmGenerate \/ LlmThrow \/ SegThrow \/ TtsSkip \/ TtsSynthesize
             \/ TtsCancelled \/ TtsThrow
        BY <1>1, <1>2 DEF SharedTypes, LlmGenerate, LlmThrow, SegThrow, TtsSkip,
           TtsSynthesize, TtsCancelled, TtsThrow
  <1>3. CASE LlmPush
    <2>1. tokens + 1 \in Nat
          BY DEF TypeOK, WorkerTypes
    <2>2. q' \in [QueueNames -> Queues(Nat)]
          BY <1>3, <1>q, <1>n, <2>1 DEF LlmPush
    <2> QED
          BY <1>1, <1>3, <2>2 DEF SharedTypes, LlmPush
  <1>4. CASE SegPop
    <2>1. q' \in [QueueNames -> Queues(Nat)]
          BY <1>1, <1>4, <1>q, <1>n, 0 \in Nat DEF SegPop, SharedTypes
    <2> QED
          BY <1>1, <1>4, <2>1 DEF SharedTypes, SegPop
  <1>5. CASE SegEmit
    <2>1. made + 1 \in Nat
          BY DEF TypeOK, WorkerTypes
    <2>2. q' \in [QueueNames -> Queues(Nat)]
          BY <1>5, <1>q, <1>n, <2>1 DEF SegEmit
    <2> QED
          BY <1>1, <1>5, <2>2 DEF SharedTypes, SegEmit
  <1>6. CASE \E w \in Workers : CloseOutput(w)
    <2>1. q' \in [QueueNames -> Queues(Nat)]
          BY <1>6, <1>q, <1>n, 0 \in Nat DEF CloseOutput
    <2> QED
          BY <1>1, <1>6, <2>1 DEF SharedTypes, CloseOutput
  <1>7. CASE TtsPop
    <2>1. q' \in [QueueNames -> Queues(Nat)]
          BY <1>1, <1>7, <1>q, <1>n, 0 \in Nat DEF TtsPop, SharedTypes
    <2> QED
          BY <1>1, <1>7, <2>1 DEF SharedTypes, TtsPop
  <1>8. CASE TtsPushStart \/ TtsPushText
    <2>1. written \in Nat /\ cur \in Nat
          BY <1>1 DEF TypeOK, SharedTypes, WorkerTypes
    <2>2. q' \in [QueueNames -> Queues(Nat)]
          BY <1>8, <1>q, <1>n, <2>1 DEF TtsPushStart, TtsPushText, TtsAnnounce
    <2> QED
          BY <1>1, <1>8, <2>2 DEF SharedTypes, TtsPushStart, TtsPushText, TtsAnnounce
  <1>9. CASE TtsWrite
    <2>1. written' \in Nat
      <3>1. left \in Nat /\ written \in Nat /\ PcmCapa - Available \in Int
            BY SessionAssumption
            DEF TypeOK, WorkerTypes, SharedTypes, ClientTypes, Available
      <3> QED
            BY <1>9, <3>1 DEF TtsWrite, Min2
    <2> QED
          BY <1>1, <1>9, <2>1 DEF SharedTypes, TtsWrite
  <1>10. CASE \E w \in Workers : StopUpstream(w)
    <2>1. PICK w \in {"seg", "tts"} : StopUpstream(w)
          BY <1>10 DEF StopUpstream
    <2>2. /\ q' \in [QueueNames -> Queues(Nat)]
          /\ cancelled' \in [{"llm", "tts"} -> BOOLEAN]
          BY <1>1, <2>1, HaltTypes DEF StopUpstream
    <2>3. stop' \in [DOMAIN StopSteps -> Nat]
          BY <1>1, <2>1 DEF StopUpstream, SharedTypes, StopSteps
    <2> QED
          BY <1>1, <2>1, <2>2, <2>3 DEF SharedTypes, StopUpstream
  <1>11. CASE \E w \in Workers : RecordFailure(w)
        BY <1>1, <1>11 DEF SharedTypes, RecordFailure
  <1>12. CASE \E w \in Workers : Leave(w)
        BY <1>1, <1>12 DEF SharedTypes, Leave
  <1> QED
      BY <1>2, <1>3, <1>4, <1>5, <1>6, <1>7, <1>8, <1>9, <1>10, <1>11, <1>12
      DEF Llm, Seg, Tts, Workers

(* So a step of a worker keeps all types. *)
LEMMA WorkersKeepTypes == TypeOK /\ (Llm \/ Seg \/ Tts) => TypeOK'
PROOF
  <1> SUFFICES ASSUME TypeOK, Llm \/ Seg \/ Tts PROVE TypeOK'
      OBVIOUS
  <1>1. ClientTypes'
        BY WorkersLeaveClient DEF clientSide, TypeOK, ClientTypes
  <1>2. SharedTypes'
        BY WorkersKeepShared
  <1>3. WorkerTypes'
        BY LlmTypes, SegTypes, TtsTypes
  <1> QED
      BY <1>1, <1>2, <1>3 DEF TypeOK

-----------------------------------------------------------------------------
(* A fresh session is well typed, apart from the client's own variables. *)
LEMMA FreshTypes ==
    ASSUME NEW m \in AllModes \cup {"none"}, FreshSession(m)
    PROVE  /\ WorkerTypes'
           /\ q' \in [QueueNames -> Queues(Nat)] /\ written' \in Nat
           /\ running' = 0 /\ err' \in Workers \cup {NoError}
           /\ stop' \in [DOMAIN StopSteps -> Nat]
           /\ mode' = m /\ read' \in Nat /\ remainder' \in Nat
           /\ pending' \in [seg : Nat, start : Nat]
           /\ shown' \in Seq(Nat) /\ given' \in Nat
PROOF
  <1>1. EmptyQueue \in Queues(Nat)
        BY DEF EmptyQueue, Queues
  <1>2. q' \in [QueueNames -> Queues(Nat)]
        BY <1>1 DEF FreshSession
  <1>3. pending' \in [seg : Nat, start : Nat]
        BY DEF FreshSession, NoPending, NoSegment
  <1>4. WorkerTypes'
        BY SessionAssumption DEF FreshSession, WorkerTypes, WorkerPlaces, NoSegment
  <1>5. shown' \in Seq(Nat) /\ given' \in Nat
        BY DEF FreshSession
  <1> QED
      BY <1>2, <1>3, <1>4, <1>5 DEF FreshSession

(* Looking, starting to wait and returning change the client's place only. *)
LEMMA PlaceTypes ==
    ASSUME TypeOK, UNCHANGED <<workerSide, alive, mode, read, remainder, pending,
                               starting, room, shown, given>>,
           lastError' \in Workers \cup {NoError, "api"},
           call' \in AllModes \cup {"none", "isDone", "pollText", "cancel", "destroy"},
           cpc' \in {"idle", "done", "workers", "text", "pcm", "report", "begin",
                     "count", "spawn", "stop", "join", "take", "takeStart",
                     "audio", "noWorkers", "noPcm"}
    PROVE  TypeOK'
PROOF
  <1>1. ClientTypes'
        BY DEF TypeOK, ClientTypes
  <1>2. SharedTypes'
        BY DEF TypeOK, SharedTypes, workerSide
  <1>3. WorkerTypes'
        BY DEF TypeOK, WorkerTypes, workerSide, segVars, ttsVars
  <1> QED
      BY <1>1, <1>2, <1>3 DEF TypeOK

(* The begin of a call, or a call without a session, keeps all types. *)
LEMMA NewCallTypes == TypeOK /\ NewCall => TypeOK'
PROOF
  <1> SUFFICES ASSUME TypeOK, NewCall PROVE TypeOK'
      OBVIOUS
  <1>1. CASE Create
    <2>1. alive' \in BOOLEAN
          BY <1>1 DEF Create, TypeOK, ClientTypes
    <2>2. cancelled' \in [{"llm", "tts"} -> BOOLEAN]
          BY <1>1 DEF Create, TypeOK, SharedTypes
    <2>3. ClientTypes'
          BY <1>1, <2>1 DEF Create, TypeOK, ClientTypes
    <2>4. SharedTypes'
          BY <1>1, <2>2 DEF Create, TypeOK, SharedTypes
    <2>5. WorkerTypes'
          BY <1>1 DEF Create, TypeOK, WorkerTypes, segVars, ttsVars
    <2> QED
          BY <2>3, <2>4, <2>5 DEF TypeOK
  <1>2. CASE SubmitNull \/ IsDone \/ PollNothing
        BY <1>2, PlaceTypes
        DEF SubmitNull, IsDone, PollNothing, Return, TypeOK, ClientTypes
  <1>3. CASE \E m \in Modes : Submit(m)
        BY <1>3, PlaceTypes, SessionAssumption DEF Submit, TypeOK, ClientTypes
  <1>4. CASE \E c \in {"cancel", "destroy"} : Cancel(c)
        BY <1>4, PlaceTypes DEF Cancel, TypeOK, ClientTypes
  <1>5. CASE \E r \in 0..MaxRoom : PollText(r)
    <2>1. PICK r \in 0..MaxRoom : PollText(r)
          BY <1>5
    <2>2. remainder' \in Nat /\ given' \in Nat /\ room' \in Nat
      <3>1. r \in Nat /\ remainder \in Nat /\ given \in Nat
            BY SessionAssumption DEF TypeOK, ClientTypes
      <3> QED
            BY <2>1, <3>1 DEF PollText, Min2
    <2>3. ClientTypes'
          BY <2>1, <2>2 DEF PollText, Return, TypeOK, ClientTypes
    <2>4. SharedTypes'
          BY <2>1 DEF PollText, TypeOK, SharedTypes, workerSide
    <2>5. WorkerTypes'
          BY <2>1 DEF PollText, TypeOK, WorkerTypes, workerSide, segVars, ttsVars
    <2> QED
          BY <2>3, <2>4, <2>5 DEF TypeOK
  <1> QED
      BY <1>1, <1>2, <1>3, <1>4, <1>5 DEF NewCall

(* Releasing a piece of text. *)
LEMMA ReleaseTypes ==
    ASSUME TypeOK, NEW s \in Nat, Release(s)
    PROVE  /\ shown' \in Seq(Nat) /\ given' \in Nat
           /\ remainder' \in Nat /\ room' \in Nat
           /\ pending' \in [seg : Nat, start : Nat]
           /\ cpc' \in {"idle", "take"} /\ call' \in {call, "none"}
PROOF
  <1>1. given \in Nat /\ room \in Nat /\ PieceLen \in Nat /\ shown \in Seq(Nat)
        BY SessionAssumption DEF TypeOK, ClientTypes
  <1>2. given' \in Nat /\ remainder' \in Nat /\ room' \in Nat
        BY <1>1 DEF Release, Min2
  <1>3. shown' \in Seq(Nat)
        BY <1>1 DEF Release
  <1>4. pending' \in [seg : Nat, start : Nat]
        BY DEF Release, NoPending, NoSegment
  <1>5. cpc' \in {"idle", "take"} /\ call' \in {call, "none"}
        BY DEF Release, Return
  <1> QED
      BY <1>2, <1>3, <1>4, <1>5

(* A step that may release the pending segment, and else moves the client. *)
LEMMA HoldTypes ==
    ASSUME TypeOK, NEW at, NEW release, NEW hold \in {"idle", "noWorkers"},
           HoldOrRelease(at, release, hold)
    PROVE  TypeOK'
PROOF
  <1>1. SharedTypes' /\ WorkerTypes'
        BY DEF HoldOrRelease, TypeOK, SharedTypes, WorkerTypes, workerSide, segVars,
           ttsVars
  <1>2. ClientTypes'
    <2>1. CASE release
      <3>1. pending.seg \in Nat
            BY DEF TypeOK, ClientTypes
      <3>2. Release(pending.seg)
            BY <2>1 DEF HoldOrRelease
      <3> QED
            BY <3>1, <3>2, ReleaseTypes DEF HoldOrRelease, TypeOK, ClientTypes
    <2>2. CASE ~release
          BY <2>2 DEF HoldOrRelease, Return, TypeOK, ClientTypes
    <2> QED
          BY <2>1, <2>2
  <1> QED
      BY <1>1, <1>2 DEF TypeOK

(* PollText: a piece is taken, and released or made pending. *)
LEMMA TakeTextTypes == TypeOK /\ TakeText => TypeOK'
PROOF
  <1> SUFFICES ASSUME TypeOK, TakeText PROVE TypeOK'
      OBVIOUS
  <1>1. q[Out] \in Queues(Nat) /\ Out \in QueueNames
        BY DEF TypeOK, SharedTypes, Out, QueueNames
  <1>2. ~IsEmpty(q[Out]) => Head(q[Out].items) \in Nat /\ Popped(q[Out]) \in Queues(Nat)
        BY <1>1, PopTypes
  <1>3. q' \in [QueueNames -> Queues(Nat)]
    <2>1. q \in [QueueNames -> Queues(Nat)]
          BY DEF TypeOK, SharedTypes
    <2>2. q' = q \/ (~IsEmpty(q[Out]) /\ q' = [q EXCEPT ![Out] = Popped(q[Out])])
          BY DEF TakeText
    <2> QED
          BY <1>1, <1>2, <2>1, <2>2, QueueReplaced
  <1>4. SharedTypes'
        BY <1>3 DEF TakeText, TypeOK, SharedTypes
  <1>5. WorkerTypes'
        BY DEF TakeText, TypeOK, WorkerTypes, segVars, ttsVars
  <1>6. ClientTypes'
    <2>1. CASE UNCHANGED <<room, shown, given, remainder>>
      <3>1. pending' \in [seg : Nat, start : Nat]
            BY <1>2, <2>1 DEF TakeText, Release, TypeOK, ClientTypes, NoPending, NoSegment
      <3>2. /\ cpc' \in {"audio", "idle", "takeStart", "take"}
            /\ call' \in {call, "none"}
            BY DEF TakeText, Return, Release
      <3> QED
            BY <2>1, <3>1, <3>2 DEF TakeText, TypeOK, ClientTypes
    <2>2. CASE ~IsEmpty(q[Out]) /\ Release(Head(q[Out].items))
          BY <1>2, <2>2, ReleaseTypes DEF TakeText, TypeOK, ClientTypes
    <2> QED
          BY <2>1, <2>2 DEF TakeText
  <1> QED
      BY <1>4, <1>5, <1>6 DEF TypeOK

(* PollText: the pending piece gets the position of its audio. *)
LEMMA TakeStartTypes == TypeOK /\ TakeStart => TypeOK'
PROOF
  <1> SUFFICES ASSUME TypeOK, TakeStart PROVE TypeOK'
      OBVIOUS
  <1>1. q["pcmStart"] \in Queues(Nat) /\ "pcmStart" \in QueueNames
        BY DEF TypeOK, SharedTypes, QueueNames
  <1>2. ~IsEmpty(q["pcmStart"]) => /\ Head(q["pcmStart"].items) \in Nat
                                   /\ Popped(q["pcmStart"]) \in Queues(Nat)
        BY <1>1, PopTypes
  <1>3. SharedTypes'
    <2>1. q' \in [QueueNames -> Queues(Nat)]
          BY <1>1, <1>2, QueueReplaced DEF TakeStart, TypeOK, SharedTypes
    <2> QED
          BY <2>1 DEF TakeStart, TypeOK, SharedTypes
  <1>4. WorkerTypes'
        BY DEF TakeStart, TypeOK, WorkerTypes, segVars, ttsVars
  <1>5. ClientTypes'
    <2>1. pending' \in [seg : Nat, start : Nat]
          BY <1>2 DEF TakeStart, TypeOK, ClientTypes
    <2> QED
          BY <2>1 DEF TakeStart, TypeOK, ClientTypes
  <1> QED
      BY <1>3, <1>4, <1>5 DEF TypeOK

(* What a worker still to be started is, and what remains after it. *)
LEMMA RemainingTypes ==
    ASSUME starting \in Remaining
    PROVE  /\ Head(starting) \in Workers /\ Tail(starting) \in Seq(Workers)
           /\ Len(starting) # 1 => Tail(starting) \in Remaining
           /\ FirstStep(Head(starting)) \in WorkerPlaces
PROOF
  <1>1. CASE starting = <<"llm", "seg", "tts">>
        BY <1>1 DEF Remaining, Workers, FirstStep, WorkerPlaces
  <1>2. CASE starting = <<"seg", "tts">>
        BY <1>2 DEF Remaining, Workers, FirstStep, WorkerPlaces
  <1>3. CASE starting = <<"tts">>
        BY <1>3 DEF Remaining, Workers, FirstStep, WorkerPlaces
  <1>4. CASE starting = <<"seg", "llm">>
        BY <1>4 DEF Remaining, Workers, FirstStep, WorkerPlaces
  <1>5. CASE starting = <<"llm">>
        BY <1>5 DEF Remaining, Workers, FirstStep, WorkerPlaces
  <1> QED
      BY <1>1, <1>2, <1>3, <1>4, <1>5 DEF Remaining

(* The workers of a submit, all of them still to be started. *)
LEMMA StartOrderTypes ==
    ASSUME NEW m \in AllModes
    PROVE  StartOrder(m) \in Remaining /\ StartOrder(m) \in Seq(Workers)
PROOF
  <1>1. StartOrder(m) \in Remaining
        BY DEF AllModes, StartOrder, Remaining
  <1>2. /\ <<"llm", "seg", "tts">> \in Seq(Workers)
        /\ <<"seg", "llm">> \in Seq(Workers)
        /\ <<"llm">> \in Seq(Workers)
        /\ <<"tts">> \in Seq(Workers)
        BY DEF Workers
  <1>3. StartOrder(m) \in Seq(Workers)
        BY <1>2 DEF AllModes, StartOrder
  <1> QED
      BY <1>1, <1>3

(* The steps of a call in progress keep all types. *)
LEMMA InCallTypes == TypeOK /\ Phases /\ InCall => TypeOK'
PROOF
  <1> SUFFICES ASSUME TypeOK, Phases, InCall PROVE TypeOK'
      OBVIOUS
  <1>1. CASE LookWorkers \/ LookText \/ LookPcm
        BY <1>1, PlaceTypes
        DEF LookWorkers, LookText, LookPcm, Look, Return, TypeOK, ClientTypes
  <1>2. CASE Report
        BY <1>2, PlaceTypes DEF Report, TypeOK, ClientTypes, SharedTypes
  <1>3. CASE Begin
    <2>1. call \in AllModes
          BY <1>3 DEF Begin, Phases
    <2>2. FreshSession(call)
          BY <1>3 DEF Begin
    <2>3. ClientTypes'
          BY <1>3, <2>1, <2>2, FreshTypes, StartOrderTypes
          DEF Begin, TypeOK, ClientTypes
    <2>4. SharedTypes'
          BY <1>3, <2>1, <2>2, FreshTypes DEF Begin, SharedTypes
    <2>5. WorkerTypes'
          BY <2>1, <2>2, FreshTypes
    <2> QED
          BY <2>3, <2>4, <2>5 DEF TypeOK
  <1>4. CASE CountWorker
    <2>1. ClientTypes'
          BY <1>4 DEF CountWorker, TypeOK, ClientTypes
    <2>2. SharedTypes'
          BY <1>4 DEF CountWorker, TypeOK, SharedTypes
    <2>3. WorkerTypes'
          BY <1>4 DEF CountWorker, TypeOK, WorkerTypes, segVars, ttsVars
    <2> QED
          BY <2>1, <2>2, <2>3 DEF TypeOK
  <1>5. CASE SpawnWorker
    <2>1. starting \in Remaining
          BY <1>5 DEF SpawnWorker, Phases
    <2>2. ClientTypes'
          BY <1>5, <2>1, RemainingTypes DEF SpawnWorker, Return, TypeOK, ClientTypes
    <2>3. SharedTypes'
          BY <1>5 DEF SpawnWorker, TypeOK, SharedTypes
    <2>4. pc' \in [Workers -> WorkerPlaces]
          BY <1>5, <2>1, RemainingTypes DEF SpawnWorker, Goto, TypeOK, WorkerTypes
    <2>5. WorkerTypes'
          BY <1>5, <2>4 DEF SpawnWorker, TypeOK, WorkerTypes, segVars, ttsVars
    <2> QED
          BY <2>2, <2>3, <2>5 DEF TypeOK
  <1>6. CASE SpawnFails
    <2>1. ClientTypes'
          BY <1>6 DEF SpawnFails, TypeOK, ClientTypes
    <2>2. SharedTypes'
          BY <1>6 DEF SpawnFails, TypeOK, SharedTypes
    <2>3. WorkerTypes'
          BY <1>6 DEF SpawnFails, TypeOK, WorkerTypes, segVars, ttsVars
    <2> QED
          BY <2>1, <2>2, <2>3 DEF TypeOK
  <1>7. CASE StopSession
    <2>1. ClientTypes'
          BY <1>7 DEF StopSession, TypeOK, ClientTypes
    <2>2. /\ q' \in [QueueNames -> Queues(Nat)]
          /\ cancelled' \in [{"llm", "tts"} -> BOOLEAN]
          BY <1>7, HaltTypes DEF StopSession, TypeOK
    <2>3. stop' \in [DOMAIN StopSteps -> Nat]
          BY <1>7 DEF StopSession, TypeOK, SharedTypes, StopSteps
    <2>4. SharedTypes'
          BY <1>7, <2>2, <2>3 DEF StopSession, TypeOK, SharedTypes
    <2>5. WorkerTypes'
          BY <1>7 DEF StopSession, TypeOK, WorkerTypes, segVars, ttsVars
    <2> QED
          BY <2>1, <2>4, <2>5 DEF TypeOK
  <1>8. CASE Join
    <2>1. FreshSession("none")
          BY <1>8 DEF Join
    <2>2. alive' \in BOOLEAN
          BY <1>8 DEF Join
    <2>3. ClientTypes'
          BY <1>8, <2>1, <2>2, FreshTypes DEF Join, Return, TypeOK, ClientTypes
    <2>4. SharedTypes'
          BY <1>8, <2>1, FreshTypes DEF Join, TypeOK, SharedTypes
    <2>5. WorkerTypes'
          BY <2>1, FreshTypes
    <2> QED
          BY <2>3, <2>4, <2>5 DEF TypeOK
  <1>9. CASE TakeText \/ TakeStart
        BY <1>9, TakeTextTypes, TakeStartTypes
  <1>10. CASE CheckAudio \/ CheckPcm
        BY <1>10, HoldTypes DEF CheckAudio, CheckPcm
  <1>11. CASE CheckWorkers
        BY <1>11, PlaceTypes DEF CheckWorkers, Return, TypeOK, ClientTypes
  <1> QED
      BY <1>1, <1>2, <1>3, <1>4, <1>5, <1>6, <1>7, <1>8, <1>9, <1>10, <1>11 DEF InCall

(* Audio is polled no further than it was written. *)
LEMMA AudioTypes == TypeOK /\ Audio => TypeOK'
PROOF
  <1> SUFFICES ASSUME TypeOK, NEW n \in 1..Available, PollPcm(n) PROVE TypeOK'
      BY DEF Audio
  <1>1. read' \in Nat
    <2>1. read \in Nat /\ Available \in Int
          BY DEF TypeOK, ClientTypes, SharedTypes, Available
    <2> QED
          BY <2>1 DEF PollPcm
  <1>2. ClientTypes'
        BY <1>1 DEF PollPcm, TypeOK, ClientTypes
  <1>3. SharedTypes'
        BY DEF PollPcm, TypeOK, SharedTypes, workerSide
  <1>4. WorkerTypes'
        BY DEF PollPcm, TypeOK, WorkerTypes, workerSide, segVars, ttsVars
  <1> QED
      BY <1>2, <1>3, <1>4 DEF TypeOK

-----------------------------------------------------------------------------
(* The place in a call fits the call after every step. *)
LEMMA PhasesStep == TypeOK /\ Phases /\ [Next]_vars => Phases'
PROOF
  <1> SUFFICES ASSUME TypeOK, Phases, [Next]_vars PROVE Phases'
      OBVIOUS
  <1>1. CASE Llm \/ Seg \/ Tts
        BY <1>1, WorkersLeaveClient DEF clientSide, Phases
  <1>2. CASE NewCall
        BY <1>2, SessionAssumption
        DEF NewCall, Create, SubmitNull, IsDone, PollNothing, Submit, Cancel, PollText,
            Return, MayCall, Phases
  <1>3. CASE LookWorkers \/ LookText \/ LookPcm \/ Report
        BY <1>3 DEF LookWorkers, LookText, LookPcm, Look, Report, Return, Phases
  <1>4. CASE Begin
        BY <1>4, StartOrderTypes DEF Begin, FreshSession, Phases
  <1>5. CASE CountWorker \/ SpawnFails
        BY <1>5 DEF CountWorker, SpawnFails, Phases
  <1>6. CASE SpawnWorker
        BY <1>6, RemainingTypes DEF SpawnWorker, Return, Phases
  <1>7. CASE StopSession \/ Join
        BY <1>7 DEF StopSession, Join, Return, Phases
  <1>8. CASE TakeText \/ TakeStart
        BY <1>8 DEF TakeText, TakeStart, Release, Return, Phases
  <1>9. CASE CheckAudio \/ CheckWorkers \/ CheckPcm
        BY <1>9 DEF CheckAudio, CheckWorkers, CheckPcm, HoldOrRelease, Release, Return,
           Phases
  <1>10. CASE Audio
        BY <1>10 DEF Audio, PollPcm, Phases
  <1>11. CASE UNCHANGED vars
        BY <1>11 DEF vars, clientSide, Phases
  <1> QED
      BY <1>1, <1>2, <1>3, <1>4, <1>5, <1>6, <1>7, <1>8, <1>9, <1>10, <1>11
      DEF Next, InCall

(* Every step keeps all types. *)
LEMMA TypeStep == TypeOK /\ Phases /\ [Next]_vars => TypeOK'
PROOF
  <1> SUFFICES ASSUME TypeOK, Phases, [Next]_vars PROVE TypeOK'
      OBVIOUS
  <1>1. CASE UNCHANGED vars
    <2>1. ClientTypes'
          BY <1>1 DEF vars, clientSide, TypeOK, ClientTypes
    <2>2. SharedTypes'
          BY <1>1 DEF vars, TypeOK, SharedTypes
    <2>3. WorkerTypes'
          BY <1>1 DEF vars, segVars, ttsVars, TypeOK, WorkerTypes
    <2> QED
          BY <2>1, <2>2, <2>3 DEF TypeOK
  <1> QED
      BY <1>1, WorkersKeepTypes, NewCallTypes, InCallTypes, AudioTypes DEF Next

(* Every variable keeps its type, whatever the capacities and bounds. *)
THEOREM TypeCorrect == Spec => []TypeOK
PROOF
  <1>1. Init => TypeOK /\ Phases
        BY TypeInit DEF Init, Phases
  <1>2. TypeOK /\ Phases /\ [Next]_vars => TypeOK' /\ Phases'
        BY TypeStep, PhasesStep
  <1> QED
      BY <1>1, <1>2, PTL DEF Spec

-----------------------------------------------------------------------------
(* Counting the workers.  The count is right only because startWorker counts
   a worker that is off, so the invariant has to say that the workers still to
   be started are; and a submit without an earlier session looks at no count,
   so it has to say that without a session no worker runs. *)
StillOff == cpc \in {"count", "spawn"} =>
                \A i \in 1..Len(starting) : pc[starting[i]] = "off"

QuietInv ==
    /\ WorkersCounted
    /\ StillOff
    /\ QuietOnceSeen
    /\ mode = "none" => AllOff

(* A step of a worker takes a live worker to a live place, or ends it and
   uncounts it. *)
LEMMA WorkerMoves ==
    ASSUME TypeOK, Llm \/ Seg \/ Tts
    PROVE  \E w \in Workers :
             /\ pc[w] # "off"
             /\ \/ /\ \E l \in WorkerPlaces \ {"off"} : Goto(w, l)
                   /\ running' = running
                \/ Goto(w, "off") /\ running' = running - 1
PROOF
  <1> USE DEF Goto, Workers, WorkerPlaces
  <1>1. CASE Llm
        BY <1>1 DEF Llm, LlmGenerate, LlmThrow, LlmPush, CloseOutput, RecordFailure,
           Leave, Throw
  <1>2. CASE SegPop \/ SegThrow
        BY <1>2 DEF SegPop, SegThrow, Throw
  <1>3. CASE SegEmit
        BY <1>3 DEF SegEmit, TypeOK, WorkerTypes
  <1>4. CASE CloseOutput("seg") \/ StopUpstream("seg") \/ RecordFailure("seg")
             \/ Leave("seg")
        BY <1>4 DEF CloseOutput, StopUpstream, RecordFailure, Leave
  <1>5. CASE TtsPop \/ TtsPushStart \/ TtsPushText \/ TtsSkip \/ TtsSynthesize
        BY <1>5 DEF TtsPop, TtsPushStart, TtsPushText, TtsAnnounce, TtsSkip,
           TtsSynthesize, AfterSpeech
  <1>6. CASE TtsWrite \/ TtsCancelled \/ TtsThrow
        BY <1>6 DEF TtsWrite, TtsCancelled, TtsThrow, Throw, AfterSpeech
  <1>7. CASE StopUpstream("tts") \/ RecordFailure("tts") \/ Leave("tts")
        BY <1>7 DEF StopUpstream, RecordFailure, Leave
  <1> QED
      BY <1>1, <1>2, <1>3, <1>4, <1>5, <1>6, <1>7 DEF Seg, Tts

(* A worker that ends is uncounted in the same step. *)
LEMMA WorkersKeepQuiet == TypeOK /\ QuietInv /\ (Llm \/ Seg \/ Tts) => QuietInv'
PROOF
  <1> SUFFICES ASSUME TypeOK, QuietInv, Llm \/ Seg \/ Tts PROVE QuietInv'
      OBVIOUS
  <1>1. UNCHANGED clientSide
        BY WorkersLeaveClient
  <1>2. PICK w \in Workers :
             /\ pc[w] # "off"
             /\ \/ /\ \E l \in WorkerPlaces \ {"off"} : Goto(w, l)
                   /\ running' = running
                \/ Goto(w, "off") /\ running' = running - 1
        BY WorkerMoves
  <1>3. pc \in [Workers -> WorkerPlaces] /\ running \in Int
        BY DEF TypeOK, WorkerTypes, SharedTypes
  <1>4. \A v \in Workers : pc[v] = "off" => pc'[v] = "off"
        BY <1>2, <1>3 DEF Goto
  <1>5. cpc' = cpc /\ WorkersCounted
        BY <1>1 DEF clientSide, QuietInv
  <1>6. WorkersCounted'
    <2>1. CASE w = "llm"
          BY <1>2, <1>3, <1>5, <2>1
          DEF WorkersCounted, Total, Live, Goto, Workers, WorkerPlaces
    <2>2. CASE w = "seg"
          BY <1>2, <1>3, <1>5, <2>2
          DEF WorkersCounted, Total, Live, Goto, Workers, WorkerPlaces
    <2>3. CASE w = "tts"
          BY <1>2, <1>3, <1>5, <2>3
          DEF WorkersCounted, Total, Live, Goto, Workers, WorkerPlaces
    <2> QED
          BY <2>1, <2>2, <2>3 DEF Workers
  <1>7. StillOff'
    <2> SUFFICES ASSUME cpc \in {"count", "spawn"}, NEW i \in 1..Len(starting)
                 PROVE  pc'[starting[i]] = "off"
        BY <1>1 DEF StillOff, clientSide
    <2>1. starting[i] \in Workers
          BY DEF TypeOK, ClientTypes
    <2> QED
          BY <2>1, <1>4 DEF QuietInv, StillOff
  <1>8. QuietOnceSeen' /\ (mode = "none" => AllOff)'
        BY <1>1, <1>4 DEF QuietInv, QuietOnceSeen, AllOff, clientSide
  <1> QED
      BY <1>6, <1>7, <1>8 DEF QuietInv

(* Once the count is zero, and no worker is being started, all are off. *)
LEMMA ZeroMeansOff ==
    ASSUME TypeOK, WorkersCounted, running = 0, cpc # "spawn"
    PROVE  AllOff
PROOF
  BY DEF TypeOK, WorkerTypes, WorkersCounted, Total, Live, AllOff, Workers

(* A step of the client that starts no worker keeps the invariant, if all are
   off where it arrives at a place that requires it. *)
LEMMA CallsKeepQuiet ==
    ASSUME QuietInv, UNCHANGED <<pc, running, mode>>,
           cpc' \in {"text", "pcm", "report", "begin"} => AllOff,
           cpc # "spawn" /\ cpc' \notin {"count", "spawn"}
    PROVE  QuietInv'
PROOF
  <1>1. WorkersCounted'
        BY DEF QuietInv, WorkersCounted, Total, Live
  <1>2. StillOff' /\ QuietOnceSeen' /\ (mode = "none" => AllOff)'
        BY DEF QuietInv, StillOff, QuietOnceSeen, AllOff
  <1> QED
      BY <1>1, <1>2 DEF QuietInv

(* A new session, and a destroyed one, has no worker and counts none. *)
LEMMA FreshQuiet ==
    ASSUME NEW m, FreshSession(m), cpc' # "spawn"
    PROVE  WorkersCounted' /\ AllOff'
PROOF
  BY DEF FreshSession, WorkersCounted, Total, Live, AllOff, Workers

(* Every step keeps the count right. *)
LEMMA QuietStep == TypeOK /\ Phases /\ QuietInv /\ [Next]_vars => QuietInv'
PROOF
  <1> SUFFICES ASSUME TypeOK, Phases, QuietInv, [Next]_vars PROVE QuietInv'
      OBVIOUS
  <1>1. CASE Llm \/ Seg \/ Tts
        BY <1>1, WorkersKeepQuiet
  <1>2. CASE NewCall
    <2>1. UNCHANGED <<pc, running, mode>>
          BY <1>2 DEF NewCall, Create, SubmitNull, IsDone, PollNothing, Submit, Cancel,
             PollText, workerSide
    <2>2. \/ cpc' \in {cpc, "idle", "done", "workers", "stop", "take"}
          \/ mode = "none" /\ cpc' = "begin"
          BY <1>2 DEF NewCall, Create, SubmitNull, IsDone, PollNothing, Submit, Cancel,
             PollText, Return, HasSession
    <2>3. cpc \in {"idle", "done"} \/ cpc' = cpc
          BY <1>2 DEF NewCall, Create, SubmitNull, IsDone, PollNothing, Submit, Cancel,
             PollText, MayCall
    <2>4. CASE cpc \in {"idle", "done"}
          BY <2>1, <2>2, <2>4, CallsKeepQuiet DEF QuietInv
    <2>5. CASE cpc' = cpc
      <3>1. starting' = starting
            BY <1>2 DEF NewCall, Create, SubmitNull, IsDone, PollNothing, Submit,
               Cancel, PollText
      <3>2. WorkersCounted'
            BY <2>1, <2>5 DEF QuietInv, WorkersCounted, Total, Live
      <3> QED
            BY <2>1, <2>5, <3>1, <3>2 DEF QuietInv, StillOff, QuietOnceSeen, AllOff
    <2> QED
          BY <2>3, <2>4, <2>5
  <1>3. CASE LookWorkers
    <2>1. UNCHANGED <<pc, running, mode>> /\ cpc = "workers"
          /\ ((cpc' = "text" /\ running = 0) \/ cpc' = "idle")
          BY <1>3 DEF LookWorkers, Look, Return, NoWorkerRuns, workerSide
    <2>2. running = 0 => AllOff
          BY <2>1, ZeroMeansOff DEF QuietInv
    <2> QED
          BY <2>1, <2>2, CallsKeepQuiet
  <1>4. CASE LookText \/ LookPcm \/ Report
    <2>1. UNCHANGED <<pc, running, mode>> /\ cpc \in {"text", "pcm", "report"}
          /\ cpc' \in {"pcm", "report", "begin", "idle", "done"}
          BY <1>4 DEF LookText, LookPcm, Report, Look, Return, workerSide
    <2>2. AllOff
          BY <2>1 DEF QuietInv, QuietOnceSeen
    <2> QED
          BY <2>1, <2>2, CallsKeepQuiet
  <1>5. CASE Begin
    <2>1. WorkersCounted' /\ AllOff'
          BY <1>5, FreshQuiet DEF Begin
    <2>2. starting' \in Seq(Workers)
          BY <1>5, StartOrderTypes DEF Begin, Phases
    <2>3. StillOff'
          BY <2>1, <2>2 DEF StillOff, AllOff
    <2> QED
          BY <1>5, <2>1, <2>3 DEF Begin, QuietInv, QuietOnceSeen
  <1>6. CASE CountWorker
    <2>1. WorkersCounted'
      <3>1. running = Total
            BY <1>6 DEF CountWorker, QuietInv, WorkersCounted
      <3> QED
            BY <1>6, <3>1 DEF CountWorker, WorkersCounted, Total, Live
    <2> QED
          BY <1>6, <2>1 DEF CountWorker, QuietInv, StillOff, QuietOnceSeen, AllOff
  <1>7. CASE SpawnFails
    <2>1. WorkersCounted'
      <3>1. running = Total + 1
            BY <1>7 DEF SpawnFails, QuietInv, WorkersCounted
      <3> QED
            BY <1>7, <3>1 DEF SpawnFails, WorkersCounted, Total, Live
    <2> QED
          BY <1>7, <2>1 DEF SpawnFails, QuietInv, StillOff, QuietOnceSeen, AllOff
  <1>8. CASE StopSession
    <2>1. UNCHANGED <<pc, running, mode>> /\ cpc = "stop" /\ cpc' \in {"stop", "join"}
          BY <1>8 DEF StopSession
    <2> QED
          BY <2>1, CallsKeepQuiet
  <1>9. CASE Join
        BY <1>9, FreshQuiet DEF Join, Return, QuietInv, StillOff, QuietOnceSeen
  <1>10. CASE TakeText \/ TakeStart \/ CheckAudio \/ CheckWorkers \/ CheckPcm
    <2>1. UNCHANGED <<pc, running, mode>>
          /\ cpc \in {"take", "takeStart", "audio", "noWorkers", "noPcm"}
          BY <1>10 DEF TakeText, TakeStart, CheckAudio, CheckWorkers, CheckPcm,
             HoldOrRelease, workerSide
    <2>2. cpc' \in {"take", "takeStart", "audio", "noWorkers", "noPcm", "idle"}
          BY <1>10 DEF TakeText, TakeStart, CheckAudio, CheckWorkers, CheckPcm,
             HoldOrRelease, Release, Return
    <2> QED
          BY <2>1, <2>2, CallsKeepQuiet
  <1>11. CASE Audio \/ UNCHANGED vars
    <2>1. UNCHANGED <<pc, running, mode, cpc, starting>>
          BY <1>11 DEF Audio, PollPcm, workerSide, vars, clientSide
    <2>2. WorkersCounted'
          BY <2>1 DEF QuietInv, WorkersCounted, Total, Live
    <2> QED
          BY <2>1, <2>2 DEF QuietInv, StillOff, QuietOnceSeen, AllOff
  <1>12. CASE SpawnWorker
    <2>1. starting \in Remaining
          BY <1>12 DEF SpawnWorker, Phases
    <2> DEFINE w == Head(starting)
    <2>2. w \in Workers /\ FirstStep(w) \in WorkerPlaces \ {"off"}
          BY <2>1, RemainingTypes DEF FirstStep, Workers, WorkerPlaces
    <2>3. pc' = [pc EXCEPT ![w] = FirstStep(w)] /\ pc \in [Workers -> WorkerPlaces]
          BY <1>12 DEF SpawnWorker, Goto, TypeOK, WorkerTypes
    <2>4. pc[w] = "off"
          BY <1>12, <2>1 DEF SpawnWorker, QuietInv, StillOff, Remaining
    <2>5. cpc = "spawn" /\ cpc' \in {"count", "idle"} /\ running' = running
          /\ mode' = mode /\ mode # "none"
          BY <1>12 DEF SpawnWorker, Return, Phases, AllModes
    <2>6. WorkersCounted'
      <3>1. running = Total + 1
            BY <2>5 DEF QuietInv, WorkersCounted
      <3>2. CASE w = "llm"
            BY <2>2, <2>3, <2>4, <2>5, <3>1, <3>2 DEF WorkersCounted, Total, Live, Workers
      <3>3. CASE w = "seg"
            BY <2>2, <2>3, <2>4, <2>5, <3>1, <3>3 DEF WorkersCounted, Total, Live, Workers
      <3>4. CASE w = "tts"
            BY <2>2, <2>3, <2>4, <2>5, <3>1, <3>4 DEF WorkersCounted, Total, Live, Workers
      <3> QED
            BY <2>2, <3>2, <3>3, <3>4 DEF Workers
    <2>7. StillOff'
      <3>1. \A i \in 1..Len(starting) : pc[starting[i]] = "off"
            BY <2>5 DEF QuietInv, StillOff
      <3>2. starting' = Tail(starting)
            BY <1>12 DEF SpawnWorker
      <3>3. \A i \in 1..Len(Tail(starting)) :
                /\ Tail(starting)[i] \in Workers \ {w}
                /\ pc[Tail(starting)[i]] = "off"
            BY <2>1, <3>1 DEF Remaining, Workers
      <3> QED
            BY <2>3, <3>2, <3>3 DEF StillOff
    <2>8. QuietOnceSeen' /\ (mode = "none" => AllOff)'
          BY <2>5 DEF QuietOnceSeen
    <2> QED
          BY <2>6, <2>7, <2>8 DEF QuietInv
  <1> QED
      BY <1>1, <1>2, <1>3, <1>4, <1>5, <1>6, <1>7, <1>8, <1>9, <1>10, <1>11, <1>12
      DEF Next, InCall

(* At first there is no worker. *)
LEMMA InitQuiet == Init => QuietInv
PROOF
  BY DEF Init, QuietInv, WorkersCounted, Total, Live, StillOff, QuietOnceSeen, AllOff,
     Workers

(* From the moment IsDone or a submit has seen no worker, none runs. *)
THEOREM Quiet == Spec => [](QuietOnceSeen /\ WorkersCounted)
PROOF
  <1>1. Init => TypeOK /\ Phases
        BY TypeInit DEF Init, Phases
  <1>2. Init => QuietInv
        BY InitQuiet
  <1>3. TypeOK /\ Phases /\ QuietInv /\ [Next]_vars => TypeOK' /\ Phases' /\ QuietInv'
        BY TypeStep, PhasesStep, QuietStep
  <1>4. QuietInv => QuietOnceSeen /\ WorkersCounted
        BY DEF QuietInv
  <1> QED
      BY <1>1, <1>2, <1>3, <1>4, PTL DEF Spec

-----------------------------------------------------------------------------
(* What the session reports.  A worker that threw cannot end without having
   recorded a failure, and one that did not throw records none. *)
OutcomeInv ==
    /\ \A w \in Workers : threw[w] => pc[w] \in {"close", "stop", "fail", "leave", "off"}
    /\ \A w \in Workers : threw[w] /\ pc[w] \in {"leave", "off"} => err # NoError
    /\ \A w \in Workers : pc[w] \in {"stop", "fail"} => threw[w]
    /\ err # NoError => err \in Workers /\ threw[err]
    /\ cpc = "done" /\ HasSession => AllOff /\ lastError = err

(* A step of a worker that does not record a failure. *)
LEMMA WorkersKeepOutcome == TypeOK /\ OutcomeInv /\ (Llm \/ Seg \/ Tts) => OutcomeInv'
PROOF
  <1> SUFFICES ASSUME TypeOK, OutcomeInv, Llm \/ Seg \/ Tts PROVE OutcomeInv'
      OBVIOUS
  <1>1. UNCHANGED clientSide
        BY WorkersLeaveClient
  <1>2. \E w \in Workers :
          /\ pc[w] # "off"
          /\ \E l \in WorkerPlaces :
               /\ pc' = [pc EXCEPT ![w] = l]
               /\ \/ /\ threw' = threw /\ err' = err
                     /\ l \in {"leave", "off"} => ~threw[w] \/ pc[w] = "leave"
                     /\ l \in {"stop", "fail"} => threw[w]
                     /\ threw[w] => l \in {"close", "stop", "fail", "leave", "off"}
                  \/ /\ threw' = [threw EXCEPT ![w] = TRUE] /\ err' = err
                     /\ l \in {"close", "stop", "fail"}
                  \/ /\ threw' = threw /\ pc[w] = "fail" /\ l = "leave"
                     /\ err' = IF err = NoError THEN w ELSE err
    <2> USE DEF Goto, Workers, WorkerPlaces
    <2>1. CASE Llm
      <3>1. threw["llm"] => pc["llm"] \in {"close", "stop", "fail", "leave", "off"}
            BY DEF OutcomeInv
      <3>2. pc["llm"] \in {"stop", "fail"} => threw["llm"]
            BY DEF OutcomeInv
      <3> QED
            BY <2>1, <3>1, <3>2 DEF Llm, LlmGenerate, LlmThrow, LlmPush, CloseOutput,
               RecordFailure, Leave, Throw
    <2>2. CASE Seg
      <3>1. threw["seg"] => pc["seg"] \in {"close", "stop", "fail", "leave", "off"}
            BY DEF OutcomeInv
      <3>2. pc["seg"] \in {"stop", "fail"} => threw["seg"]
            BY DEF OutcomeInv
      <3> QED
            BY <2>2, <3>1, <3>2 DEF Seg, SegPop, SegThrow, SegEmit, CloseOutput,
               StopUpstream, RecordFailure, Leave, Throw
    <2>3. CASE Tts
      <3>1. threw["tts"] => pc["tts"] \in {"close", "stop", "fail", "leave", "off"}
            BY DEF OutcomeInv
      <3>2. pc["tts"] \in {"stop", "fail"} => threw["tts"]
            BY DEF OutcomeInv
      <3>3. CASE TtsPop \/ TtsPushStart \/ TtsPushText \/ TtsSkip \/ TtsSynthesize
            BY <3>1, <3>2, <3>3 DEF TtsPop, TtsPushStart, TtsPushText, TtsAnnounce,
               TtsSkip, TtsSynthesize, AfterSpeech
      <3>4. CASE TtsWrite \/ TtsCancelled \/ TtsThrow
            BY <3>1, <3>2, <3>4 DEF TtsWrite, TtsCancelled, TtsThrow, Throw, AfterSpeech
      <3>5. CASE StopUpstream("tts") \/ RecordFailure("tts") \/ Leave("tts")
            BY <3>1, <3>2, <3>5 DEF StopUpstream, RecordFailure, Leave
      <3> QED
            BY <2>3, <3>3, <3>4, <3>5 DEF Tts
    <2> QED
          BY <2>1, <2>2, <2>3
  <1>3. pc \in [Workers -> WorkerPlaces] /\ threw \in [Workers -> BOOLEAN]
        BY DEF TypeOK, WorkerTypes
  <1>4. cpc' = cpc /\ HasSession' = HasSession /\ lastError' = lastError
        BY <1>1 DEF clientSide, HasSession
  <1>5. cpc = "done" /\ HasSession => AllOff
        BY DEF OutcomeInv
  <1>6. ~AllOff
        BY <1>2 DEF AllOff
  <1>7. ~(cpc = "done" /\ HasSession)'
        BY <1>4, <1>5, <1>6
  <1>8. PICK w \in Workers, l \in WorkerPlaces :
          /\ pc' = [pc EXCEPT ![w] = l]
          /\ \/ /\ threw' = threw /\ err' = err
                /\ l \in {"leave", "off"} => ~threw[w] \/ pc[w] = "leave"
                /\ l \in {"stop", "fail"} => threw[w]
                /\ threw[w] => l \in {"close", "stop", "fail", "leave", "off"}
             \/ /\ threw' = [threw EXCEPT ![w] = TRUE] /\ err' = err
                /\ l \in {"close", "stop", "fail"}
             \/ /\ threw' = threw /\ pc[w] = "fail" /\ l = "leave"
                /\ err' = IF err = NoError THEN w ELSE err
        BY <1>2
  <1>9. \A v \in Workers : /\ threw[v] => pc[v] \in {"close", "stop", "fail", "leave", "off"}
                           /\ threw[v] /\ pc[v] \in {"leave", "off"} => err # NoError
                           /\ pc[v] \in {"stop", "fail"} => threw[v]
        BY DEF OutcomeInv
  <1>10. err # NoError => err \in Workers /\ threw[err]
         BY DEF OutcomeInv
  <1>11. \A v \in Workers : pc'[v] = IF v = w THEN l ELSE pc[v]
         BY <1>3, <1>8
  <1>12. CASE /\ threw' = threw /\ err' = err
              /\ l \in {"leave", "off"} => ~threw[w] \/ pc[w] = "leave"
              /\ l \in {"stop", "fail"} => threw[w]
              /\ threw[w] => l \in {"close", "stop", "fail", "leave", "off"}
         BY <1>3, <1>7, <1>8, <1>9, <1>10, <1>11, <1>12 DEF OutcomeInv
  <1>13. CASE /\ threw' = [threw EXCEPT ![w] = TRUE] /\ err' = err
              /\ l \in {"close", "stop", "fail"}
         BY <1>3, <1>7, <1>8, <1>9, <1>10, <1>11, <1>13 DEF OutcomeInv
  <1>14. CASE /\ threw' = threw /\ pc[w] = "fail" /\ l = "leave"
              /\ err' = IF err = NoError THEN w ELSE err
    <2>1. threw[w]
          BY <1>9, <1>14
    <2>2. err' # NoError /\ err' \in Workers /\ threw[err']
          BY <1>10, <1>14, <2>1 DEF NoError, Workers
    <2> QED
          BY <1>7, <1>9, <1>11, <1>14, <2>1, <2>2 DEF OutcomeInv
  <1> QED
      BY <1>8, <1>12, <1>13, <1>14

(* A submit in progress starts workers that have not thrown; and no call is in
   progress without a handle. *)
Startable ==
    /\ ~alive => cpc = "idle"
    /\ cpc \in {"count", "spawn"} => \A i \in 1..Len(starting) : ~threw[starting[i]]

(* Only a live worker throws. *)
LEMMA WorkersThrow ==
    TypeOK /\ (Llm \/ Seg \/ Tts) =>
        \A w \in Workers : pc[w] = "off" => threw'[w] = threw[w]
PROOF
  <1> SUFFICES ASSUME TypeOK, Llm \/ Seg \/ Tts,
                      NEW w \in Workers, pc[w] = "off"
               PROVE  threw'[w] = threw[w]
      OBVIOUS
  <1>1. threw \in [Workers -> BOOLEAN]
        BY DEF TypeOK, WorkerTypes
  <1>2. CASE Llm
        BY <1>1, <1>2 DEF Llm, LlmGenerate, LlmThrow, LlmPush, CloseOutput,
           RecordFailure, Leave, Throw, Workers
  <1>3. CASE Seg
        BY <1>1, <1>3 DEF Seg, SegPop, SegThrow, SegEmit, CloseOutput,
           StopUpstream, RecordFailure, Leave, Throw, Workers
  <1>4. CASE Tts
        BY <1>1, <1>4 DEF Tts, TtsPop, TtsPushStart, TtsPushText, TtsAnnounce,
           TtsSkip, TtsSynthesize, TtsWrite, TtsCancelled, TtsThrow,
           StopUpstream, RecordFailure, Leave, Throw, Workers
  <1> QED
      BY <1>2, <1>3, <1>4

(* Only a submit starts workers, and its session is new. *)
LEMMA StartableStep ==
    TypeOK /\ Phases /\ QuietInv /\ Startable /\ [Next]_vars => Startable'
PROOF
  <1> SUFFICES ASSUME TypeOK, Phases, QuietInv, Startable, [Next]_vars
               PROVE  Startable'
      OBVIOUS
  <1>1. CASE Llm \/ Seg \/ Tts
    <2>1. UNCHANGED <<alive, cpc, starting>>
          BY <1>1, WorkersLeaveClient DEF clientSide
    <2>2. ASSUME cpc \in {"count", "spawn"}, NEW i \in 1..Len(starting)
          PROVE  ~threw'[starting[i]]
      <3>1. starting[i] \in Workers
            BY <2>2 DEF Phases, Remaining, Workers
      <3>2. pc[starting[i]] = "off" /\ ~threw[starting[i]]
            BY <2>2 DEF QuietInv, StillOff, Startable
      <3> QED
            BY <1>1, <3>1, <3>2, WorkersThrow
    <2> QED
          BY <2>1, <2>2 DEF Startable
  <1>2. CASE Begin
    <2>1. starting' \in Remaining
          BY <1>2, StartOrderTypes DEF Begin, Phases
    <2>2. \A i \in 1..Len(starting') : starting'[i] \in Workers
          BY <2>1 DEF Remaining, Workers
    <2>3. threw' = [w \in Workers |-> FALSE]
          BY <1>2 DEF Begin, FreshSession
    <2>4. alive'
          BY <1>2 DEF Begin, Startable
    <2> QED
          BY <2>2, <2>3, <2>4 DEF Startable
  <1>3. CASE SpawnWorker
    <2>1. alive' /\ threw' = threw /\ cpc = "spawn" /\ starting' = Tail(starting)
          BY <1>3 DEF SpawnWorker, Startable
    <2>2. starting \in Remaining
          BY <1>3 DEF SpawnWorker, Phases
    <2>3. \A i \in 1..Len(starting) : ~threw[starting[i]]
          BY <2>1 DEF Startable
    <2>4. \A i \in 1..Len(Tail(starting)) : ~threw[Tail(starting)[i]]
          BY <2>2, <2>3 DEF Remaining
    <2> QED
          BY <2>1, <2>4 DEF Startable
  <1>4. CASE CountWorker
        BY <1>4 DEF CountWorker, Startable
  <1>5. CASE Join
        BY <1>5 DEF Join, Return, Startable
  <1>6. CASE NewCall
        BY <1>6 DEF NewCall, Create, SubmitNull, IsDone, PollNothing, Submit, Cancel,
           PollText, Return, MayCall, Startable
  <1>7. CASE LookWorkers \/ LookText \/ LookPcm \/ Report \/ SpawnFails \/ StopSession
        BY <1>7 DEF LookWorkers, LookText, LookPcm, Look, Report, SpawnFails,
           StopSession, Return, Startable
  <1>8. CASE TakeText \/ TakeStart \/ CheckAudio \/ CheckWorkers \/ CheckPcm
        BY <1>8 DEF TakeText, TakeStart, CheckAudio, CheckWorkers, CheckPcm,
           HoldOrRelease, Release, Return, Startable
  <1>9. CASE Audio \/ UNCHANGED vars
        BY <1>9 DEF Audio, PollPcm, workerSide, vars, clientSide, Startable
  <1> QED
      BY <1>1, <1>2, <1>3, <1>4, <1>5, <1>6, <1>7, <1>8, <1>9 DEF Next, InCall

(* Every step keeps the record of failures right. *)
LEMMA OutcomeStep ==
    TypeOK /\ Phases /\ QuietInv /\ Startable /\ OutcomeInv /\ [Next]_vars => OutcomeInv'
PROOF
  <1> SUFFICES ASSUME TypeOK, Phases, QuietInv, Startable, OutcomeInv, [Next]_vars
               PROVE  OutcomeInv'
      OBVIOUS
  <1>1. CASE Llm \/ Seg \/ Tts
        BY <1>1, WorkersKeepOutcome
  <1>2. CASE Begin \/ Join
    <2>1. PICK m : FreshSession(m)
          BY <1>2 DEF Begin, Join
    <2>2. cpc' # "done"
          BY <1>2 DEF Begin, Join, Return
    <2> QED
          BY <2>1, <2>2 DEF FreshSession, OutcomeInv, Workers, NoError
  <1>3. CASE SpawnWorker
    <2>1. starting \in Remaining
          BY <1>3 DEF SpawnWorker, Phases
    <2> DEFINE w == Head(starting)
    <2>2. w \in Workers /\ FirstStep(w) \in {"gen", "pop", "speak"}
          BY <2>1, RemainingTypes DEF FirstStep, Workers
    <2>3. pc' = [pc EXCEPT ![w] = FirstStep(w)] /\ pc \in [Workers -> WorkerPlaces]
          BY <1>3 DEF SpawnWorker, Goto, TypeOK, WorkerTypes
    <2>4. UNCHANGED <<threw, err>> /\ cpc' # "done"
          BY <1>3 DEF SpawnWorker, Return
    <2>5. ~threw[w]
          BY <1>3, <2>1 DEF SpawnWorker, Startable, Remaining
    <2> QED
          BY <2>2, <2>3, <2>4, <2>5 DEF OutcomeInv
  <1>4. CASE Report
    <2>1. AllOff /\ lastError' = err /\ UNCHANGED <<pc, threw, err>>
          BY <1>4 DEF Report, QuietInv, QuietOnceSeen, workerSide
    <2> QED
          BY <2>1 DEF OutcomeInv, AllOff
  <1>5. CASE \/ NewCall \/ LookWorkers \/ LookText \/ LookPcm \/ CountWorker
             \/ SpawnFails \/ StopSession \/ TakeText \/ TakeStart \/ CheckAudio
             \/ CheckWorkers \/ CheckPcm \/ Audio \/ UNCHANGED vars
    <2>1. UNCHANGED <<pc, threw, err>>
          BY <1>5 DEF NewCall, Create, SubmitNull, IsDone, PollNothing, Submit, Cancel,
             PollText, LookWorkers, LookText, LookPcm, Look, CountWorker, SpawnFails,
             StopSession, TakeText, TakeStart, CheckAudio, CheckWorkers, CheckPcm,
             HoldOrRelease, Audio, PollPcm, workerSide, vars
    <2>2. (cpc = "done" /\ HasSession)' => /\ cpc = "done" /\ HasSession
                                           /\ lastError' = lastError
      <3>1. CASE Create
            BY <3>1 DEF Create, Startable
      <3>2. CASE IsDone
            BY <3>2 DEF IsDone, HasSession
      <3>3. CASE NewCall /\ ~Create /\ ~IsDone
            BY <3>3 DEF NewCall, SubmitNull, PollNothing, Submit, Cancel, PollText,
               Return
      <3>4. CASE LookWorkers \/ LookText \/ LookPcm \/ CountWorker \/ SpawnFails
                 \/ StopSession
            BY <3>4 DEF LookWorkers, LookText, LookPcm, Look, CountWorker, SpawnFails,
               StopSession, Return
      <3>5. CASE TakeText \/ TakeStart \/ CheckAudio \/ CheckWorkers \/ CheckPcm
            BY <3>5 DEF TakeText, TakeStart, CheckAudio, CheckWorkers, CheckPcm,
               HoldOrRelease, Release, Return
      <3>6. CASE Audio \/ UNCHANGED vars
            BY <3>6 DEF Audio, PollPcm, HasSession, vars, clientSide
      <3> QED
            BY <1>5, <3>1, <3>2, <3>3, <3>4, <3>5, <3>6
    <2> QED
          BY <2>1, <2>2 DEF OutcomeInv, AllOff
  <1> QED
      BY <1>1, <1>2, <1>3, <1>4, <1>5 DEF Next, InCall

(* All of it, which the modules about the clients of a session carry along. *)
SessionInv == TypeOK /\ Phases /\ QuietInv /\ Startable /\ OutcomeInv

(* It holds of a program that starts. *)
LEMMA SessionInvInit == Init => SessionInv
PROOF
  <1>1. Init => TypeOK /\ Phases /\ QuietInv
        BY TypeInit, InitQuiet DEF Init, Phases
  <1>2. Init => Startable /\ OutcomeInv
        BY DEF Init, Startable, OutcomeInv, HasSession, Workers
  <1> QED
      BY <1>1, <1>2 DEF SessionInv

(* Every step keeps it. *)
LEMMA SessionInvStep == SessionInv /\ [Next]_vars => SessionInv'
PROOF
  BY TypeStep, PhasesStep, QuietStep, StartableStep, OutcomeStep DEF SessionInv

(* The record is complete when IsDone says true. *)
LEMMA OutcomeTold ==
    ASSUME OutcomeInv, cpc = "done", HasSession
    PROVE  IF \A w \in Workers : ~threw[w]
           THEN lastError = NoError
           ELSE lastError \in Workers /\ threw[lastError]
PROOF
  <1>1. AllOff /\ lastError = err
        BY DEF OutcomeInv
  <1>2. \A w \in Workers : threw[w] => err # NoError
        BY <1>1 DEF OutcomeInv, AllOff
  <1>3. err # NoError => err \in Workers /\ threw[err]
        BY DEF OutcomeInv
  <1> QED
      BY <1>1, <1>2, <1>3

(* IsDone leaves the outcome of the session in LastError. *)
THEOREM Outcome == Spec => []OutcomeReported
PROOF
  <1>1. SessionInv => OutcomeReported
        BY OutcomeTold DEF SessionInv, OutcomeReported
  <1> QED
      BY <1>1, SessionInvInit, SessionInvStep, PTL DEF Spec

-----------------------------------------------------------------------------
(* What isSessionDone establishes stays true until IsDone has returned: it
   looks at the workers first, and without a worker nothing is added to the
   buffers it looks at afterwards. *)
DrainInv ==
    /\ cpc \in {"pcm", "report"} => NoTextLeft
    /\ cpc = "report" => read = written
    /\ cpc = "done" /\ HasSession => AllOff /\ NoTextLeft /\ read = written

(* Polling audio takes nothing from an empty ring. *)
LEMMA AudioKeepsDrain ==
    TypeOK /\ DrainInv /\ Audio => DrainInv'
PROOF
  <1> SUFFICES ASSUME TypeOK, DrainInv, Audio PROVE DrainInv'
      OBVIOUS
  <1>1. PICK n \in 1..Available : PollPcm(n)
        BY DEF Audio
  <1>2. read \in Nat /\ written \in Nat
        BY DEF TypeOK, ClientTypes, SharedTypes
  <1>3. read # written
        BY <1>1, <1>2 DEF Available
  <1>4. UNCHANGED <<cpc, mode, remainder, pending, q, pc, written>>
        BY <1>1 DEF PollPcm, workerSide
  <1>5. (NoTextLeft <=> NoTextLeft') /\ (HasSession <=> HasSession')
        BY <1>4 DEF NoTextLeft, IsEmpty, Out, HasSession
  <1> QED
      BY <1>3, <1>4, <1>5 DEF DrainInv

(* Every step keeps what isSessionDone has seen. *)
LEMMA DrainStep ==
    TypeOK /\ QuietInv /\ Startable /\ DrainInv /\ [Next]_vars => DrainInv'
PROOF
  <1> SUFFICES ASSUME TypeOK, QuietInv, Startable, DrainInv, [Next]_vars
               PROVE  DrainInv'
      OBVIOUS
  <1>1. CASE Llm \/ Seg \/ Tts
    <2>1. UNCHANGED <<cpc, mode>>
          BY <1>1, WorkersLeaveClient DEF clientSide
    <2>2. ~AllOff
          BY <1>1, WorkerMoves DEF AllOff
    <2>3. cpc \notin {"pcm", "report"} /\ ~(cpc = "done" /\ HasSession)
          BY <2>2 DEF QuietInv, QuietOnceSeen, DrainInv
    <2> QED
          BY <2>1, <2>3 DEF DrainInv, HasSession
  <1>2. CASE Audio
        BY <1>2, AudioKeepsDrain
  <1>3. CASE LookText \/ LookPcm \/ Report
    <2>1. UNCHANGED <<mode, read, written, remainder, pending, q, pc>>
          BY <1>3 DEF LookText, LookPcm, Report, Look, workerSide
    <2>2. NoTextLeft <=> NoTextLeft'
          BY <2>1 DEF NoTextLeft, IsEmpty, Out
    <2>3. CASE LookText
      <3>1. cpc' \in {"pcm", "idle"} /\ (cpc' = "pcm" => NoTextLeft)
            BY <2>3 DEF LookText, Look, Return
      <3> QED
            BY <2>2, <3>1 DEF DrainInv
    <2>4. CASE LookPcm
      <3>1. cpc' \in {"report", "begin", "idle"} /\ NoTextLeft
            BY <2>4 DEF LookPcm, Look, Return, DrainInv
      <3>2. cpc' = "report" => Available = 0
            BY <2>4 DEF LookPcm, Look, Return
      <3>3. read \in Nat /\ written \in Nat
            BY DEF TypeOK, ClientTypes, SharedTypes
      <3>4. cpc' = "report" => read = written
            BY <3>2, <3>3 DEF Available
      <3> QED
            BY <2>1, <2>2, <3>1, <3>4 DEF DrainInv
    <2>5. CASE Report
      <3>1. cpc = "report" /\ cpc' = "done"
            BY <2>5 DEF Report
      <3>2. NoTextLeft /\ read = written
            BY <3>1 DEF DrainInv
      <3>3. AllOff
            BY <3>1 DEF QuietInv, QuietOnceSeen
      <3> QED
            BY <2>1, <2>2, <3>1, <3>2, <3>3 DEF DrainInv, AllOff
    <2> QED
          BY <1>3, <2>3, <2>4, <2>5
  <1>4. CASE NewCall
    <2>1. CASE Create
          BY <2>1 DEF Create, Startable, DrainInv
    <2>2. CASE IsDone
          BY <2>2 DEF IsDone, HasSession, DrainInv
    <2>3. CASE NewCall /\ ~Create /\ ~IsDone
      <3>1. cpc' \in {"idle", "workers", "begin", "stop", "take"}
            BY <2>3 DEF NewCall, SubmitNull, PollNothing, Submit, Cancel, PollText,
               Return
      <3> QED
            BY <3>1 DEF DrainInv
    <2> QED
          BY <1>4, <2>1, <2>2, <2>3
  <1>5. CASE \/ LookWorkers \/ Begin \/ CountWorker \/ SpawnWorker \/ SpawnFails
             \/ StopSession \/ Join
    <2>1. cpc' \in {"text", "idle", "count", "spawn", "stop", "join"}
          BY <1>5 DEF LookWorkers, Look, Begin, CountWorker, SpawnWorker, SpawnFails,
             StopSession, Join, Return
    <2> QED
          BY <2>1 DEF DrainInv
  <1>6. CASE TakeText \/ TakeStart \/ CheckAudio \/ CheckWorkers \/ CheckPcm
    <2>1. cpc' \in {"take", "takeStart", "audio", "noWorkers", "noPcm", "idle"}
          BY <1>6 DEF TakeText, TakeStart, CheckAudio, CheckWorkers, CheckPcm,
             HoldOrRelease, Release, Return
    <2> QED
          BY <2>1 DEF DrainInv
  <1>7. CASE UNCHANGED vars
    <2>1. UNCHANGED <<cpc, mode, read, written, remainder, pending, q, pc>>
          BY <1>7 DEF vars, clientSide
    <2> QED
          BY <2>1 DEF DrainInv, NoTextLeft, IsEmpty, Out, HasSession, AllOff
  <1> QED
      BY <1>1, <1>2, <1>3, <1>4, <1>5, <1>6, <1>7 DEF Next, InCall

(* When IsDone says true of a session, the client has taken everything. *)
THEOREM Drained == Spec => []DoneMeansDrained
PROOF
  <1>1. Init => SessionInv /\ DrainInv
        BY SessionInvInit DEF Init, DrainInv
  <1>2. SessionInv /\ DrainInv /\ [Next]_vars => SessionInv' /\ DrainInv'
        BY SessionInvStep, DrainStep DEF SessionInv
  <1>3. DrainInv => DoneMeansDrained
        BY DEF DrainInv, DoneMeansDrained, NoTextLeft, IsEmpty
  <1> QED
      BY <1>1, <1>2, <1>3, PTL DEF Spec

-----------------------------------------------------------------------------
(* Cancel flags.  A stage that throws raises them, and so does a call that is
   going to destroy the session; a submit in progress knows which call it is. *)
CancelInv ==
    /\ HasSession /\ cpc \notin {"stop", "join"} /\ (\A w \in Workers : ~threw[w])
           => ~cancelled["llm"] /\ ~cancelled["tts"]
    /\ cpc \in {"stop", "join"} => call \in AllModes \cup {"cancel", "destroy"}
    /\ cpc \in {"count", "spawn"} => call \in AllModes

(* Of the workers, only one that threw raises a flag. *)
LEMMA WorkersCancel ==
    ASSUME TypeOK, OutcomeInv, Llm \/ Seg \/ Tts
    PROVE  /\ \A w \in Workers : threw[w] => threw'[w]
           /\ cancelled' = cancelled \/ \E w \in Workers : threw'[w]
PROOF
  <1>1. threw \in [Workers -> BOOLEAN]
        BY DEF TypeOK, WorkerTypes
  <1>2. CASE Llm
        BY <1>1, <1>2 DEF Llm, LlmGenerate, LlmThrow, LlmPush, CloseOutput,
           RecordFailure, Leave, Throw
  <1>3. CASE \E w \in Workers : StopUpstream(w)
    <2>1. PICK w \in Workers : StopUpstream(w)
          BY <1>3
    <2>2. threw[w] /\ threw' = threw
          BY <2>1 DEF StopUpstream, OutcomeInv
    <2> QED
          BY <2>2
  <1>4. CASE Seg /\ ~StopUpstream("seg")
        BY <1>1, <1>4 DEF Seg, SegPop, SegThrow, SegEmit, CloseOutput,
           RecordFailure, Leave, Throw
  <1>5. CASE Tts /\ ~StopUpstream("tts")
        BY <1>1, <1>5 DEF Tts, TtsPop, TtsPushStart, TtsPushText, TtsAnnounce,
           TtsSkip, TtsSynthesize, TtsWrite, TtsCancelled, TtsThrow,
           RecordFailure, Leave, Throw
  <1> QED
      BY <1>2, <1>3, <1>4, <1>5 DEF Workers

(* Every step keeps the flags out of a session nobody stops. *)
LEMMA CancelStep == SessionInv /\ CancelInv /\ [Next]_vars => CancelInv'
PROOF
  <1> SUFFICES ASSUME SessionInv, CancelInv, [Next]_vars PROVE CancelInv'
      OBVIOUS
  <1>1. CASE Llm \/ Seg \/ Tts
    <2>1. UNCHANGED <<call, cpc, mode>>
          BY <1>1, WorkersLeaveClient DEF clientSide
    <2>2. /\ \A w \in Workers : threw[w] => threw'[w]
          /\ cancelled' = cancelled \/ \E w \in Workers : threw'[w]
          BY <1>1, WorkersCancel DEF SessionInv
    <2> QED
          BY <2>1, <2>2 DEF CancelInv, HasSession
  <1>2. CASE Create
        BY <1>2 DEF Create, SessionInv, Startable, CancelInv, HasSession
  <1>3. CASE NewCall /\ ~Create
    <2>1. UNCHANGED <<threw, cancelled, mode>>
          BY <1>3 DEF NewCall, SubmitNull, IsDone, PollNothing, Submit, Cancel,
             PollText, workerSide
    <2>2. cpc \in {"idle", "done"}
          BY <1>3 DEF NewCall, SubmitNull, IsDone, PollNothing, Submit, Cancel,
             PollText, MayCall
    <2>3. cpc' \in {"stop", "join", "count", "spawn"} =>
              cpc' = "stop" /\ call' \in {"cancel", "destroy"}
          BY <1>3 DEF NewCall, SubmitNull, IsDone, PollNothing, Submit, Cancel,
             PollText, Return
    <2> QED
          BY <2>1, <2>2, <2>3 DEF CancelInv, HasSession
  <1>4. CASE Begin
    <2>1. cancelled' = [b \in {"llm", "tts"} |-> FALSE] /\ cpc' = "count"
          BY <1>4 DEF Begin
    <2>2. call' \in AllModes
          BY <1>4 DEF Begin, SessionInv, Phases
    <2> QED
          BY <2>1, <2>2 DEF CancelInv
  <1>5. CASE Join
        BY <1>5 DEF Join, FreshSession, Return, CancelInv, HasSession
  <1>6. CASE CountWorker \/ SpawnWorker \/ SpawnFails \/ StopSession
        BY <1>6 DEF CountWorker, SpawnWorker, SpawnFails, StopSession, Return,
           CancelInv, HasSession
  <1>7. CASE LookWorkers \/ LookText \/ LookPcm \/ Report
        BY <1>7 DEF LookWorkers, LookText, LookPcm, Look, Report, Return, workerSide,
           CancelInv, HasSession
  <1>8. CASE TakeText \/ TakeStart
        BY <1>8 DEF TakeText, TakeStart, Release, Return, CancelInv, HasSession
  <1>9. CASE CheckAudio \/ CheckWorkers \/ CheckPcm
        BY <1>9 DEF CheckAudio, CheckWorkers, CheckPcm, HoldOrRelease, Release, Return,
           workerSide, CancelInv, HasSession
  <1>10. CASE Audio \/ UNCHANGED vars
        BY <1>10 DEF Audio, PollPcm, workerSide, vars, clientSide, CancelInv, HasSession
  <1> QED
      BY <1>1, <1>2, <1>3, <1>4, <1>5, <1>6, <1>7, <1>8, <1>9, <1>10
      DEF Next, InCall

(* While a session runs that nobody cancels and in which no stage failed, no
   cancel flag is up: neither an earlier Cancel nor the abort of an earlier
   session reaches into it. *)
THEOREM NoStray == Spec => []NoStrayCancel
PROOF
  <1>1. Init => SessionInv /\ CancelInv
        BY SessionInvInit DEF Init, CancelInv, HasSession
  <1>2. SessionInv /\ CancelInv /\ [Next]_vars => SessionInv' /\ CancelInv'
        BY SessionInvStep, CancelStep
  <1>3. CancelInv => NoStrayCancel
        BY DEF CancelInv, NoStrayCancel
  <1> QED
      BY <1>1, <1>2, <1>3, PTL DEF Spec

-----------------------------------------------------------------------------
(* How far each thread is in its StopSteps.  A catch block runs once, after its
   worker threw; once the client is past the flags, TTS is cancelled. *)
ClientStops == IF HasSession THEN Len(StopSteps["client"]) ELSE 2

StopInv ==
    /\ \A w \in {"seg", "tts"} :
           /\ ~threw[w] \/ pc[w] = "close" => stop[w] = 0
           /\ pc[w] = "stop" => stop[w] < Len(StopSteps[w])
    /\ cpc \notin {"stop", "join"} => stop["client"] = 0
    /\ cpc = "stop" => stop["client"] < ClientStops
    /\ cpc = "join" => stop["client"] = ClientStops
    /\ stop["client"] >= 2 => cancelled["tts"]

(* The steps of the catch block of a stage, and those of the client. *)
LEMMA StopStepsAre ==
    /\ DOMAIN StopSteps = {"client", "seg", "tts"}
    /\ Len(StopSteps["client"]) = 6
    /\ StopSteps["client"][1] = "llm" /\ StopSteps["client"][2] = "tts"
    /\ \A i \in 3..6 : StopSteps["client"][i] \in QueueNames
    /\ Len(StopSteps["seg"]) = 2 /\ Len(StopSteps["tts"]) = 3
    /\ \A w \in {"seg", "tts"}, i \in Nat :
           i < Len(StopSteps[w]) => StopSteps[w][i + 1] \in {"llm", "token", "toTts"}
    /\ \A i \in Nat : i < Len(StopSteps["seg"]) =>
           StopSteps["seg"][i + 1] \in {"llm", "token"}
PROOF
  BY DEF StopSteps, QueueNames

(* The workers keep their own part of it. *)
LEMMA WorkersStop == SessionInv /\ StopInv /\ (Llm \/ Seg \/ Tts) => StopInv'
PROOF
  <1> SUFFICES ASSUME SessionInv, StopInv, Llm \/ Seg \/ Tts PROVE StopInv'
      OBVIOUS
  <1>1. UNCHANGED <<cpc, mode>>
        BY WorkersLeaveClient DEF clientSide
  <1>2. /\ pc \in [Workers -> WorkerPlaces] /\ threw \in [Workers -> BOOLEAN]
        /\ stop \in [{"client", "seg", "tts"} -> Nat]
        /\ cancelled \in [{"llm", "tts"} -> BOOLEAN]
        BY StopStepsAre DEF SessionInv, TypeOK, WorkerTypes, SharedTypes
  <1>3. \A w \in {"seg", "tts"} :
           pc[w] \notin {"close", "stop", "fail", "leave", "off"} => stop[w] = 0
        BY DEF StopInv, SessionInv, OutcomeInv, Workers
  <1>4. CASE Llm
    <2>1. UNCHANGED <<stop, cancelled>> /\ \A w \in {"seg", "tts"} :
              pc'[w] = pc[w] /\ threw'[w] = threw[w]
          BY <1>2, <1>4 DEF Llm, LlmGenerate, LlmThrow, LlmPush, CloseOutput,
             RecordFailure, Leave, Throw, Goto, Workers
    <2> QED
          BY <1>1, <2>1 DEF StopInv, ClientStops, HasSession
  <1>5. CASE \E w \in Workers : StopUpstream(w)
    <2>1. PICK w \in {"seg", "tts"} : StopUpstream(w)
          BY <1>5 DEF StopUpstream
    <2>2. stop[w] < Len(StopSteps[w]) /\ threw[w] /\ pc[w] = "stop"
          BY <2>1 DEF StopUpstream, StopInv, SessionInv, OutcomeInv, Workers
    <2>3. /\ threw' = threw
          /\ \A v \in {"client", "seg", "tts"} :
                 stop'[v] = IF v = w THEN stop[w] + 1 ELSE stop[v]
          /\ \A v \in Workers : v # w => pc'[v] = pc[v]
          /\ pc'[w] = IF stop[w] + 1 = Len(StopSteps[w]) THEN "fail" ELSE "stop"
          BY <1>2, <2>1 DEF StopUpstream, Goto, Workers
    <2>4. cancelled["tts"] => cancelled'["tts"]
          BY <1>2, <2>1 DEF StopUpstream, Halt
    <2>5. stop[w] \in Nat /\ Len(StopSteps[w]) \in {2, 3}
          BY <1>2, StopStepsAre
    <2>6. ~(pc'[w] = "close") /\ (pc'[w] = "stop" => stop'[w] < Len(StopSteps[w]))
          BY <2>2, <2>3, <2>5
    <2> QED
          BY <1>1, <2>2, <2>3, <2>4, <2>6 DEF StopInv, ClientStops, HasSession, Workers
  <1>6. CASE Seg /\ ~StopUpstream("seg")
    <2>1. UNCHANGED <<stop, cancelled>> /\ pc'["tts"] = pc["tts"] /\ threw'["tts"] = threw["tts"]
          BY <1>2, <1>6 DEF Seg, SegPop, SegThrow, SegEmit, CloseOutput,
             RecordFailure, Leave, Throw, Goto, Workers
    <2>2. ~threw'["seg"] \/ pc'["seg"] = "close" => stop["seg"] = 0
          BY <1>2, <1>3, <1>6 DEF Seg, SegPop, SegThrow, SegEmit, CloseOutput,
             RecordFailure, Leave, Throw, Goto, Workers, StopInv
    <2>3. pc'["seg"] = "stop" => stop["seg"] < Len(StopSteps["seg"])
      <3>1. pc'["seg"] = "stop" => pc["seg"] = "close"
            BY <1>2, <1>6 DEF Seg, SegPop, SegThrow, SegEmit, CloseOutput,
               RecordFailure, Leave, Throw, Goto, Workers
      <3> QED
            BY <3>1, StopStepsAre DEF StopInv
    <2> QED
          BY <1>1, <2>1, <2>2, <2>3 DEF StopInv, ClientStops, HasSession
  <1>7. CASE Tts /\ ~StopUpstream("tts")
    <2>1. UNCHANGED <<stop, cancelled>> /\ pc'["seg"] = pc["seg"] /\ threw'["seg"] = threw["seg"]
          BY <1>2, <1>7 DEF Tts, TtsPop, TtsPushStart, TtsPushText, TtsAnnounce,
             TtsSkip, TtsSynthesize, TtsWrite, TtsCancelled, TtsThrow,
             RecordFailure, Leave, Throw, Goto, Workers
    <2>2. ~threw'["tts"] => ~threw["tts"]
          BY <1>2, <1>7 DEF Tts, TtsPop, TtsPushStart, TtsPushText, TtsAnnounce,
             TtsSkip, TtsSynthesize, TtsWrite, TtsCancelled, TtsThrow,
             RecordFailure, Leave, Throw, Goto, Workers
    <2>3. /\ pc'["tts"] # "close"
          /\ pc'["tts"] = "stop" => pc["tts"] \in {"speak", "synth"}
          BY <1>2, <1>7 DEF Tts, TtsPop, TtsPushStart, TtsPushText, TtsAnnounce,
             TtsSkip, TtsSynthesize, TtsWrite, TtsCancelled, TtsThrow, AfterSpeech,
             RecordFailure, Leave, Throw, Goto, Workers
    <2>4. pc'["tts"] = "stop" => stop["tts"] < Len(StopSteps["tts"])
          BY <1>3, <2>3, StopStepsAre
    <2> QED
          BY <1>1, <2>1, <2>2, <2>3, <2>4 DEF StopInv, ClientStops, HasSession
  <1> QED
      BY <1>4, <1>5, <1>6, <1>7 DEF Workers

(* Every step keeps count of the steps of a halt. *)
LEMMA StopStep == SessionInv /\ StopInv /\ [Next]_vars => StopInv'
PROOF
  <1> SUFFICES ASSUME SessionInv, StopInv, [Next]_vars PROVE StopInv'
      OBVIOUS
  <1>c. Len(StopSteps["client"]) = 6 /\ ClientStops \in {2, 6}
        BY StopStepsAre DEF ClientStops
  <1>1. CASE Llm \/ Seg \/ Tts
        BY <1>1, WorkersStop
  <1>2. CASE Create
    <2>1. cpc = "idle" /\ UNCHANGED <<cpc, mode, pc, threw, stop>>
          BY <1>2 DEF Create, SessionInv, Startable
    <2> QED
          BY <2>1 DEF StopInv
  <1>3. CASE NewCall /\ ~Create
    <2>1. UNCHANGED <<mode, pc, threw, stop, cancelled>>
          BY <1>3 DEF NewCall, SubmitNull, IsDone, PollNothing, Submit, Cancel,
             PollText, workerSide, segVars, ttsVars
    <2>2. cpc \in {"idle", "done"}
          BY <1>3 DEF NewCall, SubmitNull, IsDone, PollNothing, Submit, Cancel,
             PollText, MayCall
    <2>3. cpc' # "join"
          BY <1>3 DEF NewCall, SubmitNull, IsDone, PollNothing, Submit, Cancel,
             PollText, Return
    <2> QED
          BY <1>c, <2>1, <2>2, <2>3 DEF StopInv, ClientStops, HasSession
  <1>4. CASE Begin \/ Join
    <2>1. PICK m : FreshSession(m)
          BY <1>4 DEF Begin, Join
    <2>2. /\ \A t \in {"client", "seg", "tts"} : stop'[t] = 0
          /\ \A w \in {"seg", "tts"} : pc'[w] = "off"
          BY <2>1, StopStepsAre DEF FreshSession, Workers
    <2>3. cpc' \notin {"stop", "join"}
          BY <1>4 DEF Begin, Join, Return
    <2> QED
          BY <2>2, <2>3 DEF StopInv
  <1>5. CASE SpawnWorker
    <2>1. starting \in Remaining
          BY <1>5 DEF SpawnWorker, SessionInv, Phases
    <2>2. Head(starting) \in Workers /\ FirstStep(Head(starting)) \in {"gen", "pop", "speak"}
          BY <2>1, RemainingTypes DEF FirstStep, Workers
    <2>3. pc \in [Workers -> WorkerPlaces]
          BY DEF SessionInv, TypeOK, WorkerTypes
    <2>4. \A w \in {"seg", "tts"} : pc'[w] \in {pc[w], "gen", "pop", "speak"}
          BY <1>5, <2>2, <2>3 DEF SpawnWorker, Goto
    <2>5. UNCHANGED <<mode, threw, stop, cancelled>> /\ cpc = "spawn"
          /\ cpc' \in {"idle", "count"}
          BY <1>5 DEF SpawnWorker, Return
    <2> QED
          BY <2>4, <2>5 DEF StopInv
  <1>6. CASE CountWorker \/ SpawnFails
    <2>1. UNCHANGED <<mode, pc, threw, stop, cancelled>>
          /\ cpc \in {"count", "spawn"} /\ cpc' \in {"spawn", "stop"}
          BY <1>6 DEF CountWorker, SpawnFails
    <2> QED
          BY <1>c, <2>1 DEF StopInv, ClientStops, HasSession
  <1>7. CASE StopSession
    <2> DEFINE n == stop["client"]
    <2>1. n < ClientStops /\ n \in Nat /\ cpc = "stop"
          BY <1>7, StopStepsAre DEF StopSession, StopInv, SessionInv, TypeOK, SharedTypes
    <2>2. /\ stop'["client"] = n + 1
          /\ \A w \in {"seg", "tts"} : stop'[w] = stop[w]
          /\ UNCHANGED <<mode, pc, threw>>
          BY <1>7, StopStepsAre DEF StopSession, SessionInv, TypeOK, SharedTypes
    <2>3. cpc' = IF n + 1 = ClientStops THEN "join" ELSE "stop"
          BY <1>7 DEF StopSession, ClientStops
    <2>4. cancelled \in [{"llm", "tts"} -> BOOLEAN]
          BY DEF SessionInv, TypeOK, SharedTypes
    <2>5. n = 1 => cancelled'["tts"]
          BY <1>7, <2>4, StopStepsAre DEF StopSession, Halt, QueueNames
    <2>6. cancelled["tts"] => cancelled'["tts"]
          BY <1>7, <2>4 DEF StopSession, Halt
    <2>7. n + 1 >= 2 => cancelled'["tts"]
          BY <2>1, <2>5, <2>6 DEF StopInv
    <2>8. n + 1 <= ClientStops /\ (n + 1 # ClientStops => n + 1 < ClientStops)
          BY <1>c, <2>1
    <2> HIDE DEF n
    <2> QED
          BY <2>2, <2>3, <2>7, <2>8 DEF StopInv, ClientStops, HasSession
  <1>8. CASE \/ LookWorkers \/ LookText \/ LookPcm \/ Report
             \/ TakeText \/ TakeStart \/ CheckAudio \/ CheckWorkers \/ CheckPcm
    <2>1. UNCHANGED <<mode, pc, threw, stop, cancelled>> /\ cpc \notin {"stop", "join"}
          BY <1>8 DEF LookWorkers, LookText, LookPcm, Look, Report, TakeText, TakeStart,
             CheckAudio, CheckWorkers, CheckPcm, HoldOrRelease, workerSide
    <2>2. cpc' \notin {"stop", "join"}
          BY <1>8 DEF LookWorkers, LookText, LookPcm, Look, Report, TakeText, TakeStart,
             CheckAudio, CheckWorkers, CheckPcm, HoldOrRelease, Release, Return
    <2> QED
          BY <2>1, <2>2 DEF StopInv
  <1>9. CASE Audio \/ UNCHANGED vars
    <2>1. UNCHANGED <<mode, pc, threw, stop, cancelled, cpc>>
          BY <1>9 DEF Audio, PollPcm, workerSide, vars, clientSide
    <2> QED
          BY <2>1 DEF StopInv, ClientStops, HasSession
  <1> QED
      BY <1>1, <1>2, <1>3, <1>4, <1>5, <1>6, <1>7, <1>8, <1>9 DEF Next, InCall

-----------------------------------------------------------------------------
(* The workers of a session are those its submit starts, in its order. *)
StillToStart(m) ==
    CASE m = "pipeline"  -> {<<"llm", "seg", "tts">>, <<"seg", "tts">>, <<"tts">>}
      [] m = "segmented" -> {<<"seg", "llm">>, <<"llm">>}
      [] m = "raw"       -> {<<"llm">>}
      [] m = "tts"       -> {<<"tts">>}

StaffInv ==
    /\ mode = "raw" => pc["seg"] = "off" /\ pc["tts"] = "off"
    /\ mode = "segmented" => pc["tts"] = "off"
    /\ mode = "tts" => pc["llm"] = "off" /\ pc["seg"] = "off"
    /\ cpc \in {"count", "spawn"} => starting \in StillToStart(mode)

(* What a submit has still to start, step by step. *)
LEMMA StartsInOrder ==
    ASSUME NEW m \in AllModes
    PROVE  /\ StartOrder(m) \in StillToStart(m)
           /\ \A s \in StillToStart(m) :
                /\ s \in Remaining
                /\ Len(s) # 1 => Tail(s) \in StillToStart(m)
                /\ m = "raw" => Head(s) = "llm"
                /\ m = "segmented" => Head(s) # "tts"
                /\ m = "tts" => Head(s) = "tts"
PROOF
  <1>1. CASE m = "pipeline"
    <2>1. /\ StillToStart(m) = {<<"llm", "seg", "tts">>, <<"seg", "tts">>, <<"tts">>}
          /\ StartOrder(m) = <<"llm", "seg", "tts">>
          BY <1>1 DEF StillToStart, StartOrder
    <2>2. /\ Tail(<<"llm", "seg", "tts">>) = <<"seg", "tts">>
          /\ Tail(<<"seg", "tts">>) = <<"tts">> /\ Len(<<"tts">>) = 1
          OBVIOUS
    <2> QED
          BY <1>1, <2>1, <2>2 DEF Remaining
  <1>2. CASE m = "segmented"
    <2>1. /\ StillToStart(m) = {<<"seg", "llm">>, <<"llm">>}
          /\ StartOrder(m) = <<"seg", "llm">>
          BY <1>2 DEF StillToStart, StartOrder
    <2>2. /\ Tail(<<"seg", "llm">>) = <<"llm">> /\ Len(<<"llm">>) = 1
          /\ Head(<<"seg", "llm">>) = "seg" /\ Head(<<"llm">>) = "llm"
          OBVIOUS
    <2> QED
          BY <1>2, <2>1, <2>2 DEF Remaining
  <1>3. CASE m = "raw"
        BY <1>3 DEF StartOrder, StillToStart, Remaining
  <1>4. CASE m = "tts"
        BY <1>4 DEF StartOrder, StillToStart, Remaining
  <1> QED
      BY <1>1, <1>2, <1>3, <1>4 DEF AllModes

(* No step starts another worker. *)
LEMMA StaffStep == SessionInv /\ StaffInv /\ [Next]_vars => StaffInv'
PROOF
  <1> SUFFICES ASSUME SessionInv, StaffInv, [Next]_vars PROVE StaffInv'
      OBVIOUS
  <1>t. pc \in [Workers -> WorkerPlaces]
        BY DEF SessionInv, TypeOK, WorkerTypes
  <1>1. CASE Llm \/ Seg \/ Tts
    <2>1. UNCHANGED <<mode, cpc, starting>>
          BY <1>1, WorkersLeaveClient DEF clientSide
    <2>2. \A w \in Workers : pc[w] = "off" => pc'[w] = "off"
          BY <1>1, <1>t, WorkerMoves DEF Goto, SessionInv
    <2> QED
          BY <2>1, <2>2 DEF StaffInv, Workers
  <1>2. CASE Begin
    <2>1. call \in AllModes
          BY <1>2 DEF Begin, SessionInv, Phases
    <2>2. starting' = StartOrder(mode') /\ mode' \in AllModes
          /\ \A w \in Workers : pc'[w] = "off"
          BY <1>2, <2>1 DEF Begin, FreshSession
    <2> QED
          BY <2>2, StartsInOrder DEF StaffInv, Workers
  <1>3. CASE Join
        BY <1>3 DEF Join, FreshSession, Return, StaffInv
  <1>4. CASE SpawnWorker
    <2>1. mode \in AllModes /\ starting \in StillToStart(mode) /\ mode' = mode
          BY <1>4 DEF SpawnWorker, SessionInv, Phases, StaffInv
    <2>2. pc' = [pc EXCEPT ![Head(starting)] = FirstStep(Head(starting))]
          BY <1>4 DEF SpawnWorker, Goto
    <2>3. /\ mode = "raw" => Head(starting) = "llm"
          /\ mode = "segmented" => Head(starting) # "tts"
          /\ mode = "tts" => Head(starting) = "tts"
          BY <2>1, StartsInOrder
    <2>4. cpc' \in {"count", "spawn"} => starting' \in StillToStart(mode)
          BY <1>4, <2>1, StartsInOrder DEF SpawnWorker, Return
    <2> QED
          BY <1>t, <2>1, <2>2, <2>3, <2>4 DEF StaffInv, Workers
  <1>5. CASE CountWorker \/ SpawnFails \/ StopSession
        BY <1>5 DEF CountWorker, SpawnFails, StopSession, StaffInv
  <1>6. CASE NewCall
    <2>1. UNCHANGED <<mode, pc, starting>>
          BY <1>6 DEF NewCall, Create, SubmitNull, IsDone, PollNothing, Submit, Cancel,
             PollText, workerSide
    <2>2. cpc' \in {"count", "spawn"} => cpc' = cpc
          BY <1>6 DEF NewCall, Create, SubmitNull, IsDone, PollNothing, Submit, Cancel,
             PollText, Return
    <2> QED
          BY <2>1, <2>2 DEF StaffInv
  <1>7. CASE \/ LookWorkers \/ LookText \/ LookPcm \/ Report
             \/ TakeText \/ TakeStart \/ CheckAudio \/ CheckWorkers \/ CheckPcm
    <2>1. UNCHANGED <<mode, pc>>
          BY <1>7 DEF LookWorkers, LookText, LookPcm, Look, Report, TakeText, TakeStart,
             CheckAudio, CheckWorkers, CheckPcm, HoldOrRelease, workerSide
    <2>2. cpc' \notin {"count", "spawn"}
          BY <1>7 DEF LookWorkers, LookText, LookPcm, Look, Report, TakeText, TakeStart,
             CheckAudio, CheckWorkers, CheckPcm, HoldOrRelease, Release, Return
    <2> QED
          BY <2>1, <2>2 DEF StaffInv
  <1>8. CASE Audio \/ UNCHANGED vars
        BY <1>8 DEF Audio, PollPcm, workerSide, vars, clientSide, StaffInv
  <1> QED
      BY <1>1, <1>2, <1>3, <1>4, <1>5, <1>6, <1>7, <1>8 DEF Next, InCall

-----------------------------------------------------------------------------
(* Bytes.  What was copied and what did not fit add up to the pieces released;
   PollText goes on to the next piece only when no remainder is left and there
   is room, so no remainder is overwritten. *)
TextPlaces == {"take", "takeStart", "audio", "noWorkers", "noPcm"}

CopyInv ==
    /\ given + remainder = PieceLen * Len(shown)
    /\ cpc \in TextPlaces => remainder = 0 /\ room > 0 /\ HasSession

(* One piece more. *)
LEMMA OneMorePiece ==
    ASSUME NEW n \in Nat, NEW k \in Nat
    PROVE  k * (n + 1) = k * n + k
PROOF
  OBVIOUS

(* Releasing a piece into the room that is left. *)
LEMMA ReleaseCopies ==
    ASSUME TypeOK, CopyInv, remainder = 0, room > 0, NEW s, Release(s)
    PROVE  /\ given' + remainder' = PieceLen * Len(shown')
           /\ cpc' = "idle" \/ (cpc' = "take" /\ remainder' = 0 /\ room' > 0)
PROOF
  <1> DEFINE n == Min2(PieceLen, room)
  <1>1. /\ PieceLen \in Nat /\ room \in Nat /\ given \in Nat
        /\ shown \in Seq(Nat) /\ Len(shown) \in Nat
        BY SessionAssumption DEF TypeOK, ClientTypes
  <1>2. n \in Nat /\ n <= room /\ n <= PieceLen /\ (n = room \/ n = PieceLen)
        BY <1>1 DEF Min2
  <1>3. given' = given + n /\ remainder' = PieceLen - n /\ room' = room - n
        BY DEF Release
  <1>4. shown' = Append(shown, s)
        BY DEF Release
  <1>5. Len(shown') = Len(shown) + 1
        BY <1>1, <1>4
  <1>6. PieceLen * Len(shown') = PieceLen * Len(shown) + PieceLen
        BY <1>1, <1>5, OneMorePiece
  <1>7. given = PieceLen * Len(shown)
        BY <1>1 DEF CopyInv
  <1>8. given' + remainder' = PieceLen * Len(shown')
        BY <1>1, <1>2, <1>3, <1>6, <1>7
  <1>9. cpc' = "idle" \/ (cpc' = "take" /\ n # room)
        BY DEF Release, Return
  <1> QED
      BY <1>1, <1>2, <1>3, <1>8, <1>9

(* Every step copies all or keeps the rest. *)
LEMMA CopyStep == TypeOK /\ CopyInv /\ [Next]_vars => CopyInv'
PROOF
  <1> SUFFICES ASSUME TypeOK, CopyInv, [Next]_vars PROVE CopyInv'
      OBVIOUS
  <1>t. remainder \in Nat /\ given \in Nat /\ room \in Nat
        BY DEF TypeOK, ClientTypes
  <1>1. CASE Llm \/ Seg \/ Tts
        BY <1>1, WorkersLeaveClient DEF clientSide, CopyInv, HasSession
  <1>2. CASE \E r \in 0..MaxRoom : PollText(r)
    <2>1. PICK r \in 0..MaxRoom : PollText(r)
          BY <1>2
    <2> DEFINE n == Min2(remainder, r)
    <2>2. r \in Nat /\ n \in Nat /\ n <= remainder /\ n <= r /\ (n = r \/ n = remainder)
          BY <1>t, SessionAssumption DEF Min2
    <2>3. /\ remainder' = remainder - n /\ given' = given + n /\ room' = r - n
          /\ shown' = shown /\ HasSession' = HasSession /\ HasSession
          /\ cpc' = IF room' = 0 THEN "idle" ELSE "take"
          BY <2>1 DEF PollText, Return, HasSession
    <2>4. given' + remainder' = given + remainder
          BY <1>t, <2>2, <2>3
    <2>5. cpc' = "take" => remainder' = 0 /\ room' > 0
          BY <1>t, <2>2, <2>3
    <2> QED
          BY <2>3, <2>4, <2>5 DEF CopyInv, TextPlaces
  <1>3. CASE NewCall /\ ~(\E r \in 0..MaxRoom : PollText(r))
    <2>1. UNCHANGED <<given, remainder, shown, room, mode>>
          BY <1>3 DEF NewCall, Create, SubmitNull, IsDone, PollNothing, Submit, Cancel
    <2>2. cpc' = cpc \/ cpc' \notin TextPlaces
          BY <1>3 DEF NewCall, Create, SubmitNull, IsDone, PollNothing, Submit, Cancel,
             Return, TextPlaces
    <2> QED
          BY <2>1, <2>2 DEF CopyInv, HasSession
  <1>4. CASE Begin \/ Join
    <2>1. PICK m : FreshSession(m)
          BY <1>4 DEF Begin, Join
    <2>2. given' = 0 /\ remainder' = 0 /\ Len(shown') = 0
          BY <2>1 DEF FreshSession
    <2>3. cpc' \notin TextPlaces
          BY <1>4 DEF Begin, Join, Return, TextPlaces
    <2> QED
          BY <2>2, <2>3, SessionAssumption DEF CopyInv
  <1>5. CASE \/ LookWorkers \/ LookText \/ LookPcm \/ Report \/ CountWorker
             \/ SpawnWorker \/ SpawnFails \/ StopSession
    <2>1. UNCHANGED <<given, remainder, shown>>
          BY <1>5 DEF LookWorkers, LookText, LookPcm, Look, Report, CountWorker,
             SpawnWorker, SpawnFails, StopSession
    <2>2. cpc' \notin TextPlaces
          BY <1>5 DEF LookWorkers, LookText, LookPcm, Look, Report, CountWorker,
             SpawnWorker, SpawnFails, StopSession, Return, TextPlaces
    <2> QED
          BY <2>1, <2>2 DEF CopyInv
  <1>6. CASE TakeText \/ TakeStart \/ CheckAudio \/ CheckWorkers \/ CheckPcm
    <2>1. cpc \in TextPlaces /\ HasSession /\ HasSession'
          BY <1>6 DEF TakeText, TakeStart, CheckAudio, CheckWorkers, CheckPcm,
             HoldOrRelease, TextPlaces, CopyInv, HasSession
    <2>2. remainder = 0 /\ room > 0
          BY <2>1 DEF CopyInv
    <2>3. CASE \E s : Release(s)
          BY <2>1, <2>2, <2>3, ReleaseCopies DEF CopyInv, TextPlaces
    <2>4. CASE ~\E s : Release(s)
      <3>1. UNCHANGED <<given, remainder, shown, room>>
            BY <1>6, <2>4 DEF TakeText, TakeStart, CheckAudio, CheckWorkers, CheckPcm,
               HoldOrRelease
      <3> QED
            BY <2>1, <2>2, <3>1 DEF CopyInv
    <2> QED
          BY <2>3, <2>4
  <1>7. CASE Audio \/ UNCHANGED vars
        BY <1>7 DEF Audio, PollPcm, vars, clientSide, CopyInv, HasSession
  <1> QED
      BY <1>1, <1>2, <1>3, <1>4, <1>5, <1>6, <1>7 DEF Next, InCall

-----------------------------------------------------------------------------
(* Who closes the queues the text passes through.  The client closes queues
   only after the cancel flags; until then the text is numbered without a gap
   from the last producer to the client. *)
Open == stop["client"] < 2

(* The stage that numbers the text, and the queue it numbers it into. *)
Feeder == IF mode = "raw" THEN "llm" ELSE "seg"
Feed == IF mode = "raw" THEN "token" ELSE SegmenterOut

Ended == {"stop", "fail", "leave", "off"}
Started(w) == cpc \in {"count", "spawn"} => \A i \in 1..Len(starting) : starting[i] # w

ClosingInv ==
    Open =>
        /\ mode = "pipeline" => ~q["segOut"].closed /\ ~q["pcmStart"].closed
        /\ mode \in AllModes \ {"tts"} /\ q[Feed].closed =>
               \/ mode = "pipeline" /\ threw["tts"]
               \/ pc[Feeder] \in Ended /\ Started(Feeder)

(* A queue is closed by the worker that fills it, at its end, or by a stage
   that failed, upstream of it. *)
LEMMA WorkersClose ==
    ASSUME SessionInv, StopInv, Llm \/ Seg \/ Tts,
           NEW n \in QueueNames, q'[n].closed
    PROVE  \/ q[n].closed
           \/ n = "token" /\ pc["llm"] = "close" /\ pc'["llm"] \in Ended
           \/ n = SegmenterOut /\ pc["seg"] = "close" /\ pc'["seg"] \in Ended
           \/ n = "token" /\ pc["seg"] = "stop"
           \/ n \in {"token", "toTts"} /\ pc["tts"] = "stop"
PROOF
  <1>t. /\ pc \in [Workers -> WorkerPlaces]
        /\ q \in [QueueNames -> Queues(Nat)]
        /\ \A m \in QueueNames : q[m] \in Queues(Nat)
        BY DEF SessionInv, TypeOK, WorkerTypes, SharedTypes
  <1>1. ASSUME NEW m \in QueueNames, NEW queue, q' = [q EXCEPT ![m] = queue],
               queue.closed => q[m].closed
        PROVE  q[n].closed
        BY <1>t, <1>1
  <1>2. ASSUME NEW queue \in Queues(Nat), NEW x
        PROVE  /\ Pushed(queue, x).closed => queue.closed
               /\ Popped(queue).closed => queue.closed
        BY DEF Pushed, Popped, Queues
  <1>3. CASE UNCHANGED q
        BY <1>3
  <1>n. "token" \in QueueNames /\ "toTts" \in QueueNames /\ SegmenterOut \in QueueNames
        /\ "pcmStart" \in QueueNames /\ "segOut" \in QueueNames
        BY DEF QueueNames, SegmenterOut
  <1>4. CASE LlmPush
        BY <1>1, <1>2, <1>4, <1>n, <1>t DEF LlmPush
  <1>5. CASE SegPop
        BY <1>1, <1>2, <1>3, <1>5, <1>n, <1>t DEF SegPop
  <1>6. CASE SegEmit
        BY <1>1, <1>2, <1>6, <1>n, <1>t DEF SegEmit
  <1>7. CASE TtsPop
        BY <1>1, <1>2, <1>3, <1>7, <1>n, <1>t DEF TtsPop
  <1>8. CASE TtsPushStart \/ TtsPushText
        BY <1>1, <1>2, <1>8, <1>n, <1>t DEF TtsPushStart, TtsPushText, TtsAnnounce
  <1>9. CASE \E w \in Workers : CloseOutput(w)
    <2>1. PICK w \in {"llm", "seg"} : CloseOutput(w)
          BY <1>9 DEF CloseOutput
    <2>2. pc[w] = "close" /\ pc'[w] \in Ended
          BY <1>t, <2>1 DEF CloseOutput, Goto, Ended, Workers
    <2>3. \A m \in QueueNames :
              m # (IF w = "llm" THEN "token" ELSE SegmenterOut) => q'[m] = q[m]
          BY <1>t, <2>1 DEF CloseOutput
    <2> QED
          BY <2>1, <2>2, <2>3
  <1>10. CASE \E w \in Workers : StopUpstream(w)
    <2>1. PICK w \in {"seg", "tts"} : StopUpstream(w)
          BY <1>10 DEF StopUpstream
    <2>2. pc[w] = "stop" /\ stop[w] < Len(StopSteps[w]) /\ stop[w] \in Nat
          BY <2>1, StopStepsAre DEF StopUpstream, StopInv, SessionInv, TypeOK, SharedTypes
    <2> DEFINE x == StopSteps[w][stop[w] + 1]
    <2>3. x \in {"llm", "token", "toTts"} /\ (w = "seg" => x \in {"llm", "token"})
          BY <2>2, StopStepsAre
    <2>4. Halt(x)
          BY <2>1 DEF StopUpstream
    <2>5. q' = q \/ (x \in QueueNames /\ \A m \in QueueNames : m # x => q'[m] = q[m])
          BY <1>t, <2>4 DEF Halt
    <2> QED
          BY <2>2, <2>3, <2>5 DEF QueueNames
  <1>11. CASE \/ LlmGenerate \/ LlmThrow \/ SegThrow \/ TtsSkip \/ TtsSynthesize
              \/ TtsWrite \/ TtsCancelled \/ TtsThrow
              \/ \E w \in Workers : RecordFailure(w) \/ Leave(w)
    <2>1. UNCHANGED q
          BY <1>11 DEF LlmGenerate, LlmThrow, SegThrow, TtsSkip, TtsSynthesize,
             TtsWrite, TtsCancelled, TtsThrow, RecordFailure, Leave
    <2> QED
          BY <2>1
  <1> QED
      BY <1>4, <1>5, <1>6, <1>7, <1>8, <1>9, <1>10, <1>11 DEF Llm, Seg, Tts, Workers

(* A worker that has ended its work does not take it up again. *)
LEMMA WorkersEnd ==
    ASSUME SessionInv, Llm \/ Seg \/ Tts, NEW w \in Workers, pc[w] \in Ended
    PROVE  pc'[w] \in Ended
PROOF
  <1>1. pc \in [Workers -> WorkerPlaces]
        BY DEF SessionInv, TypeOK, WorkerTypes
  <1>2. CASE Llm
        BY <1>1, <1>2 DEF Llm, LlmGenerate, LlmThrow, LlmPush, CloseOutput,
           RecordFailure, Leave, Throw, Goto, Workers, Ended
  <1>3. CASE Seg
        BY <1>1, <1>3 DEF Seg, SegPop, SegThrow, SegEmit, CloseOutput,
           StopUpstream, RecordFailure, Leave, Throw, Goto, Workers, Ended
  <1>4. CASE Tts
        BY <1>1, <1>4 DEF Tts, TtsPop, TtsPushStart, TtsPushText, TtsAnnounce,
           TtsSkip, TtsSynthesize, TtsWrite, TtsCancelled, TtsThrow,
           StopUpstream, RecordFailure, Leave, Throw, Goto, Workers, Ended
  <1> QED
      BY <1>2, <1>3, <1>4

(* A step that closes nothing, starts nothing and fails nothing. *)
LEMMA ClosingKept ==
    ASSUME ClosingInv, UNCHANGED <<mode, pc, threw>>, Open' => Open,
           Open => \A n \in QueueNames : q'[n].closed => q[n].closed,
           cpc' \in {"count", "spawn"} => cpc \in {"count", "spawn"} /\ starting' = starting
    PROVE  ClosingInv'
PROOF
  <1>1. Feed' = Feed /\ Feeder' = Feeder /\ (Started(Feeder) => Started(Feeder)')
        BY DEF Feed, Feeder, SegmenterOut, Started
  <1>2. Feed \in QueueNames /\ "segOut" \in QueueNames /\ "pcmStart" \in QueueNames
        BY DEF Feed, SegmenterOut, QueueNames
  <1> QED
      BY <1>1, <1>2 DEF ClosingInv

(* The workers do not touch the client's count. *)
LEMMA WorkersLeaveStop ==
    ASSUME SessionInv, Llm \/ Seg \/ Tts
    PROVE  stop'["client"] = stop["client"]
PROOF
  <1>1. stop \in [{"client", "seg", "tts"} -> Nat]
        BY StopStepsAre DEF SessionInv, TypeOK, SharedTypes
  <1>2. stop' = stop \/ \E w \in {"seg", "tts"} : stop' = [stop EXCEPT ![w] = stop[w] + 1]
    <2>1. CASE Llm
          BY <2>1 DEF Llm, LlmGenerate, LlmThrow, LlmPush, CloseOutput,
             RecordFailure, Leave
    <2>2. CASE Seg
          BY <2>2 DEF Seg, SegPop, SegThrow, SegEmit, CloseOutput,
             StopUpstream, RecordFailure, Leave
    <2>3. CASE Tts
          BY <2>3 DEF Tts, TtsPop, TtsPushStart, TtsPushText, TtsAnnounce,
             TtsSkip, TtsSynthesize, TtsWrite, TtsCancelled, TtsThrow,
             StopUpstream, RecordFailure, Leave
    <2> QED
          BY <2>1, <2>2, <2>3
  <1> QED
      BY <1>1, <1>2

(* The workers close their queues as they end, or because a stage failed. *)
LEMMA WorkersKeepClosing ==
    ASSUME SessionInv, StopInv, StaffInv, ClosingInv, Llm \/ Seg \/ Tts
    PROVE  ClosingInv'
PROOF
  <1>1. UNCHANGED <<mode, cpc, starting>>
        BY WorkersLeaveClient DEF clientSide
  <1>2. Feed' = Feed /\ Feeder' = Feeder /\ SegmenterOut' = SegmenterOut
        BY <1>1 DEF Feed, Feeder, SegmenterOut
  <1>3. stop'["client"] = stop["client"]
        BY WorkersLeaveStop
  <1>4. \A w \in Workers : threw[w] => threw'[w]
        BY WorkersCancel DEF SessionInv
  <1>5. \A w \in Workers : pc[w] = "stop" => threw[w]
        BY DEF SessionInv, OutcomeInv
  <1>6. \A w \in Workers : pc[w] # "off" => Started(w)
        BY DEF SessionInv, QuietInv, StillOff, Started
  <1>7. Started(Feeder) => Started(Feeder)'
        BY <1>1, <1>2 DEF Started
  <1>8. SUFFICES ASSUME Open PROVE ClosingInv'
        BY <1>3 DEF ClosingInv, Open
  <1>9. ASSUME mode = "pipeline"
        PROVE  ~q'["segOut"].closed /\ ~q'["pcmStart"].closed
    <2>1. "segOut" \in QueueNames /\ "pcmStart" \in QueueNames /\ SegmenterOut = "toTts"
          BY <1>9 DEF QueueNames, SegmenterOut
    <2> QED
          BY <1>8, <1>9, <2>1, WorkersClose DEF ClosingInv
  <1>10. ASSUME mode \in AllModes \ {"tts"}, q'[Feed].closed
         PROVE  \/ mode = "pipeline" /\ threw'["tts"]
                \/ pc'[Feeder] \in Ended /\ Started(Feeder)'
    <2>1. Feed \in QueueNames /\ Feeder \in Workers
          BY DEF Feed, Feeder, SegmenterOut, QueueNames, Workers
    <2>2. CASE q[Feed].closed
      <3>1. CASE mode = "pipeline" /\ threw["tts"]
            BY <1>4, <3>1 DEF Workers
      <3>2. CASE pc[Feeder] \in Ended /\ Started(Feeder)
            BY <1>7, <2>1, <3>2, WorkersEnd
      <3> QED
            BY <1>8, <1>10, <2>2, <3>1, <3>2 DEF ClosingInv
    <2>3. CASE ~q[Feed].closed
      <3>1. \/ Feed = "token" /\ pc["llm"] = "close" /\ pc'["llm"] \in Ended
            \/ Feed = SegmenterOut /\ pc["seg"] = "close" /\ pc'["seg"] \in Ended
            \/ Feed = "token" /\ pc["seg"] = "stop"
            \/ Feed \in {"token", "toTts"} /\ pc["tts"] = "stop"
            BY <1>10, <2>1, <2>3, WorkersClose
      <3>2. CASE mode = "raw"
        <4>1. Feed = "token" /\ Feeder = "llm" /\ pc["seg"] = "off" /\ pc["tts"] = "off"
              BY <3>2 DEF Feed, Feeder, StaffInv
        <4>2. pc["llm"] = "close" /\ pc'["llm"] \in Ended
              BY <3>1, <4>1 DEF SegmenterOut
        <4> QED
              BY <1>6, <1>7, <4>1, <4>2 DEF Workers
      <3>3. CASE mode = "segmented"
        <4>1. Feed = "segOut" /\ Feeder = "seg"
              BY <3>3 DEF Feed, Feeder, SegmenterOut
        <4>2. pc["seg"] = "close" /\ pc'["seg"] \in Ended
              BY <3>1, <4>1
        <4> QED
              BY <1>6, <1>7, <4>1, <4>2 DEF Workers
      <3>4. CASE mode = "pipeline"
        <4>1. Feed = "toTts" /\ Feeder = "seg"
              BY <3>4 DEF Feed, Feeder, SegmenterOut
        <4>2. CASE pc["seg"] = "close" /\ pc'["seg"] \in Ended
              BY <1>6, <1>7, <4>1, <4>2 DEF Workers
        <4>3. CASE pc["tts"] = "stop"
              BY <1>4, <1>5, <3>4, <4>3 DEF Workers
        <4> QED
              BY <3>1, <4>1, <4>2, <4>3
      <3> QED
            BY <1>10, <3>2, <3>3, <3>4 DEF AllModes
    <2> QED
          BY <2>2, <2>3
  <1> QED
      BY <1>1, <1>2, <1>9, <1>10 DEF ClosingInv

(* Every step keeps the account of who closed what. *)
LEMMA ClosingStep ==
    SessionInv /\ StopInv /\ StaffInv /\ ClosingInv /\ [Next]_vars => ClosingInv'
PROOF
  <1> SUFFICES ASSUME SessionInv, StopInv, StaffInv, ClosingInv, [Next]_vars
               PROVE  ClosingInv'
      OBVIOUS
  <1>t. q \in [QueueNames -> Queues(Nat)] /\ pc \in [Workers -> WorkerPlaces]
        /\ stop \in [{"client", "seg", "tts"} -> Nat]
        BY StopStepsAre DEF SessionInv, TypeOK, SharedTypes, WorkerTypes
  <1>1. CASE Llm \/ Seg \/ Tts
        BY <1>1, WorkersKeepClosing
  <1>2. CASE Begin \/ Join
    <2>1. PICK m : FreshSession(m)
          BY <1>2 DEF Begin, Join
    <2>2. \A n \in QueueNames : ~q'[n].closed
          BY <2>1 DEF FreshSession, EmptyQueue
    <2>3. Feed' \in QueueNames /\ "segOut" \in QueueNames /\ "pcmStart" \in QueueNames
          BY DEF Feed, SegmenterOut, QueueNames
    <2> QED
          BY <2>2, <2>3 DEF ClosingInv
  <1>3. CASE SpawnWorker
    <2>1. starting \in Remaining /\ cpc = "spawn"
          BY <1>3 DEF SpawnWorker, SessionInv, Phases
    <2> DEFINE w == Head(starting)
    <2>2. pc' = [pc EXCEPT ![w] = FirstStep(w)] /\ UNCHANGED <<mode, threw, q, stop>>
          /\ starting' = Tail(starting)
          BY <1>3 DEF SpawnWorker, Goto
    <2>3. Feed' = Feed /\ Feeder' = Feeder
          BY <2>2 DEF Feed, Feeder, SegmenterOut
    <2>4. ASSUME Started(Feeder)
          PROVE  Feeder # w /\ Started(Feeder)'
      <3>1. \A i \in 1..Len(starting) : starting[i] # Feeder
            BY <2>1, <2>4 DEF Started
      <3>2. w # Feeder /\ \A i \in 1..Len(Tail(starting)) : Tail(starting)[i] # Feeder
            BY <2>1, <3>1 DEF Remaining
      <3> QED
            BY <2>2, <2>3, <3>2 DEF Started
    <2>5. pc[Feeder] \in Ended /\ Feeder # w => pc'[Feeder] \in Ended
          BY <1>t, <2>2
    <2> QED
          BY <2>2, <2>3, <2>4, <2>5 DEF ClosingInv, Open
  <1>4. CASE StopSession
    <2>1. stop["client"] \in Nat /\ stop'["client"] = stop["client"] + 1
          BY <1>t, <1>4 DEF StopSession
    <2>2. Open' => stop["client"] = 0
          BY <2>1 DEF Open
    <2>3. Open' => UNCHANGED q
          BY <1>4, <2>2, StopStepsAre DEF StopSession, Halt, QueueNames
    <2>4. UNCHANGED <<mode, pc, threw>> /\ cpc' \in {"stop", "join"}
          BY <1>4 DEF StopSession
    <2> SUFFICES ASSUME Open' PROVE ClosingInv'
        BY DEF ClosingInv
    <2>5. Open
          BY <2>2 DEF Open
    <2> QED
          BY <2>3, <2>4, <2>5, ClosingKept
  <1>5. CASE TakeText \/ TakeStart
    <2>1. \A n \in QueueNames : q'[n].closed => q[n].closed
      <3>1. \A n \in QueueNames : Popped(q[n]).closed = q[n].closed
            BY <1>t DEF Popped, Queues
      <3>2. Out \in QueueNames /\ "pcmStart" \in QueueNames
            BY DEF Out, QueueNames
      <3>3. \/ q' = q \/ q' = [q EXCEPT ![Out] = Popped(q[Out])]
            \/ q' = [q EXCEPT !["pcmStart"] = Popped(q["pcmStart"])]
            BY <1>5 DEF TakeText, TakeStart
      <3> QED
            BY <1>t, <3>1, <3>2, <3>3
    <2>2. UNCHANGED <<mode, pc, threw, stop>>
          BY <1>5 DEF TakeText, TakeStart
    <2>3. cpc' \notin {"count", "spawn"}
          BY <1>5 DEF TakeText, TakeStart, Release, Return
    <2> QED
          BY <2>1, <2>2, <2>3, ClosingKept DEF Open
  <1>6. CASE \/ LookWorkers \/ LookText \/ LookPcm \/ Report \/ CountWorker \/ SpawnFails
             \/ CheckAudio \/ CheckWorkers \/ CheckPcm
    <2>1. UNCHANGED <<mode, pc, threw, stop, q>>
          BY <1>6 DEF LookWorkers, LookText, LookPcm, Look, Report, CountWorker, SpawnFails,
             CheckAudio, CheckWorkers, CheckPcm, HoldOrRelease, workerSide
    <2>2. cpc' \in {"count", "spawn"} => cpc \in {"count", "spawn"} /\ starting' = starting
          BY <1>6 DEF LookWorkers, LookText, LookPcm, Look, Report, CountWorker, SpawnFails,
             CheckAudio, CheckWorkers, CheckPcm, HoldOrRelease, Release, Return
    <2> QED
          BY <2>1, <2>2, ClosingKept DEF Open
  <1>7. CASE NewCall \/ Audio \/ UNCHANGED vars
    <2>1. UNCHANGED <<mode, pc, threw, stop, q>>
          BY <1>7 DEF NewCall, Create, SubmitNull, IsDone, PollNothing, Submit, Cancel,
             PollText, Audio, PollPcm, workerSide, vars, clientSide
    <2>2. cpc' \in {"count", "spawn"} => cpc' = cpc /\ starting' = starting
          BY <1>7 DEF NewCall, Create, SubmitNull, IsDone, PollNothing, Submit, Cancel,
             PollText, Audio, PollPcm, Return, vars, clientSide
    <2> QED
          BY <2>1, <2>2, ClosingKept DEF Open
  <1> QED
      BY <1>1, <1>2, <1>3, <1>4, <1>5, <1>6, <1>7 DEF Next, InCall

-----------------------------------------------------------------------------
(* The text between its producer and the client.  Reading from the client
   upstream, the pieces are numbered without a gap: those released, the one
   pending, those queued for the client, the one TTS is announcing, and those
   queued for TTS. *)
Consecutive(items, n) == \A i \in 1..Len(items) : items[i] = n + i

InHand == IF pending = NoPending THEN 0 ELSE 1
AtTts == IF pc["tts"] \in {"start", "out"} THEN 1 ELSE 0
Taken == Len(shown) + InHand
ForClient == Len(q[Out].items)
ForTts == Len(q["toTts"].items)
Sent == Taken + ForClient
Behind == IF mode = "pipeline" THEN AtTts + ForTts ELSE 0

(* TTS failed: what the segmenter still makes goes nowhere. *)
Cut == mode = "pipeline" /\ q["toTts"].closed /\ threw["tts"]

Chain ==
    /\ pending # NoPending => pending.seg = Len(shown) + 1
    /\ Consecutive(q[Out].items, Taken)
    /\ mode = "pipeline" =>
           /\ AtTts = 1 => cur = Sent + 1
           /\ Consecutive(q["toTts"].items, Sent + AtTts)
    /\ Sent + Behind <= Produced
    /\ Sent + Behind = Produced \/ Cut

ChainInv ==
    /\ TextInOrder
    /\ pending # NoPending => mode = "pipeline"
    /\ cpc \in TextPlaces \ {"take"} => pending # NoPending
    /\ Open => Chain

(* The next number may be appended. *)
LEMMA ConsecutivePush ==
    ASSUME NEW items \in Seq(Nat), NEW n \in Nat, Consecutive(items, n),
           NEW x \in Nat, x = n + Len(items) + 1
    PROVE  Consecutive(Append(items, x), n) /\ Len(Append(items, x)) = Len(items) + 1
PROOF
  BY DEF Consecutive

(* The first number is the next one to come, and the others follow it. *)
LEMMA ConsecutivePop ==
    ASSUME NEW items \in Seq(Nat), NEW n \in Nat, Consecutive(items, n), items # <<>>
    PROVE  /\ Head(items) = n + 1
           /\ Consecutive(Tail(items), n + 1)
           /\ Len(Tail(items)) = Len(items) - 1
PROOF
  <1>1. Len(items) \in Nat /\ Len(items) > 0
        OBVIOUS
  <1>2. Head(items) = n + 1
        BY <1>1 DEF Consecutive
  <1>3. ASSUME NEW i \in 1..Len(Tail(items)) PROVE Tail(items)[i] = n + 1 + i
    <2>1. Tail(items)[i] = items[i + 1] /\ i + 1 \in 1..Len(items)
          BY <1>1
    <2> QED
          BY <2>1 DEF Consecutive
  <1> QED
      BY <1>1, <1>2, <1>3 DEF Consecutive

(* The counts are numbers. *)
LEMMA CountTypes ==
    ASSUME TypeOK
    PROVE  /\ InHand \in {0, 1} /\ AtTts \in {0, 1}
           /\ Len(shown) \in Nat /\ Taken \in Nat /\ Sent \in Nat
           /\ ForClient \in Nat /\ ForTts \in Nat /\ AtTts \in Nat /\ InHand \in Nat
           /\ Behind \in Nat /\ Produced \in Nat
           /\ \A n \in QueueNames : /\ q[n].items \in Seq(Nat) /\ Len(q[n].items) \in Nat
                                    /\ q[n].closed \in BOOLEAN
           /\ Out \in QueueNames /\ "toTts" \in QueueNames
           /\ "segOut" \in QueueNames /\ "pcmStart" \in QueueNames
PROOF
  <1>1. \A n \in QueueNames : /\ q[n].items \in Seq(Nat) /\ Len(q[n].items) \in Nat
                              /\ q[n].closed \in BOOLEAN
        BY DEF TypeOK, SharedTypes, Queues
  <1>2. /\ Out \in QueueNames /\ "toTts" \in QueueNames
        /\ "segOut" \in QueueNames /\ "pcmStart" \in QueueNames
        BY DEF Out, QueueNames
  <1>3. shown \in Seq(Nat) /\ tokens \in Nat /\ made \in Nat
        BY DEF TypeOK, ClientTypes, WorkerTypes
  <1>4. InHand \in {0, 1} /\ AtTts \in {0, 1} /\ Len(shown) \in Nat /\ Produced \in Nat
        BY <1>3 DEF InHand, AtTts, Produced
  <1>5. ForClient \in Nat /\ ForTts \in Nat
        BY <1>1, <1>2 DEF ForClient, ForTts
  <1>6. InHand \in Nat /\ AtTts \in Nat
        BY <1>4
  <1>7. Taken \in Nat
        BY <1>4, <1>6 DEF Taken
  <1>8. Sent \in Nat
        BY <1>5, <1>7 DEF Sent
  <1>9. Behind \in Nat
        BY <1>5, <1>6 DEF Behind
  <1> QED
      BY <1>1, <1>2, <1>4, <1>5, <1>6, <1>7, <1>8, <1>9

(* A step that leaves the text where it is. *)
LEMMA ChainKept ==
    ASSUME ChainInv, UNCHANGED <<shown, pending, mode>>, Open' => Open,
           Open' => /\ Produced' = Produced
                    /\ q'[Out].items = q[Out].items
                    /\ mode = "pipeline" =>
                           /\ AtTts' = AtTts /\ (AtTts = 1 => cur' = cur)
                           /\ q'["toTts"].items = q["toTts"].items
                           /\ q["toTts"].closed => q'["toTts"].closed
                           /\ threw["tts"] => threw'["tts"],
           cpc' \in TextPlaces \ {"take"} => pending # NoPending
    PROVE  ChainInv'
PROOF
  <1>1. Out' = Out /\ InHand' = InHand /\ Taken' = Taken
        BY DEF Out, InHand, Taken
  <1>2. SUFFICES ASSUME Open' PROVE Chain'
        BY DEF ChainInv, TextInOrder
  <1>3. q[Out]'.items = q[Out].items
        BY <1>1, <1>2
  <1>4. Sent' = Sent /\ Behind' = Behind /\ (Cut => Cut') /\ Produced' = Produced
        BY <1>1, <1>2, <1>3 DEF Sent, Behind, Cut, ForClient, ForTts
  <1>5. Chain
        BY <1>2 DEF ChainInv
  <1> QED
      BY <1>1, <1>2, <1>3, <1>4, <1>5 DEF Chain, Consecutive

(* What a push does to an open queue and to a closed one, and what a pop does. *)
LEMMA QueueEffects ==
    ASSUME NEW queue \in Queues(Nat), NEW x
    PROVE  /\ ~queue.closed => Pushed(queue, x).items = Append(queue.items, x)
           /\ queue.closed => Pushed(queue, x).items = queue.items
           /\ Pushed(queue, x).closed = queue.closed
           /\ Popped(queue).items = Tail(queue.items)
           /\ Popped(queue).closed = queue.closed
           /\ Closed(queue).items = queue.items
           /\ Closed(queue).closed = TRUE
PROOF
  BY DEF Pushed, Popped, Closed, Queues

(* What every step of a worker leaves alone, and that there is a session. *)
LEMMA WorkersFrame ==
    ASSUME SessionInv, Llm \/ Seg \/ Tts
    PROVE  /\ UNCHANGED <<shown, pending, mode, cpc, read>>
           /\ Open' = Open /\ mode \in AllModes
           /\ \A w \in Workers : threw[w] => threw'[w]
PROOF
  <1>1. UNCHANGED <<shown, pending, mode, cpc, read>>
        BY WorkersLeaveClient DEF clientSide
  <1>2. Open' = Open
        BY WorkersLeaveStop DEF Open
  <1>3. ~AllOff
        BY WorkerMoves DEF AllOff, SessionInv
  <1>4. mode \in AllModes
        BY <1>3 DEF SessionInv, QuietInv, TypeOK, ClientTypes
  <1>5. \A w \in Workers : threw[w] => threw'[w]
        BY WorkersCancel DEF SessionInv
  <1> QED
      BY <1>1, <1>2, <1>4, <1>5

(* A token of raw mode is the next piece of text; others are not shown. *)
LEMMA LlmKeepsChain ==
    ASSUME SessionInv, StaffInv, ClosingInv, ChainInv, Llm
    PROVE  ChainInv'
PROOF
  <1>1. /\ UNCHANGED <<shown, pending, mode, cpc>> /\ Open' = Open /\ mode \in AllModes
        /\ threw["tts"] => threw'["tts"]
        BY WorkersFrame DEF Workers
  <1>2. mode # "tts"
        BY WorkerMoves DEF Llm, StaffInv, LlmGenerate, LlmThrow, LlmPush, CloseOutput,
           RecordFailure, Leave
  <1>3. pc'["tts"] = pc["tts"] /\ AtTts' = AtTts
        BY DEF Llm, LlmGenerate, LlmThrow, LlmPush, CloseOutput, RecordFailure, Leave,
           Throw, Goto, AtTts, SessionInv, TypeOK, WorkerTypes, Workers
  <1>4. UNCHANGED <<cur, made>>
        BY DEF Llm, LlmGenerate, LlmThrow, LlmPush, CloseOutput, RecordFailure, Leave,
           segVars, ttsVars
  <1>5. /\ q \in [QueueNames -> Queues(Nat)] /\ q["token"] \in Queues(Nat)
        /\ "token" \in QueueNames /\ "toTts" \in QueueNames
        BY DEF SessionInv, TypeOK, SharedTypes, QueueNames
  <1>c. /\ Len(shown) \in Nat /\ Taken \in Nat /\ Sent \in Nat /\ Behind \in Nat
        /\ Out \in QueueNames /\ Produced \in Nat
        /\ q["token"].items \in Seq(Nat) /\ ForClient \in Nat /\ tokens \in Nat
        BY CountTypes DEF SessionInv, QueueNames, TypeOK, WorkerTypes
  <1>6. CASE LlmPush /\ mode = "raw"
    <2>1. Out = "token" /\ Out' = "token" /\ Feed = "token" /\ Feeder = "llm" /\ pc["llm"] = "push"
          BY <1>1, <1>6 DEF Out, Feed, Feeder, LlmPush
    <2> SUFFICES ASSUME Open PROVE ChainInv'
        BY <1>1 DEF ChainInv, TextInOrder
    <2>2. ~q["token"].closed
          BY <1>6, <2>1 DEF ClosingInv, Ended, AllModes
    <2>3. Chain /\ Produced = tokens /\ Produced' = tokens' /\ tokens' = tokens + 1
          /\ Behind = 0 /\ Behind' = 0 /\ ~Cut
          BY <1>1, <1>6 DEF ChainInv, Produced, Behind, Cut, LlmPush
    <2>4. /\ Sent = tokens /\ Sent = Taken + ForClient
          /\ ForClient = Len(q["token"].items)
          BY <1>c, <2>1, <2>3 DEF Chain, Sent, ForClient
    <2>p. PICK piece \in Nat : piece = tokens + 1
          BY DEF SessionInv, TypeOK, WorkerTypes
    <2>5. q'["token"].items = Append(q["token"].items, piece)
      <3>1. q'["token"] = Pushed(q["token"], piece)
            BY <1>5, <1>6, <2>p DEF LlmPush
      <3> QED
            BY <1>5, <2>2, <3>1 DEF Pushed, Queues
    <2>6. /\ Consecutive(q'["token"].items, Taken)
          /\ Len(q'["token"].items) = Len(q["token"].items) + 1
      <3>1. Consecutive(q["token"].items, Taken)
            BY <2>1, <2>3 DEF Chain
      <3>2. piece = Taken + ForClient + 1
            BY <1>c, <2>p, <2>4
      <3> QED
            BY <1>c, <2>p, <2>4, <2>5, <3>1, <3>2, ConsecutivePush
    <2>7. Taken' = Taken /\ Sent' = Sent + 1
      <3>1. Taken' = Taken
            BY <1>1 DEF Taken, InHand
      <3>2. Sent' = Taken' + ForClient'
            BY DEF Sent
      <3>3. ForClient' = ForClient + 1
            BY <2>1, <2>4, <2>6 DEF ForClient
      <3> QED
            BY <1>c, <2>4, <3>1, <3>2, <3>3
    <2>8. Chain'
      <3>1. Consecutive(q'[Out'].items, Taken')
            BY <2>1, <2>6, <2>7
      <3>2. Sent' + Behind' = Produced'
            BY <1>c, <2>3, <2>4, <2>7
      <3>3. Sent' + Behind' <= Produced'
            BY <1>c, <2>3, <2>4, <2>7
      <3>4. pending' # NoPending => pending'.seg = Len(shown') + 1
            BY <1>1, <2>3 DEF Chain
      <3> QED
            BY <1>1, <1>6, <3>1, <3>2, <3>3, <3>4 DEF Chain
    <2> QED
          BY <1>1, <2>8 DEF ChainInv, TextInOrder
  <1>7. CASE ~(LlmPush /\ mode = "raw")
    <2>1. q' = q \/ q' = [q EXCEPT !["token"] = Closed(q["token"])]
          \/ (LlmPush /\ q' = [q EXCEPT !["token"] = Pushed(q["token"], tokens + 1)])
          BY DEF Llm, LlmGenerate, LlmThrow, LlmPush, CloseOutput, RecordFailure, Leave
    <2>2. q'["toTts"] = q["toTts"]
          BY <1>5, <2>1
    <2>3. q'[Out].items = q[Out].items
      <3>1. CASE Out = "token"
        <4>1. mode = "raw"
              BY <1>1, <1>2, <3>1 DEF Out, AllModes
        <4>2. q' = q \/ q' = [q EXCEPT !["token"] = Closed(q["token"])]
              BY <1>7, <2>1, <4>1
        <4> QED
              BY <1>5, <3>1, <4>2, QueueEffects
      <3>2. CASE Out # "token"
            BY <1>5, <1>c, <2>1, <3>2
      <3> QED
            BY <3>1, <3>2
    <2>4. Produced' = Produced
      <3>1. mode = "raw" => tokens' = tokens
            BY <1>7 DEF Llm, LlmGenerate, LlmThrow, LlmPush, CloseOutput,
               RecordFailure, Leave
      <3> QED
            BY <1>1, <1>4, <3>1 DEF Produced
    <2> QED
          BY <1>1, <1>3, <1>4, <2>2, <2>3, <2>4, ChainKept DEF ChainInv
  <1> QED
      BY <1>6, <1>7

(* A segment is the next piece of text, in the queue the mode gives the
   segmenter; after a failure of TTS it is dropped. *)
LEMMA SegEmitKeepsChain ==
    ASSUME SessionInv, ClosingInv, ChainInv, SegEmit, Open,
           mode \in {"pipeline", "segmented"},
           UNCHANGED <<shown, pending, mode, cpc>>, AtTts' = AtTts, cur' = cur,
           threw'["tts"] = threw["tts"]
    PROVE  ChainInv'
PROOF
  <1>1. /\ q \in [QueueNames -> Queues(Nat)] /\ SegmenterOut \in QueueNames
        /\ q[SegmenterOut] \in Queues(Nat) /\ "toTts" \in QueueNames
        BY DEF SessionInv, TypeOK, SharedTypes, QueueNames, SegmenterOut
  <1>2. /\ Len(shown) \in Nat /\ Taken \in Nat /\ Sent \in Nat /\ Behind \in Nat
        /\ AtTts \in Nat /\ Out \in QueueNames
        /\ q["toTts"].items \in Seq(Nat) /\ q["segOut"].items \in Seq(Nat)
        /\ ForTts \in Nat /\ ForClient \in Nat /\ made \in Nat
        BY <1>1, CountTypes DEF SessionInv, TypeOK, WorkerTypes
  <1>3. Chain /\ Produced = made /\ Produced' = made + 1
        BY DEF ChainInv, Produced, SegEmit
  <1>4. Out = "segOut" /\ Out' = "segOut" /\ Feed = SegmenterOut /\ Feeder = "seg"
        BY DEF Out, Feed, Feeder
  <1>5. pc["seg"] \notin Ended
        BY DEF SegEmit, Ended
  <1>p. PICK piece \in Nat : piece = made + 1
        BY <1>2
  <1>6. q'[SegmenterOut] = Pushed(q[SegmenterOut], piece)
        BY <1>1, <1>p DEF SegEmit
  <1>7. \A n \in QueueNames : n # SegmenterOut => q'[n] = q[n]
        BY <1>1 DEF SegEmit
  <1>8. Taken' = Taken
        BY DEF Taken, InHand
  <1>s. Sent = Taken + ForClient /\ Sent' = Taken' + ForClient'
        BY DEF Sent
  <1>o. ForClient = Len(q["segOut"].items) /\ ForClient' = Len(q'["segOut"].items)
        BY <1>4 DEF ForClient
  <1>9. CASE mode = "segmented"
    <2>1. SegmenterOut = "segOut"
          BY <1>9 DEF SegmenterOut
    <2>2. ~q["segOut"].closed
          BY <1>4, <1>5, <1>9, <2>1 DEF ClosingInv, AllModes
    <2>3. q'["segOut"].items = Append(q["segOut"].items, piece)
          BY <1>1, <1>6, <2>1, <2>2 DEF Pushed, Queues
    <2>4. Behind = 0 /\ Behind' = 0 /\ ~Cut
          BY <1>9 DEF Behind, Cut
    <2>5. Sent = made
          BY <1>2, <1>3, <2>4 DEF Chain
    <2>6. /\ Consecutive(q'["segOut"].items, Taken)
          /\ Len(q'["segOut"].items) = Len(q["segOut"].items) + 1
      <3>1. Consecutive(q["segOut"].items, Taken)
            BY <1>3, <1>4 DEF Chain
      <3>2. piece = Taken + ForClient + 1
            BY <1>2, <1>p, <1>s, <2>5
      <3> QED
            BY <1>2, <1>p, <1>o, <2>3, <3>1, <3>2, ConsecutivePush
    <2>7. Sent' = made + 1
      <3>1. ForClient' = ForClient + 1
            BY <1>o, <2>6
      <3> QED
            BY <1>2, <1>8, <1>s, <2>5, <3>1
    <2>8. Chain'
          BY <1>2, <1>3, <1>4, <1>8, <1>9, <2>4, <2>6, <2>7 DEF Chain
    <2> QED
          BY <2>8 DEF ChainInv, TextInOrder
  <1>10. CASE mode = "pipeline"
    <2>1. SegmenterOut = "toTts"
          BY <1>10 DEF SegmenterOut
    <2>2. q'["segOut"] = q["segOut"]
          BY <1>4, <1>2, <1>7, <2>1
    <2>3. Sent' = Sent
      <3>1. ForClient' = ForClient
            BY <1>o, <2>2
      <3> QED
            BY <1>8, <1>s, <3>1
    <2>4. Behind = AtTts + ForTts /\ Behind' = AtTts + ForTts'
          BY <1>10 DEF Behind
    <2>5. Consecutive(q["toTts"].items, Sent + AtTts)
          BY <1>3, <1>10 DEF Chain
    <2>6. CASE q["toTts"].closed
      <3>1. threw["tts"]
            BY <1>4, <1>5, <1>10, <2>1, <2>6 DEF ClosingInv, AllModes
      <3>2. q'["toTts"] = q["toTts"]
            BY <1>6, <2>1, <2>6 DEF Pushed
      <3>3. Cut'
            BY <1>10, <2>6, <3>1, <3>2 DEF Cut
      <3>4. Sent' + Behind' <= Produced'
        <4>1. Sent + Behind <= Produced
              BY <1>3 DEF Chain
        <4>2. Behind' = Behind
              BY <2>4, <3>2 DEF ForTts
        <4> QED
              BY <1>2, <1>3, <2>3, <4>1, <4>2
      <3>5. Consecutive(q'["segOut"].items, Taken')
            BY <1>3, <1>4, <1>8, <2>2 DEF Chain
      <3>6. Chain'
            BY <1>3, <1>4, <2>3, <2>5, <3>2, <3>3, <3>4, <3>5 DEF Chain
      <3> QED
            BY <3>6 DEF ChainInv, TextInOrder
    <2>7. CASE ~q["toTts"].closed
      <3>1. q'["toTts"].items = Append(q["toTts"].items, piece)
            BY <1>1, <1>6, <2>1, <2>7 DEF Pushed, Queues
      <3>2. Sent + Behind = made
            BY <1>3, <2>7 DEF Chain, Cut
      <3>3. PICK n \in Nat : n = Sent + AtTts
            BY <1>2
      <3>4. piece = n + ForTts + 1
            BY <1>2, <1>p, <2>4, <3>2, <3>3
      <3>5. /\ Consecutive(q'["toTts"].items, n)
            /\ Len(q'["toTts"].items) = Len(q["toTts"].items) + 1
        <4>1. Consecutive(q["toTts"].items, n)
              BY <2>5, <3>3
        <4>2. PICK items \in Seq(Nat) : items = q["toTts"].items
              BY <1>2
        <4>3. piece = n + Len(items) + 1
              BY <3>4, <4>2 DEF ForTts
        <4>4. /\ Consecutive(Append(items, piece), n)
              /\ Len(Append(items, piece)) = Len(items) + 1
              BY <1>p, <3>3, <4>1, <4>2, <4>3, ConsecutivePush
        <4> QED
              BY <3>1, <4>2, <4>4
      <3>6. Consecutive(q'["toTts"].items, Sent + AtTts)
            BY <3>3, <3>5
      <3>7. Sent' + Behind' = made + 1
        <4>1. ForTts' = ForTts + 1
              BY <3>5 DEF ForTts
        <4> QED
              BY <1>2, <2>3, <2>4, <3>2, <4>1
      <3>8. Consecutive(q'["segOut"].items, Taken')
            BY <1>3, <1>4, <1>8, <2>2 DEF Chain
      <3>9. Sent' + Behind' <= Produced' /\ Sent' + Behind' = Produced'
            BY <1>2, <1>3, <3>7
      <3>10. Chain'
            BY <1>3, <1>4, <2>3, <3>6, <3>8, <3>9 DEF Chain
      <3> QED
            BY <3>10 DEF ChainInv, TextInOrder
    <2> QED
          BY <2>6, <2>7
  <1> QED
      BY <1>9, <1>10

(* The segmenter's other steps do not touch the numbered text: where it runs,
   the tokens it takes are not shown. *)
LEMMA SegKeepsChain ==
    ASSUME SessionInv, StopInv, StaffInv, ClosingInv, ChainInv, Seg
    PROVE  ChainInv'
PROOF
  <1>1. /\ UNCHANGED <<shown, pending, mode, cpc>> /\ Open' = Open /\ mode \in AllModes
        BY WorkersFrame DEF Workers
  <1>2. pc["seg"] # "off"
        BY DEF Seg, SegPop, SegThrow, SegEmit, CloseOutput, StopUpstream,
           RecordFailure, Leave
  <1>3. mode \in {"pipeline", "segmented"} /\ Out = "segOut"
        BY <1>1, <1>2 DEF StaffInv, AllModes, Out
  <1>4. pc'["tts"] = pc["tts"] /\ AtTts' = AtTts /\ threw'["tts"] = threw["tts"]
        BY DEF Seg, SegPop, SegThrow, SegEmit, CloseOutput, StopUpstream,
           RecordFailure, Leave, Throw, Goto, AtTts, SessionInv, TypeOK, WorkerTypes, Workers
  <1>5. UNCHANGED <<cur, tokens>>
        BY DEF Seg, SegPop, SegThrow, SegEmit, CloseOutput, StopUpstream,
           RecordFailure, Leave, ttsVars
  <1>6. /\ q \in [QueueNames -> Queues(Nat)] /\ SegmenterOut \in QueueNames
        /\ \A n \in QueueNames : q[n] \in Queues(Nat)
        /\ "token" \in QueueNames /\ "toTts" \in QueueNames /\ "segOut" \in QueueNames
        BY DEF SessionInv, TypeOK, SharedTypes, QueueNames, SegmenterOut
  <1>7. CASE SegEmit
    <2>1. CASE Open
          BY <1>1, <1>3, <1>4, <1>5, <1>7, <2>1, SegEmitKeepsChain
    <2>2. CASE ~Open
          BY <1>1, <2>2 DEF ChainInv, TextInOrder
    <2> QED
          BY <2>1, <2>2
  <1>8. CASE ~SegEmit
    <2>1. made' = made
          BY <1>8 DEF Seg, SegPop, SegThrow, CloseOutput, StopUpstream,
             RecordFailure, Leave, segVars
    <2>2. /\ q'["toTts"].items = q["toTts"].items
          /\ q'["segOut"].items = q["segOut"].items
          /\ q["toTts"].closed => q'["toTts"].closed
      <3>1. CASE SegPop
        <4>1. q' = q \/ q' = [q EXCEPT !["token"] = Popped(q["token"])]
              BY <3>1 DEF SegPop
        <4> QED
              BY <1>6, <4>1
      <3>2. CASE CloseOutput("seg")
        <4>1. q' = [q EXCEPT ![SegmenterOut] = Closed(q[SegmenterOut])]
              BY <3>2 DEF CloseOutput
        <4>2. \A n \in QueueNames : Closed(q[n]).items = q[n].items /\ Closed(q[n]).closed
              BY <1>6, QueueEffects, 0 \in Nat
        <4> QED
              BY <1>6, <4>1, <4>2
      <3>3. CASE StopUpstream("seg")
        <4>1. stop["seg"] < Len(StopSteps["seg"]) /\ stop["seg"] \in Nat
              BY <3>3, StopStepsAre DEF StopUpstream, StopInv, SessionInv, TypeOK, SharedTypes
        <4>2. StopSteps["seg"][stop["seg"] + 1] \in {"llm", "token"}
              BY <4>1, StopStepsAre
        <4> DEFINE x == StopSteps["seg"][stop["seg"] + 1]
        <4>3. Halt(x)
              BY <3>3 DEF StopUpstream
        <4>4. x # "toTts" /\ x # "segOut"
              BY <4>2
        <4> HIDE DEF x
        <4>5. q'["toTts"] = q["toTts"] /\ q'["segOut"] = q["segOut"]
              BY <1>6, <4>3, <4>4 DEF Halt
        <4> QED
              BY <4>5
      <3>4. CASE SegThrow \/ RecordFailure("seg") \/ Leave("seg")
        <4>1. q' = q
              BY <3>4 DEF SegThrow, RecordFailure, Leave
        <4> QED
              BY <4>1
      <3> QED
            BY <1>8, <3>1, <3>2, <3>3, <3>4 DEF Seg
    <2>3. Produced' = Produced
          BY <1>1, <1>5, <2>1 DEF Produced
    <2> QED
          BY <1>1, <1>3, <1>4, <1>5, <2>2, <2>3, ChainKept DEF ChainInv
  <1> QED
      BY <1>7, <1>8

(* TTS takes the piece that follows those sent. *)
LEMMA TtsPopKeepsChain ==
    ASSUME SessionInv, ChainInv, TtsPop, ~IsEmpty(q["toTts"]), Open, mode = "pipeline",
           UNCHANGED <<shown, pending, mode, cpc, threw>>
    PROVE  ChainInv'
PROOF
  <1>1. /\ Len(shown) \in Nat /\ Taken \in Nat /\ Sent \in Nat /\ AtTts \in Nat
        /\ q["toTts"].items \in Seq(Nat) /\ ForTts \in Nat /\ ForClient \in Nat
        /\ Produced \in Nat /\ "toTts" \in QueueNames
        BY CountTypes DEF SessionInv, QueueNames
  <1>2. /\ q \in [QueueNames -> Queues(Nat)] /\ pc \in [Workers -> WorkerPlaces]
        /\ "segOut" \in QueueNames
        BY DEF SessionInv, TypeOK, SharedTypes, WorkerTypes, QueueNames
  <1>3. /\ cur' = Head(q["toTts"].items)
        /\ q' = [q EXCEPT !["toTts"] = Popped(@)]
        /\ pc' = [pc EXCEPT !["tts"] = "start"] /\ pc["tts"] = "pop"
        /\ made' = made
        BY DEF TtsPop, Goto, segVars
  <1>4. AtTts = 0 /\ AtTts' = 1
        BY <1>2, <1>3 DEF AtTts, Workers
  <1>5. Out = "segOut" /\ Out' = "segOut"
        BY DEF Out
  <1>6. q'["toTts"] = Popped(q["toTts"]) /\ q'["segOut"] = q["segOut"]
        BY <1>1, <1>2, <1>3
  <1>7. q'["toTts"].items = Tail(q["toTts"].items) /\ q'["toTts"].closed = q["toTts"].closed
        BY <1>6 DEF Popped
  <1>8. Taken' = Taken /\ Sent' = Sent /\ Produced' = Produced
        BY <1>3, <1>5, <1>6 DEF Taken, InHand, Sent, ForClient, Produced
  <1>9. Chain /\ ~(q["toTts"].items = <<>>)
        BY DEF ChainInv, IsEmpty
  <1>10. Consecutive(q["toTts"].items, Sent)
         BY <1>1, <1>4, <1>9 DEF Chain
  <1>11. PICK items \in Seq(Nat) : items = q["toTts"].items
         BY <1>1
  <1>12. PICK n \in Nat : n = Sent
         BY <1>1
  <1>13. /\ Head(items) = n + 1 /\ Consecutive(Tail(items), n + 1)
         /\ Len(Tail(items)) = Len(items) - 1
         BY <1>9, <1>10, <1>11, <1>12, ConsecutivePop
  <1>14. cur' = Sent' + 1 /\ Consecutive(q'["toTts"].items, Sent' + AtTts')
         BY <1>3, <1>4, <1>7, <1>8, <1>11, <1>12, <1>13
  <1>15. ForTts' = ForTts - 1
         BY <1>7, <1>11, <1>13 DEF ForTts
  <1>16. Behind' = Behind /\ (Cut => Cut')
         BY <1>1, <1>4, <1>7, <1>15 DEF Behind, Cut
  <1>17. Consecutive(q'[Out'].items, Taken')
         BY <1>5, <1>6, <1>8, <1>9 DEF Chain
  <1>18. Chain'
         BY <1>8, <1>9, <1>14, <1>16, <1>17 DEF Chain
  <1> QED
      BY <1>18 DEF ChainInv, TextInOrder

(* TTS passes it on to the client; in an open session nobody closed the
   queue. *)
LEMMA TtsPushTextKeepsChain ==
    ASSUME SessionInv, ClosingInv, ChainInv, TtsPushText, Open, mode = "pipeline",
           UNCHANGED <<shown, pending, mode, cpc, threw>>
    PROVE  ChainInv'
PROOF
  <1>1. /\ Len(shown) \in Nat /\ Taken \in Nat /\ Sent \in Nat /\ AtTts \in Nat
        /\ q["segOut"].items \in Seq(Nat) /\ ForTts \in Nat /\ ForClient \in Nat
        /\ Produced \in Nat /\ "segOut" \in QueueNames
        BY CountTypes DEF SessionInv, QueueNames
  <1>2. /\ q \in [QueueNames -> Queues(Nat)] /\ pc \in [Workers -> WorkerPlaces]
        /\ "toTts" \in QueueNames /\ cur \in Nat
        BY DEF SessionInv, TypeOK, SharedTypes, WorkerTypes, QueueNames
  <1>3. /\ q' = [q EXCEPT !["segOut"] = Pushed(@, cur)]
        /\ pc["tts"] = "out" /\ made' = made /\ cur' = cur
        /\ pc' = [pc EXCEPT !["tts"] = IF q["segOut"].closed THEN "leave" ELSE "speak"]
        BY DEF TtsPushText, TtsAnnounce, Goto, segVars, ttsVars
  <1>4. AtTts = 1 /\ AtTts' = 0
        BY <1>2, <1>3 DEF AtTts, Workers
  <1>5. Out = "segOut" /\ Out' = "segOut"
        BY DEF Out
  <1>6. ~q["segOut"].closed
        BY DEF ClosingInv
  <1>7. q'["segOut"].items = Append(q["segOut"].items, cur) /\ q'["toTts"] = q["toTts"]
        BY <1>1, <1>2, <1>3, <1>6 DEF Pushed, Queues
  <1>8. Chain /\ Sent = Taken + ForClient /\ Sent' = Taken' + ForClient'
        BY DEF ChainInv, Sent
  <1>9. Taken' = Taken /\ Produced' = Produced /\ ForTts' = ForTts
        BY <1>3, <1>7 DEF Taken, InHand, Produced, ForTts
  <1>10. PICK items \in Seq(Nat) : items = q["segOut"].items
         BY <1>1
  <1>11. PICK n \in Nat : n = Taken
         BY <1>1
  <1>12. cur = n + Len(items) + 1 /\ Consecutive(items, n)
         BY <1>1, <1>4, <1>5, <1>8, <1>10, <1>11 DEF Chain, ForClient
  <1>13. /\ Consecutive(Append(items, cur), n)
         /\ Len(Append(items, cur)) = Len(items) + 1
         BY <1>2, <1>10, <1>11, <1>12, ConsecutivePush
  <1>14. ForClient' = ForClient + 1
         BY <1>5, <1>7, <1>10, <1>13 DEF ForClient
  <1>15. Sent' = Sent + 1
         BY <1>1, <1>8, <1>9, <1>14
  <1>16. Sent' + Behind' = Sent + Behind /\ (Cut => Cut')
    <2>1. Behind = AtTts + ForTts /\ Behind' = AtTts' + ForTts'
          BY DEF Behind
    <2>2. Behind = 1 + ForTts /\ Behind' = 0 + ForTts
          BY <1>4, <1>9, <2>1
    <2>3. Cut => Cut'
          BY <1>7 DEF Cut
    <2> QED
          BY <1>1, <1>15, <2>2, <2>3
  <1>17. Consecutive(q'[Out'].items, Taken')
         BY <1>5, <1>7, <1>9, <1>10, <1>11, <1>13
  <1>18. Consecutive(q'["toTts"].items, Sent' + AtTts')
    <2>1. Consecutive(q["toTts"].items, Sent + AtTts)
          BY <1>8 DEF Chain
    <2>2. Sent' + AtTts' = Sent + AtTts
          BY <1>1, <1>4, <1>15
    <2> QED
          BY <1>7, <2>1, <2>2
  <1>19. Chain'
         BY <1>4, <1>8, <1>9, <1>16, <1>17, <1>18 DEF Chain
  <1> QED
      BY <1>19 DEF ChainInv, TextInOrder

(* TTS's other steps do not move text; speech alone shows none. *)
LEMMA TtsKeepsChain ==
    ASSUME SessionInv, StopInv, StaffInv, ClosingInv, ChainInv, Tts
    PROVE  ChainInv'
PROOF
  <1>1. /\ UNCHANGED <<shown, pending, mode, cpc>> /\ Open' = Open /\ mode \in AllModes
        /\ threw["tts"] => threw'["tts"]
        BY WorkersFrame DEF Workers
  <1>2. pc["tts"] # "off"
        BY DEF Tts, TtsPop, TtsPushStart, TtsPushText, TtsAnnounce, TtsSkip, TtsSynthesize,
           TtsWrite, TtsCancelled, TtsThrow, StopUpstream, RecordFailure, Leave
  <1>3. mode \in {"pipeline", "tts"}
        BY <1>1, <1>2 DEF StaffInv, AllModes
  <1>4. /\ q \in [QueueNames -> Queues(Nat)] /\ pc \in [Workers -> WorkerPlaces]
        /\ \A n \in QueueNames : q[n] \in Queues(Nat)
        /\ "token" \in QueueNames /\ "toTts" \in QueueNames /\ "segOut" \in QueueNames
        /\ "pcmStart" \in QueueNames /\ Out \in QueueNames
        BY CountTypes DEF SessionInv, TypeOK, SharedTypes, WorkerTypes, QueueNames
  <1>5. UNCHANGED <<made, tokens>> /\ Produced' = Produced
    <2>1. UNCHANGED <<made, tokens>>
          BY DEF Tts, TtsPop, TtsPushStart, TtsPushText, TtsAnnounce, TtsSkip, TtsSynthesize,
             TtsWrite, TtsCancelled, TtsThrow, StopUpstream, RecordFailure, Leave, segVars
    <2> QED
          BY <1>1, <2>1 DEF Produced
  <1>6. CASE TtsPop
    <2>1. UNCHANGED threw
          BY <1>6 DEF TtsPop
    <2>2. CASE Open /\ mode = "pipeline" /\ ~IsEmpty(q["toTts"])
          BY <1>1, <1>6, <2>1, <2>2, TtsPopKeepsChain
    <2>3. CASE IsEmpty(q["toTts"])
      <3>1. UNCHANGED <<q, cur>> /\ pc' = [pc EXCEPT !["tts"] = "leave"] /\ pc["tts"] = "pop"
            BY <1>6, <2>3 DEF TtsPop, Goto
      <3>2. AtTts' = AtTts
            BY <1>4, <3>1 DEF AtTts, Workers
      <3> QED
            BY <1>1, <1>5, <3>1, <3>2, ChainKept DEF ChainInv
    <2>4. CASE mode = "tts"
      <3>1. q'[Out].items = q[Out].items
            BY <1>4, <1>6, <2>4 DEF TtsPop, Out
      <3> QED
            BY <1>1, <1>5, <2>4, <3>1, ChainKept DEF ChainInv
    <2>5. CASE ~Open
          BY <1>1, <2>5 DEF ChainInv, TextInOrder
    <2> QED
          BY <1>3, <2>2, <2>3, <2>4, <2>5
  <1>7. CASE TtsPushText
    <2>1. UNCHANGED threw
          BY <1>7 DEF TtsPushText, TtsAnnounce
    <2>2. CASE Open /\ mode = "pipeline"
          BY <1>1, <1>7, <2>1, <2>2, TtsPushTextKeepsChain
    <2>4. CASE mode = "tts"
      <3>1. q'[Out].items = q[Out].items
            BY <1>4, <1>7, <2>4 DEF TtsPushText, TtsAnnounce, Out
      <3> QED
            BY <1>1, <1>5, <2>4, <3>1, ChainKept DEF ChainInv
    <2>5. CASE ~Open
          BY <1>1, <2>5 DEF ChainInv, TextInOrder
    <2> QED
          BY <1>3, <2>2, <2>4, <2>5
  <1>8. CASE TtsPushStart
    <2>1. CASE Open
      <3>1. q' = [q EXCEPT !["pcmStart"] = Pushed(@, written)] /\ cur' = cur
            BY <1>8 DEF TtsPushStart, TtsAnnounce, ttsVars
      <3>2. q'["toTts"] = q["toTts"] /\ q'[Out] = q[Out]
        <4>1. Out # "pcmStart"
              BY DEF Out
        <4> QED
              BY <1>4, <3>1, <4>1
      <3>3. mode = "pipeline" => AtTts' = AtTts
        <4>1. mode = "pipeline" => ~q["pcmStart"].closed
              BY <2>1 DEF ClosingInv
        <4>2. /\ pc["tts"] = "start"
              /\ pc' = [pc EXCEPT !["tts"] = IF q["pcmStart"].closed THEN "leave" ELSE "out"]
              BY <1>8 DEF TtsPushStart, TtsAnnounce, Goto
        <4> QED
              BY <1>4, <4>1, <4>2 DEF AtTts, Workers
      <3> QED
            BY <1>1, <1>5, <3>1, <3>2, <3>3, ChainKept DEF ChainInv
    <2>2. CASE ~Open
          BY <1>1, <2>2 DEF ChainInv, TextInOrder
    <2> QED
          BY <2>1, <2>2
  <1>9. CASE StopUpstream("tts")
    <2>1. stop["tts"] < Len(StopSteps["tts"]) /\ stop["tts"] \in Nat
          BY <1>9, StopStepsAre DEF StopUpstream, StopInv, SessionInv, TypeOK, SharedTypes
    <2> DEFINE x == StopSteps["tts"][stop["tts"] + 1]
    <2>2. x \in {"llm", "token", "toTts"} /\ Halt(x)
          BY <1>9, <2>1, StopStepsAre DEF StopUpstream
    <2> HIDE DEF x
    <2>3. \A n \in QueueNames : q'[n].items = q[n].items /\ (q[n].closed => q'[n].closed)
      <3>1. \A n \in QueueNames : Closed(q[n]).items = q[n].items /\ Closed(q[n]).closed
            BY <1>4 DEF Closed, Queues
      <3>2. q' = q \/ (x \in QueueNames /\ q' = [q EXCEPT ![x] = Closed(q[x])])
            BY <2>2 DEF Halt
      <3> QED
            BY <1>4, <3>1, <3>2
    <2>4. cur' = cur /\ AtTts' = AtTts
          BY <1>4, <1>9 DEF StopUpstream, Goto, AtTts, Workers, ttsVars
    <2> QED
          BY <1>1, <1>4, <1>5, <2>3, <2>4, ChainKept DEF ChainInv
  <1>10. CASE \/ TtsSkip \/ TtsSynthesize \/ TtsWrite \/ TtsCancelled \/ TtsThrow
              \/ RecordFailure("tts") \/ Leave("tts")
    <2>1. UNCHANGED <<q, cur>>
          BY <1>10 DEF TtsSkip, TtsSynthesize, TtsWrite, TtsCancelled, TtsThrow,
             RecordFailure, Leave, ttsVars
    <2>2. pc["tts"] \notin {"start", "out"} /\ pc'["tts"] \notin {"start", "out"}
          BY <1>4, <1>10 DEF TtsSkip, TtsSynthesize, TtsWrite, TtsCancelled, TtsThrow,
             RecordFailure, Leave, Throw, Goto, AfterSpeech, Workers
    <2>3. AtTts' = AtTts
          BY <2>2 DEF AtTts
    <2> QED
          BY <1>1, <1>5, <2>1, <2>3, ChainKept DEF ChainInv
  <1> QED
      BY <1>6, <1>7, <1>8, <1>9, <1>10 DEF Tts

(* A release shows the piece whose turn it is. *)
LEMMA ReleaseKeepsChain ==
    ASSUME SessionInv, ChainInv, Open, NEW s \in Nat, s = Len(shown) + 1, Release(s),
           UNCHANGED <<mode, pc, cur, made, tokens, stop, threw>>,
           q'["toTts"] = q["toTts"],
           NEW n \in Nat, n = Len(shown) + 1,
           Consecutive(q'[Out].items, n),
           NEW k \in Nat, k = Len(q'[Out].items), n + k = Sent
    PROVE  ChainInv'
PROOF
  <1>1. shown \in Seq(Nat) /\ Len(shown) \in Nat
        BY DEF SessionInv, TypeOK, ClientTypes
  <1>2. shown' = Append(shown, s) /\ pending' = NoPending /\ cpc' \in {"idle", "take"}
        BY DEF Release, Return
  <1>3. Len(shown') = n /\ InHand' = 0
        BY <1>1, <1>2 DEF InHand
  <1>4. TextInOrder'
    <2>1. \A i \in 1..Len(shown) : shown[i] = i
          BY <1>1 DEF ChainInv, TextInOrder
    <2>2. \A i \in 1..Len(shown') : shown'[i] = i
          BY <1>1, <1>2, <2>1
    <2>3. DOMAIN shown' = 1..Len(shown')
          BY <1>1, <1>2
    <2> QED
          BY <2>2, <2>3 DEF TextInOrder
  <1>5. Taken' = n
        BY <1>3 DEF Taken
  <1>6. Out' = Out /\ Sent' = Sent
    <2>1. Out' = Out
          BY DEF Out
    <2>2. Sent' = Taken' + ForClient'
          BY DEF Sent
    <2>3. ForClient' = k
          BY <2>1 DEF ForClient
    <2> QED
          BY <1>5, <2>1, <2>2, <2>3
  <1>7. AtTts' = AtTts /\ Behind' = Behind /\ (Cut => Cut') /\ Produced' = Produced
        BY DEF AtTts, Behind, Cut, Produced, ForTts
  <1>8. Chain
        BY DEF ChainInv
  <1>9. Chain'
        BY <1>2, <1>5, <1>6, <1>7, <1>8 DEF Chain
  <1> QED
      BY <1>2, <1>4, <1>9 DEF ChainInv, TextPlaces

(* The pending piece goes out. *)
LEMMA PendingKeepsChain ==
    ASSUME SessionInv, ChainInv, Open, pending # NoPending, Release(pending.seg),
           UNCHANGED <<mode, q, pc, cur, made, tokens, stop, threw>>
    PROVE  ChainInv'
PROOF
  <1>1. /\ Len(shown) \in Nat /\ Taken \in Nat /\ Sent \in Nat /\ ForClient \in Nat
        BY CountTypes DEF SessionInv
  <1>2. Chain /\ Sent = Taken + ForClient
        BY DEF ChainInv, Sent
  <1>3. Taken = Len(shown) + 1 /\ pending.seg = Len(shown) + 1
        BY <1>2 DEF Taken, InHand, Chain
  <1>4. PICK n \in Nat : n = Len(shown) + 1
        BY <1>1
  <1>5. Consecutive(q'[Out].items, n)
        BY <1>2, <1>3, <1>4 DEF Chain
  <1>6. PICK k \in Nat : k = Len(q'[Out].items) /\ k = ForClient
        BY <1>1 DEF ForClient
  <1>7. n + k = Sent
        BY <1>1, <1>2, <1>3, <1>4, <1>6
  <1>8. PICK s \in Nat : s = pending.seg /\ s = Len(shown) + 1
        BY <1>3, <1>4
  <1>9. Release(s)
        BY <1>8
  <1> QED
      BY <1>4, <1>5, <1>6, <1>7, <1>8, <1>9, ReleaseKeepsChain

(* PollText takes the next piece, which becomes the pending one or, where
   there is no audio to wait for, goes out. *)
LEMMA TakeKeepsChain ==
    ASSUME SessionInv, ChainInv, Open, HasSession, pending = NoPending, TakeText,
           ~IsEmpty(q[Out])
    PROVE  ChainInv'
PROOF
  <1>1. /\ Len(shown) \in Nat /\ Taken \in Nat /\ Sent \in Nat /\ ForClient \in Nat
        /\ q[Out].items \in Seq(Nat) /\ Out \in QueueNames /\ "toTts" \in QueueNames
        /\ q \in [QueueNames -> Queues(Nat)]
        BY CountTypes DEF SessionInv, QueueNames, TypeOK, SharedTypes
  <1>2. Chain /\ Sent = Taken + ForClient /\ Taken = Len(shown)
        BY <1>1 DEF ChainInv, Sent, Taken, InHand
  <1>3. /\ q' = [q EXCEPT ![Out] = Popped(q[Out])]
        /\ IF mode = "pipeline"
           THEN /\ pending' = [seg |-> Head(q[Out].items), start |-> 0]
                /\ cpc' = "takeStart" /\ UNCHANGED shown
           ELSE Release(Head(q[Out].items))
        /\ UNCHANGED <<mode, pc, cur, made, tokens, stop, threw>>
        BY DEF TakeText, segVars, ttsVars
  <1>4. Out # "toTts" /\ Out' = Out
        BY <1>3 DEF Out
  <1>5. q'["toTts"] = q["toTts"] /\ q'[Out].items = Tail(q[Out].items)
        BY <1>1, <1>3, <1>4 DEF Popped
  <1>6. PICK items \in Seq(Nat) : items = q[Out].items
        BY <1>1
  <1>7. PICK m \in Nat : m = Len(shown)
        BY <1>1
  <1>8. /\ Head(items) = m + 1 /\ Consecutive(Tail(items), m + 1)
        /\ Len(Tail(items)) = Len(items) - 1 /\ Len(items) \in Nat /\ Len(items) > 0
    <2>1. items # <<>> /\ Consecutive(items, m)
          BY <1>2, <1>6, <1>7 DEF IsEmpty, Chain
    <2> QED
          BY <1>6, <1>7, <2>1, ConsecutivePop
  <1>9. PICK n \in Nat : n = m + 1
        BY <1>7
  <1>10. PICK k \in Nat : k = Len(items) - 1
         BY <1>8
  <1>11. k = Len(q'[Out].items) /\ n + k = Sent /\ Consecutive(q'[Out].items, n)
    <2>1. ForClient = Len(items)
          BY <1>6 DEF ForClient
    <2>2. n + k = Sent
          BY <1>1, <1>2, <1>7, <1>8, <1>9, <1>10, <2>1
    <2> QED
          BY <1>5, <1>6, <1>8, <1>9, <1>10, <2>2
  <1>12. CASE mode # "pipeline"
         BY <1>3, <1>5, <1>6, <1>7, <1>8, <1>9, <1>10, <1>11, <1>12, ReleaseKeepsChain
  <1>13. CASE mode = "pipeline"
    <2>1. pending' = [seg |-> n, start |-> 0] /\ shown' = shown /\ cpc' = "takeStart"
          BY <1>3, <1>6, <1>8, <1>9, <1>13
    <2>2. pending'.seg = n /\ n # 0
          BY <1>7, <1>9, <2>1
    <2>3. pending' # NoPending
          BY <2>2 DEF NoPending, NoSegment
    <2>4. Taken' = n
          BY <1>7, <1>9, <2>1, <2>3 DEF Taken, InHand
    <2>5. Sent' = Sent
      <3>1. Sent' = Taken' + ForClient'
            BY DEF Sent
      <3>2. ForClient' = k
            BY <1>4, <1>11 DEF ForClient
      <3> QED
            BY <1>11, <2>4, <3>1, <3>2
    <2>6. AtTts' = AtTts /\ Behind' = Behind /\ (Cut => Cut') /\ Produced' = Produced
      <3>1. UNCHANGED <<mode, pc, made, tokens, threw>>
            BY <1>3
      <3> QED
            BY <1>5, <3>1 DEF AtTts, Behind, Cut, Produced, ForTts
    <2>7. Chain'
          BY <1>2, <1>3, <1>4, <1>5, <1>7, <1>9, <1>11, <2>1, <2>2, <2>4, <2>5, <2>6 DEF Chain
    <2> QED
          BY <1>3, <1>13, <2>1, <2>3, <2>7 DEF ChainInv, TextInOrder
  <1> QED
      BY <1>12, <1>13

(* Every step keeps the pieces in their order and without a gap. *)
LEMMA ChainStep ==
    SessionInv /\ StopInv /\ StaffInv /\ CopyInv /\ ClosingInv /\ ChainInv /\ [Next]_vars
    => ChainInv'
PROOF
  <1> SUFFICES ASSUME SessionInv, StopInv, StaffInv, CopyInv, ClosingInv, ChainInv,
                      [Next]_vars
               PROVE  ChainInv'
      OBVIOUS
  <1>t. /\ q \in [QueueNames -> Queues(Nat)] /\ pc \in [Workers -> WorkerPlaces]
        /\ stop \in [{"client", "seg", "tts"} -> Nat]
        /\ "toTts" \in QueueNames /\ "pcmStart" \in QueueNames /\ Out \in QueueNames
        /\ "segOut" \in QueueNames
        BY StopStepsAre, CountTypes DEF SessionInv, TypeOK, SharedTypes, WorkerTypes,
           QueueNames
  <1>o. cpc \in TextPlaces => Open /\ HasSession
        BY DEF TextPlaces, StopInv, Open, CopyInv
  <1>1. CASE Llm \/ Seg \/ Tts
        BY <1>1, LlmKeepsChain, SegKeepsChain, TtsKeepsChain
  <1>2. CASE Begin \/ Join
    <2>1. PICK m : FreshSession(m)
          BY <1>2 DEF Begin, Join
    <2>2. /\ shown' = <<>> /\ pending' = NoPending /\ made' = 0 /\ tokens' = 0
          /\ \A n \in QueueNames : q'[n].items = <<>>
          /\ pc'["tts"] = "off"
          BY <2>1 DEF FreshSession, EmptyQueue, Workers
    <2>3. cpc' \notin TextPlaces
          BY <1>2 DEF Begin, Join, Return, TextPlaces
    <2>4. Out' \in QueueNames
          BY DEF Out, QueueNames
    <2>5. Len(shown') = 0 /\ q'[Out'].items = <<>> /\ q'["toTts"].items = <<>>
          BY <1>t, <2>2, <2>4
    <2>6. InHand' = 0 /\ AtTts' = 0 /\ ForClient' = 0 /\ ForTts' = 0 /\ Produced' = 0
          BY <2>2, <2>5 DEF InHand, AtTts, ForClient, ForTts, Produced
    <2>7. Taken' = 0 /\ Sent' = 0 /\ Behind' = 0
          BY <2>5, <2>6 DEF Taken, Sent, Behind
    <2>8. Consecutive(q'[Out'].items, Taken') /\ Consecutive(q'["toTts"].items, Sent' + AtTts')
          BY <2>5 DEF Consecutive
    <2>9. Chain'
          BY <2>2, <2>6, <2>7, <2>8 DEF Chain
    <2> QED
          BY <2>2, <2>3, <2>9 DEF ChainInv, TextInOrder
  <1>3. CASE SpawnWorker
    <2>1. starting \in Remaining /\ cpc = "spawn"
          BY <1>3 DEF SpawnWorker, SessionInv, Phases
    <2> DEFINE w == Head(starting)
    <2>2. /\ pc' = [pc EXCEPT ![w] = FirstStep(w)]
          /\ UNCHANGED <<mode, threw, q, stop, shown, pending, cur, made, tokens>>
          BY <1>3 DEF SpawnWorker, Goto, segVars, ttsVars
    <2>3. pc[w] = "off" /\ w \in Workers
          BY <2>1 DEF SessionInv, QuietInv, StillOff, Remaining, Workers
    <2>4. pc'["tts"] = pc["tts"] \/ (pc["tts"] = "off" /\ pc'["tts"] \in {"pop", "speak"})
          BY <1>t, <2>2, <2>3 DEF FirstStep, Workers
    <2>5. AtTts' = AtTts /\ Produced' = Produced
          BY <2>2, <2>4 DEF AtTts, Produced
    <2>6. cpc' \notin TextPlaces
          BY <1>3 DEF SpawnWorker, Return, TextPlaces
    <2> QED
          BY <2>2, <2>5, <2>6, ChainKept DEF Open
  <1>4. CASE StopSession
    <2>1. stop["client"] \in Nat /\ stop'["client"] = stop["client"] + 1
          BY <1>t, <1>4 DEF StopSession
    <2>2. Open' => stop["client"] = 0
          BY <2>1 DEF Open
    <2>3. Open' => UNCHANGED q
          BY <1>4, <2>2, StopStepsAre DEF StopSession, Halt, QueueNames
    <2>4. UNCHANGED <<mode, pc, threw, shown, pending, cur, made, tokens>>
          /\ cpc' \notin TextPlaces
          BY <1>4 DEF StopSession, segVars, ttsVars, TextPlaces
    <2>5. Open' => Open
          BY <2>2 DEF Open
    <2>6. AtTts' = AtTts /\ Produced' = Produced
          BY <2>4 DEF AtTts, Produced
    <2> QED
          BY <2>3, <2>4, <2>5, <2>6, ChainKept
  <1>5. CASE TakeText
    <2>1. cpc = "take" /\ UNCHANGED <<mode, pc, threw, cur, made, tokens, stop>>
          BY <1>5 DEF TakeText, segVars, ttsVars
    <2>2. Open /\ HasSession /\ Open' = Open
          BY <1>o, <2>1 DEF TextPlaces, Open
    <2>3. CASE pending = NoPending /\ ~IsEmpty(q[Out])
          BY <1>5, <2>2, <2>3, TakeKeepsChain
    <2>4. CASE pending # NoPending \/ IsEmpty(q[Out])
      <3>1. UNCHANGED <<q, pending, shown>>
            BY <1>5, <2>4 DEF TakeText
      <3>2. AtTts' = AtTts /\ Produced' = Produced
            BY <2>1 DEF AtTts, Produced
      <3>3. cpc' \in TextPlaces => pending # NoPending
            BY <1>5, <2>4 DEF TakeText, Return, TextPlaces
      <3> QED
            BY <2>1, <2>2, <3>1, <3>2, <3>3, ChainKept
    <2> QED
          BY <2>3, <2>4
  <1>6. CASE TakeStart
    <2>1. cpc = "takeStart" /\ cpc' = "audio"
          /\ UNCHANGED <<mode, pc, threw, cur, made, tokens, stop, shown>>
          BY <1>6 DEF TakeStart, segVars, ttsVars
    <2>2. Open /\ HasSession /\ Open' = Open /\ pending # NoPending /\ mode = "pipeline"
          BY <1>o, <2>1 DEF TextPlaces, Open, ChainInv
    <2>3. pending' = pending \/ \E p \in Nat : pending' = [pending EXCEPT !.start = p]
      <3>1. q["pcmStart"].items \in Seq(Nat)
            BY <1>t DEF Queues
      <3>2. ~IsEmpty(q["pcmStart"]) => Head(q["pcmStart"].items) \in Nat
            BY <3>1 DEF IsEmpty
      <3> QED
            BY <1>6, <3>2 DEF TakeStart
    <2>4. pending \in [seg : Nat, start : Nat]
          BY DEF SessionInv, TypeOK, ClientTypes
    <2>5. pending'.seg = pending.seg
          BY <2>3, <2>4
    <2>6. Chain /\ pending.seg = Len(shown) + 1 /\ Len(shown) \in Nat
          BY <2>2, CountTypes DEF ChainInv, Chain, SessionInv
    <2>7. pending' # NoPending
      <3>1. pending'.seg # 0
            BY <2>5, <2>6
      <3> QED
            BY <3>1 DEF NoPending, NoSegment
    <2>8. q' = q \/ q' = [q EXCEPT !["pcmStart"] = Popped(@)]
          BY <1>6 DEF TakeStart
    <2>9. q'["segOut"] = q["segOut"] /\ q'["toTts"] = q["toTts"] /\ Out = "segOut" /\ Out' = Out
          BY <1>t, <2>1, <2>2, <2>8 DEF Out
    <2>10. /\ AtTts' = AtTts /\ Produced' = Produced /\ ForClient' = ForClient
           /\ ForTts' = ForTts /\ InHand' = InHand /\ (Cut => Cut')
           BY <2>1, <2>2, <2>7, <2>9 DEF AtTts, Produced, ForClient, ForTts, InHand, Cut
    <2>11. Taken' = Taken /\ Sent' = Sent /\ Behind' = Behind
           BY <2>1, <2>10 DEF Taken, Sent, Behind
    <2>12. Chain'
           BY <2>1, <2>5, <2>6, <2>9, <2>10, <2>11 DEF Chain
    <2> QED
           BY <2>1, <2>2, <2>7, <2>12 DEF ChainInv, TextInOrder
  <1>7. CASE CheckAudio \/ CheckPcm
    <2>1. cpc \in TextPlaces \ {"take"} /\ UNCHANGED <<mode, q, pc, cur, made, tokens, stop, threw>>
          BY <1>7 DEF CheckAudio, CheckPcm, HoldOrRelease, workerSide, TextPlaces,
             segVars, ttsVars
    <2>2. Open /\ Open' = Open /\ pending # NoPending
          BY <1>o, <2>1 DEF Open, ChainInv
    <2>3. CASE Release(pending.seg)
          BY <2>1, <2>2, <2>3, PendingKeepsChain
    <2>4. CASE UNCHANGED <<pending, shown>>
      <3>1. AtTts' = AtTts /\ Produced' = Produced
            BY <2>1 DEF AtTts, Produced
      <3> QED
            BY <2>1, <2>2, <2>4, <3>1, ChainKept
    <2> QED
          BY <1>7, <2>3, <2>4 DEF CheckAudio, CheckPcm, HoldOrRelease
  <1>8. CASE \/ LookWorkers \/ LookText \/ LookPcm \/ Report \/ CountWorker \/ SpawnFails
             \/ CheckWorkers
    <2>1. UNCHANGED <<mode, pc, threw, stop, q, shown, pending, cur, made, tokens>>
          BY <1>8 DEF LookWorkers, LookText, LookPcm, Look, Report, CountWorker, SpawnFails,
             CheckWorkers, workerSide, segVars, ttsVars
    <2>2. cpc' \in TextPlaces \ {"take"} => cpc \in TextPlaces \ {"take"}
          BY <1>8 DEF LookWorkers, LookText, LookPcm, Look, Report, CountWorker, SpawnFails,
             CheckWorkers, Return, TextPlaces
    <2>3. AtTts' = AtTts /\ Produced' = Produced /\ Open' = Open
          BY <2>1 DEF AtTts, Produced, Open
    <2> QED
          BY <2>1, <2>2, <2>3, ChainKept DEF ChainInv
  <1>9. CASE NewCall \/ Audio \/ UNCHANGED vars
    <2>1. UNCHANGED <<mode, pc, threw, stop, q, shown, pending, cur, made, tokens>>
          BY <1>9 DEF NewCall, Create, SubmitNull, IsDone, PollNothing, Submit, Cancel,
             PollText, Audio, PollPcm, workerSide, vars, clientSide, segVars, ttsVars
    <2>2. cpc' \in TextPlaces \ {"take"} => cpc \in TextPlaces \ {"take"}
          BY <1>9 DEF NewCall, Create, SubmitNull, IsDone, PollNothing, Submit, Cancel,
             PollText, Audio, PollPcm, Return, vars, clientSide, TextPlaces
    <2>3. AtTts' = AtTts /\ Produced' = Produced /\ Open' = Open
          BY <2>1 DEF AtTts, Produced, Open
    <2> QED
          BY <2>1, <2>2, <2>3, ChainKept DEF ChainInv
  <1> QED
      BY <1>1, <1>2, <1>3, <1>4, <1>5, <1>6, <1>7, <1>8, <1>9 DEF Next, InCall

(* Everything above, of a program that starts and after every step. *)
TextInv == SessionInv /\ StopInv /\ StaffInv /\ CopyInv /\ ClosingInv /\ ChainInv

LEMMA TextInvInit == Init => TextInv
PROOF
  <1> SUFFICES ASSUME Init PROVE TextInv
      OBVIOUS
  <1>1. SessionInv
        BY SessionInvInit
  <1>2. StopInv
        BY StopStepsAre DEF Init, StopInv, Workers
  <1>3. StaffInv
        BY DEF Init, StaffInv, Workers, AllModes
  <1>4. CopyInv
    <2>1. Len(shown) = 0 /\ given = 0 /\ remainder = 0 /\ cpc = "idle"
          BY DEF Init
    <2> QED
          BY <2>1, SessionAssumption DEF CopyInv, TextPlaces
  <1>5. ClosingInv
        BY DEF Init, ClosingInv, AllModes
  <1>6. ChainInv
    <2>1. /\ shown = <<>> /\ pending = NoPending /\ mode = "none" /\ made = 0
          /\ cpc = "idle" /\ q["token"].items = <<>>
          BY DEF Init, EmptyQueue, QueueNames
    <2>2. Out = "token" /\ Len(shown) = 0
          BY <2>1 DEF Out
    <2>3. InHand = 0 /\ ForClient = 0 /\ Behind = 0 /\ Produced = 0
          BY <2>1, <2>2 DEF InHand, ForClient, Behind, Produced
    <2>4. Taken = 0 /\ Sent = 0
          BY <2>2, <2>3 DEF Taken, Sent
    <2>5. Consecutive(q[Out].items, Taken)
          BY <2>1, <2>2 DEF Consecutive
    <2>6. Chain
          BY <2>1, <2>3, <2>4, <2>5 DEF Chain
    <2> QED
          BY <2>1, <2>6 DEF ChainInv, TextInOrder, TextPlaces
  <1> QED
      BY <1>1, <1>2, <1>3, <1>4, <1>5, <1>6 DEF TextInv

LEMMA TextInvStep == TextInv /\ [Next]_vars => TextInv'
PROOF
  BY SessionInvStep, StopStep, StaffStep, CopyStep, ClosingStep, ChainStep
  DEF TextInv, SessionInv

(* The client gets the pieces in the order in which the session produced them,
   none twice and none left out, whichever thread the scheduler prefers and
   whatever fails: PollText's loop over the output queue and the pending segment
   (llmvoice.cpp), fed by the segmenter and by the announcements of TTS. *)
THEOREM InOrder == Spec => []TextInOrder
PROOF
  <1>1. Init => TextInv
        BY TextInvInit
  <1>2. TextInv /\ [Next]_vars => TextInv'
        BY TextInvStep
  <1>3. TextInv => TextInOrder
        BY DEF TextInv, ChainInv
  <1> QED
      BY <1>1, <1>2, <1>3, PTL DEF Spec

-----------------------------------------------------------------------------
(* When TTS has ended without a failure, it has taken everything, and nothing
   more will come. *)
FinishInv ==
    /\ Open /\ mode = "pipeline" /\ cpc \notin {"count", "spawn", "stop", "join"}
    /\ pc["tts"] \in {"leave", "off"} /\ ~threw["tts"]
    => q["toTts"].items = <<>> /\ q["toTts"].closed

(* A step that keeps TTS where it is and does not open its queue. *)
LEMMA FinishKept ==
    ASSUME FinishInv, UNCHANGED <<mode, cpc>>, Open' = Open,
           pc'["tts"] \in {"leave", "off"} /\ ~threw'["tts"] =>
               pc["tts"] \in {"leave", "off"} /\ ~threw["tts"],
           q["toTts"].items = <<>> /\ q["toTts"].closed =>
               q'["toTts"].items = <<>> /\ q'["toTts"].closed
    PROVE  FinishInv'
PROOF
  BY DEF FinishInv

(* TTS leaves its loop when its queue is closed and empty, or by a failure. *)
LEMMA WorkersFinish ==
    ASSUME TextInv, FinishInv, Llm \/ Seg \/ Tts
    PROVE  FinishInv'
PROOF
  <1>1. /\ UNCHANGED <<shown, pending, mode, cpc>> /\ Open' = Open /\ mode \in AllModes
        /\ threw["tts"] => threw'["tts"]
        BY WorkersFrame DEF Workers, TextInv
  <1>2. /\ q \in [QueueNames -> Queues(Nat)] /\ pc \in [Workers -> WorkerPlaces]
        /\ \A n \in QueueNames : q[n] \in Queues(Nat)
        /\ threw \in [Workers -> BOOLEAN] /\ "tts" \in Workers
        /\ "token" \in QueueNames /\ "toTts" \in QueueNames /\ "segOut" \in QueueNames
        /\ "pcmStart" \in QueueNames /\ SegmenterOut \in QueueNames
        BY DEF TextInv, SessionInv, TypeOK, SharedTypes, WorkerTypes, QueueNames, Workers,
           SegmenterOut
  <1>3. CASE Llm
    <2>1. pc'["tts"] = pc["tts"] /\ threw'["tts"] = threw["tts"]
          BY <1>2, <1>3 DEF Llm, LlmGenerate, LlmThrow, LlmPush, CloseOutput, RecordFailure,
             Leave, Throw, Goto, Workers
    <2>2. q' = q \/ \E x : q' = [q EXCEPT !["token"] = x]
          BY <1>3 DEF Llm, LlmGenerate, LlmThrow, LlmPush, CloseOutput, RecordFailure, Leave
    <2>3. q'["toTts"] = q["toTts"]
          BY <1>2, <2>2
    <2> QED
          BY <1>1, <2>1, <2>3, FinishKept
  <1>4. CASE Seg
    <2>1. pc'["tts"] = pc["tts"] /\ threw'["tts"] = threw["tts"]
          BY <1>2, <1>4 DEF Seg, SegPop, SegThrow, SegEmit, CloseOutput, StopUpstream,
             RecordFailure, Leave, Throw, Goto, Workers
    <2>2. q["toTts"].items = <<>> /\ q["toTts"].closed =>
              q'["toTts"].items = <<>> /\ q'["toTts"].closed
      <3>1. CASE SegPop
        <4>1. q' = q \/ q' = [q EXCEPT !["token"] = Popped(q["token"])]
              BY <3>1 DEF SegPop
        <4> QED
              BY <1>2, <4>1
      <3>2. CASE SegEmit
        <4>1. q' = [q EXCEPT ![SegmenterOut] = Pushed(q[SegmenterOut], made + 1)]
              BY <3>2 DEF SegEmit
        <4>2. q["toTts"].closed => Pushed(q["toTts"], made + 1) = q["toTts"]
              BY DEF Pushed
        <4> QED
              BY <1>2, <4>1, <4>2
      <3>3. CASE CloseOutput("seg")
        <4>1. q' = [q EXCEPT ![SegmenterOut] = Closed(q[SegmenterOut])]
              BY <3>3 DEF CloseOutput
        <4>2. Closed(q["toTts"]).items = q["toTts"].items /\ Closed(q["toTts"]).closed
              BY <1>2 DEF Closed, Queues
        <4> QED
              BY <1>2, <4>1, <4>2
      <3>4. CASE StopUpstream("seg")
        <4>1. stop["seg"] < Len(StopSteps["seg"]) /\ stop["seg"] \in Nat
              BY <3>4, StopStepsAre DEF StopUpstream, TextInv, StopInv, SessionInv, TypeOK,
                 SharedTypes
        <4>2. StopSteps["seg"][stop["seg"] + 1] \in {"llm", "token"}
              BY <4>1, StopStepsAre
        <4> DEFINE x == StopSteps["seg"][stop["seg"] + 1]
        <4>3. Halt(x) /\ x # "toTts"
              BY <3>4, <4>2 DEF StopUpstream
        <4> HIDE DEF x
        <4> QED
              BY <1>2, <4>3 DEF Halt
      <3>5. CASE SegThrow \/ RecordFailure("seg") \/ Leave("seg")
        <4>1. q' = q
              BY <3>5 DEF SegThrow, RecordFailure, Leave
        <4> QED
              BY <4>1
      <3> QED
            BY <1>4, <3>1, <3>2, <3>3, <3>4, <3>5 DEF Seg
    <2> QED
          BY <1>1, <2>1, <2>2, FinishKept
  <1>5. CASE Tts
    <2> SUFFICES ASSUME Open, mode = "pipeline", pc'["tts"] \in {"leave", "off"},
                        ~threw'["tts"]
                 PROVE  FinishInv'
        BY <1>1 DEF FinishInv
    <2>1. ~q["segOut"].closed /\ ~q["pcmStart"].closed
          BY DEF TextInv, ClosingInv
    <2>2. CASE TtsPop
      <3>1. IsEmpty(q["toTts"]) /\ q' = q /\ q["toTts"].closed
            BY <1>2, <2>2 DEF TtsPop, Goto, CanPop
      <3> QED
            BY <3>1 DEF FinishInv, IsEmpty
    <2>3. CASE Leave("tts")
      <3>1. pc["tts"] = "leave" /\ UNCHANGED <<q, threw>>
            BY <2>3 DEF Leave
      <3> QED
            BY <1>1, <3>1, FinishKept
    <2>4. CASE RecordFailure("tts")
      <3>1. pc["tts"] = "fail" /\ threw' = threw
            BY <2>4 DEF RecordFailure
      <3>2. threw["tts"]
            BY <1>2, <3>1 DEF TextInv, SessionInv, OutcomeInv
      <3> QED
            BY <3>1, <3>2
    <2>5. CASE TtsThrow \/ StopUpstream("tts")
      <3>1. pc'["tts"] \in {"stop", "fail"}
            BY <1>2, <2>5 DEF TtsThrow, StopUpstream, Throw, Goto
      <3> QED
            BY <3>1
    <2>6. CASE \/ TtsPushStart \/ TtsPushText \/ TtsSkip \/ TtsSynthesize
               \/ TtsWrite \/ TtsCancelled
      <3>1. pc'["tts"] \in {"out", "speak", "synth", "pop"}
            BY <1>2, <2>1, <2>6 DEF TtsPushStart, TtsPushText, TtsAnnounce, TtsSkip,
               TtsSynthesize, TtsWrite, TtsCancelled, Goto, AfterSpeech
      <3> QED
            BY <3>1
    <2> QED
          BY <1>5, <2>2, <2>3, <2>4, <2>5, <2>6 DEF Tts
  <1> QED
      BY <1>3, <1>4, <1>5

(* A step of the client that leaves the session alone, or is stopping it. *)
LEMMA FinishStep == TextInv /\ FinishInv /\ [Next]_vars => FinishInv'
PROOF
  <1> SUFFICES ASSUME TextInv, FinishInv, [Next]_vars PROVE FinishInv'
      OBVIOUS
  <1>t. /\ q \in [QueueNames -> Queues(Nat)] /\ pc \in [Workers -> WorkerPlaces]
        /\ "toTts" \in QueueNames /\ "pcmStart" \in QueueNames /\ "segOut" \in QueueNames
        /\ "tts" \in Workers
        BY DEF TextInv, SessionInv, TypeOK, SharedTypes, WorkerTypes, QueueNames, Workers
  <1>1. CASE Llm \/ Seg \/ Tts
        BY <1>1, WorkersFinish
  <1>2. CASE Begin
        BY <1>2 DEF Begin, FinishInv
  <1>3. CASE Join
        BY <1>3 DEF Join, FreshSession, FinishInv
  <1>4. CASE SpawnWorker
    <2>1. /\ cpc = "spawn" /\ starting \in StillToStart(mode) /\ mode' = mode
          /\ pc' = [pc EXCEPT ![Head(starting)] = FirstStep(Head(starting))]
          /\ cpc' = "count" \/ Len(starting) = 1
          BY <1>4 DEF SpawnWorker, Goto, TextInv, StaffInv
    <2>2. CASE cpc' = "count"
          BY <2>2 DEF FinishInv
    <2>3. CASE Len(starting) = 1 /\ mode = "pipeline"
      <3>1. starting \in {<<"llm", "seg", "tts">>, <<"seg", "tts">>, <<"tts">>}
            BY <2>1, <2>3 DEF StillToStart
      <3>2. Head(starting) = "tts"
            BY <2>3, <3>1
      <3>3. pc'["tts"] = "pop"
            BY <1>t, <2>1, <2>3, <3>2 DEF FirstStep
      <3> QED
            BY <3>3 DEF FinishInv
    <2> QED
          BY <2>1, <2>2, <2>3 DEF FinishInv
  <1>5. CASE SpawnFails \/ StopSession \/ (\E c \in {"cancel", "destroy"} : Cancel(c))
             \/ CountWorker
        BY <1>5 DEF SpawnFails, StopSession, Cancel, CountWorker, FinishInv
  <1>6. CASE TakeText \/ TakeStart
    <2>1. q'["toTts"] = q["toTts"] \/ mode # "pipeline"
      <3>1. mode = "pipeline" => Out = "segOut"
            BY DEF Out
      <3>2. \/ q' = q \/ q' = [q EXCEPT ![Out] = Popped(q[Out])]
            \/ q' = [q EXCEPT !["pcmStart"] = Popped(q["pcmStart"])]
            BY <1>6 DEF TakeText, TakeStart
      <3> QED
            BY <1>t, <3>1, <3>2
    <2>2. UNCHANGED <<mode, pc, threw, stop>> /\ cpc \in {"take", "takeStart"}
          BY <1>6 DEF TakeText, TakeStart
    <2> QED
          BY <2>1, <2>2 DEF FinishInv, Open
  <1>7. CASE \/ LookWorkers \/ LookText \/ LookPcm \/ Report
             \/ CheckAudio \/ CheckWorkers \/ CheckPcm
    <2>1. UNCHANGED <<mode, pc, threw, stop, q>>
          BY <1>7 DEF LookWorkers, LookText, LookPcm, Look, Report,
             CheckAudio, CheckWorkers, CheckPcm, HoldOrRelease, workerSide
    <2>2. cpc \notin {"count", "spawn", "stop", "join"}
          BY <1>7 DEF LookWorkers, LookText, LookPcm, Look, Report,
             CheckAudio, CheckWorkers, CheckPcm, HoldOrRelease
    <2> QED
          BY <2>1, <2>2 DEF FinishInv, Open
  <1>8. CASE NewCall /\ ~(\E c \in {"cancel", "destroy"} : Cancel(c))
    <2>1. UNCHANGED <<mode, pc, threw, stop, q>>
          BY <1>8 DEF NewCall, Create, SubmitNull, IsDone, PollNothing, Submit,
             PollText, workerSide
    <2>2. cpc' = cpc \/ cpc \notin {"count", "spawn", "stop", "join"}
          BY <1>8 DEF NewCall, Create, SubmitNull, IsDone, PollNothing, Submit,
             PollText, MayCall
    <2> QED
          BY <2>1, <2>2 DEF FinishInv, Open
  <1>9. CASE Audio \/ UNCHANGED vars
    <2>1. UNCHANGED <<mode, pc, threw, stop, q, cpc>>
          BY <1>9 DEF Audio, PollPcm, workerSide, vars, clientSide
    <2> QED
          BY <2>1 DEF FinishInv, Open
  <1> QED
      BY <1>1, <1>2, <1>3, <1>4, <1>5, <1>6, <1>7, <1>8, <1>9 DEF Next, InCall

(* When everything is drained, what was produced is what was shown, and what was
   shown is what was copied. *)
LEMMA DoneMeansAll ==
    ASSUME TextInv, FinishInv, DoneMeansDrained
    PROVE  NothingLost
PROOF
  <1> SUFFICES ASSUME cpc = "done", HasSession
               PROVE  /\ given = PieceLen * Len(shown)
                      /\ (\A w \in Workers : ~threw[w]) => Len(shown) = Produced
      BY DEF NothingLost
  <1>1. AllOff /\ remainder = 0 /\ pending = NoPending /\ q[Out].items = <<>>
        BY DEF DoneMeansDrained
  <1>2. given \in Nat
        BY DEF TextInv, SessionInv, TypeOK, ClientTypes
  <1>3. given = PieceLen * Len(shown)
        BY <1>1, <1>2 DEF TextInv, CopyInv
  <1>4. ASSUME \A w \in Workers : ~threw[w]
        PROVE  Len(shown) = Produced
    <2>1. Open /\ Chain
          BY DEF TextInv, StopInv, Open, ChainInv
    <2>2. Len(shown) \in Nat
          BY CountTypes DEF TextInv, SessionInv
    <2>3. ForClient = 0 /\ InHand = 0
          BY <1>1 DEF ForClient, InHand
    <2>4. Sent = Len(shown)
          BY <2>2, <2>3 DEF Sent, Taken
    <2>5. Behind = 0
      <3>1. CASE mode = "pipeline"
        <4>1. pc["tts"] = "off" /\ ~threw["tts"]
              BY <1>1, <1>4 DEF AllOff, Workers
        <4>2. q["toTts"].items = <<>>
              BY <2>1, <3>1, <4>1 DEF FinishInv
        <4>3. AtTts = 0 /\ ForTts = 0
              BY <4>1, <4>2 DEF AtTts, ForTts
        <4> QED
              BY <4>3 DEF Behind
      <3> QED
            BY <3>1 DEF Behind
    <2>6. ~Cut
          BY <1>4 DEF Cut, Workers
    <2> QED
          BY <2>1, <2>2, <2>4, <2>5, <2>6 DEF Chain
  <1> QED
      BY <1>3, <1>4

(* When IsDone says true, every byte of what was released has been copied to the
   client, and unless a stage failed everything that was produced has been
   released (llmvoiceIsDone, isSessionDone and PollText of llmvoice.cpp). *)
THEOREM Complete == Spec => []NothingLost
PROOF
  <1>1. Init => TextInv /\ FinishInv
        BY TextInvInit DEF Init, FinishInv
  <1>2. TextInv /\ FinishInv /\ [Next]_vars => (TextInv /\ FinishInv)'
        BY TextInvStep, FinishStep
  <1>3. TextInv /\ FinishInv /\ DoneMeansDrained => NothingLost
        BY DoneMeansAll
  <1>4. Spec => []DoneMeansDrained
        BY Drained
  <1> QED
      BY <1>1, <1>2, <1>3, <1>4, PTL DEF Spec

-----------------------------------------------------------------------------
(* Text and audio.  In the pipeline every segment on its way to the client has
   the position where its audio starts beside it, in a queue of its own. *)
StartsQueued == Len(q["pcmStart"].items)
Announcing == IF pc["tts"] = "out" THEN 1 ELSE 0
Taking == IF cpc = "takeStart" THEN 1 ELSE 0

(* The last segment that the client holds together with its position. *)
Base == IF cpc = "takeStart" THEN Len(shown) ELSE Taken

(* Position p was read for segment s before its audio: it is where the audio
   starts, or there is none yet; while TTS is at that segment, nothing was
   written since. *)
StartsAt(s, p) ==
    s \in DOMAIN speech =>
        \/ speech[s] = p
        \/ /\ speech[s] < 0
           /\ pc["tts"] \in {"out", "speak", "synth"} /\ s = cur => p = written

Starts ==
    /\ StartsQueued = ForClient + Announcing + Taking
    /\ pc["tts"] \in {"speak", "synth"} =>
           /\ cur = Sent
           /\ cur \in DOMAIN speech /\ speech[cur] < 0 => cur > Len(shown)
    /\ \A s \in DOMAIN speech : s > Sent => speech[s] < 0
    /\ pending # NoPending /\ cpc # "takeStart" => StartsAt(pending.seg, pending.start)
    /\ \A k \in 1..StartsQueued : StartsAt(Base + k, q["pcmStart"].items[k])

AudioInv ==
    /\ read <= written
    /\ \A s \in DOMAIN speech : speech[s] < written
    /\ TextNotBeforeAudio
    /\ mode \in {"raw", "segmented"} => \A s \in DOMAIN speech : speech[s] < 0
    /\ mode = "tts" => shown = <<>>
    /\ cpc = "noPcm" => AllOff
    /\ Open /\ mode = "pipeline" => Starts

(* The counts and positions are numbers. *)
LEMMA AudioTypesOf ==
    ASSUME SessionInv
    PROVE  /\ written \in Nat /\ read \in Nat /\ cur \in Nat
           /\ DOMAIN speech = 0..MaxSegments /\ MaxSegments \in Nat
           /\ \A s \in DOMAIN speech : speech[s] \in Int
           /\ pending.seg \in Nat /\ pending.start \in Nat
           /\ q["pcmStart"].items \in Seq(Nat) /\ StartsQueued \in Nat
           /\ Announcing \in Nat /\ Taking \in Nat /\ Base \in Nat
           /\ Len(shown) \in Nat /\ Taken \in Nat /\ Sent \in Nat /\ ForClient \in Nat
PROOF
  <1>1. /\ written \in Nat /\ read \in Nat /\ cur \in Nat
        /\ pending \in [seg : Nat, start : Nat] /\ speech \in [0..MaxSegments -> Int]
        BY DEF SessionInv, TypeOK, SharedTypes, ClientTypes, WorkerTypes
  <1>2. /\ q["pcmStart"].items \in Seq(Nat)
        /\ Len(shown) \in Nat /\ Taken \in Nat /\ Sent \in Nat /\ ForClient \in Nat
        BY CountTypes DEF SessionInv
  <1>3. Announcing \in Nat /\ Taking \in Nat /\ StartsQueued \in Nat
        BY <1>2 DEF Announcing, Taking, StartsQueued
  <1>4. Base \in Nat
        BY <1>2 DEF Base
  <1> QED
      BY <1>1, <1>2, <1>3, <1>4, SessionAssumption

(* A step that leaves text, positions and audio where they are. *)
LEMMA StartsKept ==
    ASSUME SessionInv, Starts, mode = "pipeline",
           UNCHANGED <<mode, shown, pending, written, speech>>,
           q'["segOut"].items = q["segOut"].items,
           q'["pcmStart"].items = q["pcmStart"].items,
           cpc' = "takeStart" <=> cpc = "takeStart",
           pc'["tts"] = "out" <=> pc["tts"] = "out",
           pc'["tts"] \in {"out", "speak", "synth"} =>
               pc["tts"] \in {"out", "speak", "synth"} /\ cur' = cur
    PROVE  Starts'
PROOF
  <1>1. Out = "segOut" /\ Out' = "segOut"
        BY DEF Out
  <1>2. /\ StartsQueued' = StartsQueued /\ ForClient' = ForClient
        /\ Announcing' = Announcing /\ Taking' = Taking
        BY <1>1 DEF StartsQueued, ForClient, Announcing, Taking
  <1>3. Taken' = Taken
        BY DEF Taken, InHand
  <1>4. Sent' = Sent /\ Base' = Base
        BY <1>2, <1>3 DEF Sent, Base
  <1>5. \A s, p : StartsAt(s, p) =>
            (s \in DOMAIN speech' =>
                \/ speech'[s] = p
                \/ /\ speech'[s] < 0
                   /\ pc'["tts"] \in {"out", "speak", "synth"} /\ s = cur' => p = written')
        BY DEF StartsAt
  <1>6. pending' # NoPending /\ cpc' # "takeStart" => StartsAt(pending.seg, pending.start)'
        BY <1>5 DEF Starts, StartsAt
  <1>7. ASSUME NEW k \in 1..StartsQueued'
        PROVE  StartsAt(Base + k, q["pcmStart"].items[k])'
    <2>1. StartsAt(Base + k, q["pcmStart"].items[k])
          BY <1>2 DEF Starts
    <2> QED
          BY <1>4, <1>5, <2>1 DEF StartsAt
  <1> QED
      BY <1>2, <1>4, <1>6, <1>7 DEF Starts

(* A step that writes no audio and shows no text. *)
LEMMA AudioKept ==
    ASSUME SessionInv, AudioInv, UNCHANGED <<mode, shown, written, speech>>,
           read' \in Nat, read <= read', read' <= written, cpc' = "noPcm" => AllOff',
           Open' /\ mode = "pipeline" => Starts'
    PROVE  AudioInv'
PROOF
  <1>1. \A i \in DOMAIN shown : shown[i] \in DOMAIN speech => speech[shown[i]] \in Int
        BY AudioTypesOf
  <1>2. read \in Nat
        BY AudioTypesOf
  <1>3. TextNotBeforeAudio'
        BY <1>1, <1>2 DEF AudioInv, TextNotBeforeAudio
  <1> QED
      BY <1>3 DEF AudioInv

(* TTS notes the position of the segment at hand, which follows those sent and
   has no audio yet. *)
LEMMA PushStartKeepsStarts ==
    ASSUME TextInv, AudioInv, TtsPushStart, Open, mode = "pipeline",
           UNCHANGED <<shown, pending, mode, cpc>>
    PROVE  Starts'
PROOF
  <1>t. /\ written \in Nat /\ cur \in Nat
        /\ q["pcmStart"].items \in Seq(Nat) /\ StartsQueued \in Nat
        /\ Announcing \in Nat /\ Taking \in Nat /\ Base \in Nat
        /\ Len(shown) \in Nat /\ Taken \in Nat /\ Sent \in Nat /\ ForClient \in Nat
        /\ DOMAIN speech = 0..MaxSegments /\ MaxSegments \in Nat
        BY AudioTypesOf DEF TextInv
  <1>q. /\ q \in [QueueNames -> Queues(Nat)] /\ pc \in [Workers -> WorkerPlaces]
        /\ "pcmStart" \in QueueNames /\ "segOut" \in QueueNames
        BY DEF TextInv, SessionInv, TypeOK, SharedTypes, WorkerTypes, QueueNames
  <1>1. Starts /\ Chain /\ ~q["pcmStart"].closed
        BY DEF AudioInv, TextInv, ChainInv, ClosingInv
  <1>2. /\ q' = [q EXCEPT !["pcmStart"] = Pushed(q["pcmStart"], written)]
        /\ pc["tts"] = "start" /\ pc' = [pc EXCEPT !["tts"] = "out"]
        /\ UNCHANGED <<cur, speech, written>>
        BY <1>1 DEF TtsPushStart, TtsAnnounce, Goto, ttsVars
  <1>3. /\ q'["pcmStart"].items = Append(q["pcmStart"].items, written)
        /\ q'["segOut"] = q["segOut"] /\ pc'["tts"] = "out"
        BY <1>q, <1>1, <1>2 DEF Pushed, Queues, Workers
  <1>4. Out = "segOut" /\ Out' = "segOut"
        BY DEF Out
  <1>5. ForClient' = ForClient /\ Taken' = Taken /\ Taking' = Taking
        BY <1>3, <1>4 DEF ForClient, Taken, InHand, Taking
  <1>6. Sent' = Sent /\ Base' = Base
        BY <1>5 DEF Sent, Base
  <1>7. Announcing = 0 /\ Announcing' = 1
        BY <1>2, <1>3 DEF Announcing
  <1>8. AtTts = 1 /\ cur = Sent + 1
        BY <1>1, <1>2 DEF AtTts, Chain
  <1>9. StartsQueued' = StartsQueued + 1
        BY <1>t, <1>3 DEF StartsQueued
  <1>10. StartsQueued' = ForClient' + Announcing' + Taking'
         BY <1>t, <1>1, <1>5, <1>7, <1>9 DEF Starts
  <1>11. Base + StartsQueued = Sent
    <2>1. CASE cpc = "takeStart"
      <3>1. Taking = 1 /\ Base = Len(shown) /\ InHand = 1
            BY <2>1 DEF Taking, Base, TextInv, ChainInv, TextPlaces, InHand
      <3>2. Sent = Len(shown) + 1 + ForClient
            BY <1>t, <3>1 DEF Sent, Taken
      <3> QED
            BY <1>t, <1>1, <1>7, <3>1, <3>2 DEF Starts
    <2>2. CASE cpc # "takeStart"
          BY <1>t, <1>1, <1>7, <2>2 DEF Starts, Sent, Taking, Base
    <2> QED
          BY <2>1, <2>2
  <1>12. \A s, p : s # cur /\ StartsAt(s, p) => StartsAt(s, p)'
         BY <1>2, <1>3 DEF StartsAt
  <1>13. ASSUME NEW k \in 1..StartsQueued'
         PROVE  StartsAt(Base + k, q["pcmStart"].items[k])'
    <2>1. CASE k \in 1..StartsQueued
      <3>1. q'["pcmStart"].items[k] = q["pcmStart"].items[k]
            BY <1>t, <1>3, <2>1 DEF StartsQueued
      <3>2. Base + k # cur
            BY <1>t, <1>8, <1>11, <2>1
      <3>3. StartsAt(Base + k, q["pcmStart"].items[k])
            BY <1>1, <2>1 DEF Starts
      <3> QED
            BY <1>2, <1>3, <1>6, <3>1, <3>2, <3>3 DEF StartsAt
    <2>2. CASE k = StartsQueued + 1
      <3>1. q'["pcmStart"].items[k] = written
            BY <1>t, <1>3, <2>2 DEF StartsQueued
      <3>2. Base + k = cur /\ cur > Sent
            BY <1>t, <1>8, <1>11, <2>2
      <3>3. cur \in DOMAIN speech => speech[cur] < 0
            BY <1>1, <3>2 DEF Starts
      <3> QED
            BY <1>2, <1>6, <3>1, <3>2, <3>3 DEF StartsAt
    <2> QED
          BY <1>t, <1>9, <2>1, <2>2
  <1>14. pending' # NoPending /\ cpc' # "takeStart" => StartsAt(pending.seg, pending.start)'
    <2> SUFFICES ASSUME pending # NoPending, cpc # "takeStart"
                 PROVE  StartsAt(pending.seg, pending.start)'
        OBVIOUS
    <2>1. StartsAt(pending.seg, pending.start)
          BY <1>1 DEF Starts
    <2>2. pending.seg = Len(shown) + 1 /\ Taken = Len(shown) + 1
          BY <1>1 DEF Chain, Taken, InHand
    <2>3. pending.seg # cur
          BY <1>t, <1>8, <2>2 DEF Sent
    <2> QED
          BY <1>2, <1>3, <2>1, <2>3 DEF StartsAt
  <1> QED
      BY <1>1, <1>2, <1>3, <1>6, <1>10, <1>13, <1>14 DEF Starts

(* Then its text follows, and nothing was written in between. *)
LEMMA PushTextKeepsStarts ==
    ASSUME TextInv, AudioInv, TtsPushText, Open, mode = "pipeline",
           UNCHANGED <<shown, pending, mode, cpc>>
    PROVE  Starts'
PROOF
  <1>t. /\ written \in Nat /\ cur \in Nat /\ StartsQueued \in Nat
        /\ q["segOut"].items \in Seq(Nat)
        /\ Announcing \in Nat /\ Taking \in Nat /\ Base \in Nat
        /\ Len(shown) \in Nat /\ Taken \in Nat /\ Sent \in Nat /\ ForClient \in Nat
        /\ DOMAIN speech = 0..MaxSegments /\ MaxSegments \in Nat
        BY AudioTypesOf, CountTypes DEF TextInv, SessionInv
  <1>q. /\ q \in [QueueNames -> Queues(Nat)] /\ pc \in [Workers -> WorkerPlaces]
        /\ "pcmStart" \in QueueNames /\ "segOut" \in QueueNames
        BY DEF TextInv, SessionInv, TypeOK, SharedTypes, WorkerTypes, QueueNames
  <1>1. Starts /\ Chain /\ ~q["segOut"].closed
        BY DEF AudioInv, TextInv, ChainInv, ClosingInv
  <1>2. /\ q' = [q EXCEPT !["segOut"] = Pushed(q["segOut"], cur)]
        /\ pc["tts"] = "out" /\ pc' = [pc EXCEPT !["tts"] = "speak"]
        /\ UNCHANGED <<cur, speech, written>>
        BY <1>1 DEF TtsPushText, TtsAnnounce, Goto, ttsVars
  <1>3. /\ q'["segOut"].items = Append(q["segOut"].items, cur)
        /\ q'["pcmStart"] = q["pcmStart"] /\ pc'["tts"] = "speak"
        BY <1>q, <1>1, <1>2 DEF Pushed, Queues, Workers
  <1>4. Out = "segOut" /\ Out' = "segOut"
        BY DEF Out
  <1>5. Taken' = Taken /\ Taking' = Taking /\ StartsQueued' = StartsQueued
        BY <1>3 DEF Taken, InHand, Taking, StartsQueued
  <1>6. ForClient' = ForClient + 1
        BY <1>t, <1>3, <1>4 DEF ForClient
  <1>7. Base' = Base /\ Sent = Taken + ForClient /\ Sent' = Taken' + ForClient'
        BY <1>5 DEF Sent, Base
  <1>8. Sent' = Sent + 1
        BY <1>t, <1>5, <1>6, <1>7
  <1>9. Announcing = 1 /\ Announcing' = 0
        BY <1>2, <1>3 DEF Announcing
  <1>10. StartsQueued' = ForClient' + Announcing' + Taking'
         BY <1>t, <1>1, <1>5, <1>6, <1>9 DEF Starts
  <1>11. AtTts = 1 /\ cur = Sent + 1 /\ cur = Sent'
         BY <1>1, <1>2, <1>8 DEF AtTts, Chain
  <1>12. cur' > Len(shown')
    <2>1. Taken >= Len(shown)
          BY <1>t DEF Taken, InHand
    <2> QED
          BY <1>t, <1>2, <1>7, <1>11, <2>1
  <1>13. \A s \in DOMAIN speech' : s > Sent' => speech'[s] < 0
    <2>1. \A s \in DOMAIN speech : s > Sent' => s > Sent
          BY <1>t, <1>8
    <2> QED
          BY <1>1, <1>2, <2>1 DEF Starts
  <1>14. pending' # NoPending /\ cpc' # "takeStart" => StartsAt(pending.seg, pending.start)'
         BY <1>1, <1>2, <1>3 DEF Starts, StartsAt
  <1>15. ASSUME NEW k \in 1..StartsQueued'
         PROVE  StartsAt(Base + k, q["pcmStart"].items[k])'
    <2>1. StartsAt(Base + k, q["pcmStart"].items[k])
          BY <1>1, <1>5 DEF Starts
    <2> QED
          BY <1>2, <1>3, <1>7, <2>1 DEF StartsAt
  <1> QED
      BY <1>2, <1>3, <1>10, <1>11, <1>12, <1>13, <1>14, <1>15 DEF Starts

(* Audio is written for the segment at hand, whose text has not been shown
   unless it already had audio. *)
LEMMA WriteKeepsAudio ==
    ASSUME TextInv, AudioInv, TtsWrite, mode \in {"pipeline", "tts"},
           UNCHANGED <<shown, pending, mode, cpc, read>>, Open' = Open
    PROVE  AudioInv'
PROOF
  <1>t. /\ written \in Nat /\ read \in Nat /\ cur \in Nat /\ StartsQueued \in Nat
        /\ DOMAIN speech = 0..MaxSegments /\ speech \in [0..MaxSegments -> Int]
        /\ pc \in [Workers -> WorkerPlaces] /\ left \in Nat /\ Len(shown) \in Nat
        /\ q["pcmStart"].items \in Seq(Nat)
        BY AudioTypesOf DEF TextInv, SessionInv, TypeOK, WorkerTypes
  <1>1. /\ pc["tts"] = "synth" /\ ~cancelled["tts"]
        /\ pc' = [pc EXCEPT !["tts"] = IF Min2(left, PcmCapa - Available) = left
                                       THEN AfterSpeech ELSE "synth"]
        /\ speech' = [speech EXCEPT ![cur] = IF speech[cur] < 0 THEN written ELSE speech[cur]]
        /\ UNCHANGED <<q, cur, made, tokens>>
        BY DEF TtsWrite, Goto, segVars
  <1>2. Open
        BY <1>1, StopStepsAre DEF TextInv, StopInv, Open, SessionInv, TypeOK, SharedTypes
  <1>3. PICK n \in Nat : n > 0 /\ written' = written + n
    <2>1. Min2(left, PcmCapa - Available) \in Int
          BY <1>t, SessionAssumption DEF Min2, Available
    <2> QED
          BY <2>1 DEF TtsWrite
  <1>4. /\ DOMAIN speech' = DOMAIN speech
        /\ \A s \in DOMAIN speech : speech'[s] = IF s = cur /\ speech[s] < 0 THEN written
                                                 ELSE speech[s]
        BY <1>t, <1>1
  <1>5. read' <= written' /\ \A s \in DOMAIN speech' : speech'[s] < written'
        BY <1>t, <1>3, <1>4 DEF AudioInv
  <1>6. TextInOrder
        BY DEF TextInv, ChainInv
  <1>7. CASE mode = "tts"
    <2>1. shown = <<>>
          BY <1>7 DEF AudioInv
    <2>2. DOMAIN shown' = {}
          BY <2>1
    <2> QED
          BY <1>1, <1>5, <1>7, <2>1, <2>2 DEF AudioInv, TextNotBeforeAudio, AllOff, Workers
  <1>8. CASE mode = "pipeline"
    <2>1. Starts
          BY <1>2, <1>8 DEF AudioInv
    <2>2. TextNotBeforeAudio'
      <3> SUFFICES ASSUME NEW i \in DOMAIN shown, shown[i] \in DOMAIN speech,
                          speech'[shown[i]] >= 0
                   PROVE  read > speech'[shown[i]]
          BY <1>4 DEF TextNotBeforeAudio
      <3>1. shown[i] = i /\ i <= Len(shown) /\ i \in Nat
        <4>1. shown \in Seq(Nat)
              BY DEF TextInv, SessionInv, TypeOK, ClientTypes
        <4> QED
              BY <1>6, <4>1 DEF TextInOrder
      <3>2. ~(i = cur /\ speech[cur] < 0)
            BY <1>t, <1>1, <2>1, <3>1 DEF Starts
      <3>3. speech'[shown[i]] = speech[shown[i]]
            BY <1>4, <3>1, <3>2
      <3> QED
            BY <3>3 DEF AudioInv, TextNotBeforeAudio
    <2>3. \A s, p : p \in Nat /\ StartsAt(s, p) =>
              (s \in DOMAIN speech' =>
                \/ speech'[s] = p
                \/ /\ speech'[s] < 0
                   /\ pc'["tts"] \in {"out", "speak", "synth"} /\ s = cur' => p = written')
      <3> SUFFICES ASSUME NEW s \in DOMAIN speech, NEW p \in Nat, StartsAt(s, p)
                   PROVE  speech'[s] = p \/ (speech'[s] < 0 /\ s # cur)
          BY <1>1, <1>4
      <3>1. CASE s = cur /\ speech[s] < 0
        <4>1. p = written
              BY <1>t, <1>1, <3>1 DEF StartsAt
        <4> QED
              BY <1>4, <3>1, <4>1
      <3>2. CASE s = cur /\ ~(speech[s] < 0)
            BY <1>4, <3>2 DEF StartsAt
      <3>3. CASE s # cur
            BY <1>4, <3>3 DEF StartsAt
      <3> QED
            BY <3>1, <3>2, <3>3
    <2>4. Out = "segOut" /\ Out' = "segOut"
          BY <1>8 DEF Out
    <2>5. pc'["tts"] \in {"pop", "synth"}
          BY <1>t, <1>1, <1>8 DEF AfterSpeech, Workers
    <2>6. /\ StartsQueued' = StartsQueued /\ ForClient' = ForClient
          /\ Announcing' = Announcing /\ Taking' = Taking /\ Taken' = Taken
          BY <1>1, <2>4, <2>5 DEF StartsQueued, ForClient, Announcing, Taking, Taken, InHand
    <2>7. Sent' = Sent /\ Base' = Base
          BY <2>6 DEF Sent, Base
    <2>8. cur = Sent
          BY <1>1, <2>1 DEF Starts
    <2>9. cur \in DOMAIN speech => ~(speech'[cur] < 0)
          BY <1>t, <1>4
    <2>10. \A s \in DOMAIN speech' : s > Sent' => speech'[s] < 0
      <3>1. \A s \in DOMAIN speech : s > Sent => s # cur
            BY <1>t, <2>8
      <3> QED
            BY <1>4, <2>1, <2>7, <3>1 DEF Starts
    <2>11. pending' # NoPending /\ cpc' # "takeStart" => StartsAt(pending.seg, pending.start)'
      <3>1. pending.start \in Nat
            BY AudioTypesOf DEF TextInv
      <3> QED
            BY <2>1, <2>3, <3>1 DEF Starts, StartsAt
    <2>12. ASSUME NEW k \in 1..StartsQueued'
           PROVE  StartsAt(Base + k, q["pcmStart"].items[k])'
      <3>1. q["pcmStart"].items[k] \in Nat
            BY <1>t, <2>6 DEF StartsQueued
      <3>2. StartsAt(Base + k, q["pcmStart"].items[k])
            BY <2>1, <2>6 DEF Starts
      <3> QED
            BY <1>1, <2>3, <2>7, <3>1, <3>2 DEF StartsAt
    <2>13. Starts'
           BY <1>1, <2>1, <2>6, <2>7, <2>8, <2>9, <2>10, <2>11, <2>12 DEF Starts
    <2> QED
           BY <1>1, <1>5, <1>8, <2>2, <2>13 DEF AudioInv, AllOff, Workers
  <1> QED
      BY <1>7, <1>8

(* No other step of a worker writes audio; text and positions stay where the
   pipeline has them. *)
LEMMA WorkersKeepAudio ==
    ASSUME TextInv, AudioInv, Llm \/ Seg \/ Tts
    PROVE  AudioInv'
PROOF
  <1>1. /\ UNCHANGED <<shown, pending, mode, cpc, read>> /\ Open' = Open /\ mode \in AllModes
        BY WorkersFrame DEF TextInv
  <1>2. cpc' # "noPcm"
        BY <1>1, WorkerMoves DEF AudioInv, AllOff, TextInv, SessionInv
  <1>3. /\ q \in [QueueNames -> Queues(Nat)] /\ pc \in [Workers -> WorkerPlaces]
        /\ "token" \in QueueNames /\ "toTts" \in QueueNames /\ "segOut" \in QueueNames
        /\ "pcmStart" \in QueueNames /\ "tts" \in Workers
        /\ stop \in [{"client", "seg", "tts"} -> Nat]
        BY StopStepsAre DEF TextInv, SessionInv, TypeOK, SharedTypes, WorkerTypes, QueueNames,
           Workers
  <1>4. read \in Nat /\ written \in Nat /\ read <= written
        BY AudioTypesOf DEF TextInv, AudioInv
  <1>5. ASSUME UNCHANGED <<written, speech>>, Open /\ mode = "pipeline" => Starts'
        PROVE  AudioInv'
        BY <1>1, <1>2, <1>4, <1>5, AudioKept DEF TextInv
  <1>6. CASE Llm
    <2>1. UNCHANGED <<written, speech, cur>> /\ pc'["tts"] = pc["tts"]
          BY <1>3, <1>6 DEF Llm, LlmGenerate, LlmThrow, LlmPush, CloseOutput, RecordFailure,
             Leave, Throw, Goto, ttsVars, Workers
    <2>2. q' = q \/ \E x : q' = [q EXCEPT !["token"] = x]
          BY <1>6 DEF Llm, LlmGenerate, LlmThrow, LlmPush, CloseOutput, RecordFailure, Leave
    <2>3. q'["segOut"] = q["segOut"] /\ q'["pcmStart"] = q["pcmStart"]
          BY <1>3, <2>2
    <2>4. Open /\ mode = "pipeline" => Starts'
          BY <1>1, <2>1, <2>3, StartsKept DEF AudioInv, TextInv
    <2> QED
          BY <1>5, <2>1, <2>4
  <1>7. CASE Seg
    <2>1. UNCHANGED <<written, speech, cur>> /\ pc'["tts"] = pc["tts"]
          BY <1>3, <1>7 DEF Seg, SegPop, SegThrow, SegEmit, CloseOutput, StopUpstream,
             RecordFailure, Leave, Throw, Goto, ttsVars, Workers
    <2>2. ASSUME mode = "pipeline"
          PROVE  q'["segOut"] = q["segOut"] /\ q'["pcmStart"] = q["pcmStart"]
      <3>1. SegmenterOut = "toTts"
            BY <2>2 DEF SegmenterOut
      <3>2. CASE StopUpstream("seg")
        <4>1. stop["seg"] < Len(StopSteps["seg"]) /\ stop["seg"] \in Nat
              BY <1>3, <3>2 DEF StopUpstream, TextInv, StopInv
        <4>2. StopSteps["seg"][stop["seg"] + 1] \in {"llm", "token"}
              BY <4>1, StopStepsAre
        <4> DEFINE x == StopSteps["seg"][stop["seg"] + 1]
        <4>3. Halt(x) /\ x \in {"llm", "token"}
              BY <3>2, <4>2 DEF StopUpstream
        <4> HIDE DEF x
        <4> QED
              BY <1>3, <4>3 DEF Halt
      <3>3. CASE ~StopUpstream("seg")
        <4>1. \/ q' = q \/ \E x : q' = [q EXCEPT !["token"] = x]
              \/ \E x : q' = [q EXCEPT !["toTts"] = x]
              BY <1>7, <3>1, <3>3 DEF Seg, SegPop, SegThrow, SegEmit, CloseOutput,
                 RecordFailure, Leave
        <4> QED
              BY <1>3, <4>1
      <3> QED
            BY <3>2, <3>3
    <2>3. Open /\ mode = "pipeline" => Starts'
          BY <1>1, <2>1, <2>2, StartsKept DEF AudioInv, TextInv
    <2> QED
          BY <1>5, <2>1, <2>3
  <1>8. CASE Tts
    <2>1. pc["tts"] # "off"
          BY <1>8 DEF Tts, TtsPop, TtsPushStart, TtsPushText, TtsAnnounce, TtsSkip,
             TtsSynthesize, TtsWrite, TtsCancelled, TtsThrow, StopUpstream, RecordFailure, Leave
    <2>2. mode \in {"pipeline", "tts"}
          BY <1>1, <2>1 DEF TextInv, StaffInv, AllModes
    <2>3. CASE TtsWrite
          BY <1>1, <2>2, <2>3, WriteKeepsAudio
    <2>4. CASE TtsPushStart \/ TtsPushText
      <3>1. UNCHANGED <<written, speech>>
            BY <2>4 DEF TtsPushStart, TtsPushText, TtsAnnounce, ttsVars
      <3>2. Open /\ mode = "pipeline" => Starts'
            BY <1>1, <2>4, PushStartKeepsStarts, PushTextKeepsStarts
      <3> QED
            BY <1>5, <3>1, <3>2
    <2>5. CASE StopUpstream("tts")
      <3>1. stop["tts"] < Len(StopSteps["tts"]) /\ stop["tts"] \in Nat
            BY <1>3, <2>5 DEF StopUpstream, TextInv, StopInv
      <3> DEFINE x == StopSteps["tts"][stop["tts"] + 1]
      <3>2. Halt(x) /\ x \in {"llm", "token", "toTts"}
            BY <2>5, <3>1, StopStepsAre DEF StopUpstream
      <3> HIDE DEF x
      <3>3. q'["segOut"] = q["segOut"] /\ q'["pcmStart"] = q["pcmStart"]
            BY <1>3, <3>2 DEF Halt
      <3>4. UNCHANGED <<written, speech, cur>> /\ pc["tts"] = "stop"
            /\ pc'["tts"] \in {"stop", "fail"}
            BY <1>3, <2>5 DEF StopUpstream, Goto, ttsVars
      <3>5. Open /\ mode = "pipeline" => Starts'
            BY <1>1, <3>3, <3>4, StartsKept DEF AudioInv, TextInv
      <3> QED
            BY <1>5, <3>4, <3>5
    <2>6. CASE \/ TtsPop \/ TtsSkip \/ TtsSynthesize \/ TtsCancelled \/ TtsThrow
               \/ RecordFailure("tts") \/ Leave("tts")
      <3>1. UNCHANGED <<written, speech>>
            /\ (q' = q \/ q' = [q EXCEPT !["toTts"] = Popped(q["toTts"])])
            BY <2>6 DEF TtsPop, TtsSkip, TtsSynthesize, TtsCancelled, TtsThrow,
               RecordFailure, Leave, ttsVars
      <3>2. q'["segOut"] = q["segOut"] /\ q'["pcmStart"] = q["pcmStart"]
            BY <1>3, <3>1
      <3>3. pc["tts"] # "out" /\ pc'["tts"] # "out"
            BY <1>3, <2>6 DEF TtsPop, TtsSkip, TtsSynthesize, TtsCancelled, TtsThrow,
               RecordFailure, Leave, Throw, Goto, AfterSpeech
      <3>4. pc'["tts"] \in {"out", "speak", "synth"} =>
                pc["tts"] \in {"out", "speak", "synth"} /\ cur' = cur
            BY <1>3, <2>6 DEF TtsPop, TtsSkip, TtsSynthesize, TtsCancelled, TtsThrow,
               RecordFailure, Leave, Throw, Goto, AfterSpeech
      <3>5. Open /\ mode = "pipeline" => Starts'
            BY <1>1, <3>1, <3>2, <3>3, <3>4, StartsKept DEF AudioInv, TextInv
      <3> QED
            BY <1>5, <3>1, <3>5
    <2> QED
          BY <1>8, <2>3, <2>4, <2>5, <2>6 DEF Tts
  <1> QED
      BY <1>6, <1>7, <1>8

(* The pending segment goes out: the client polled the first frame of its
   audio, or there is no worker left and all audio was polled. *)
LEMMA PendingKeepsAudio ==
    ASSUME TextInv, AudioInv, pending # NoPending, cpc \in {"audio", "noPcm"},
           Release(pending.seg), UNCHANGED <<q, written, read, pc, cur, speech, stop, mode>>,
           read > pending.start \/ (AllOff /\ read = written)
    PROVE  AudioInv'
PROOF
  <1>t. /\ written \in Nat /\ read \in Nat /\ cur \in Nat
        /\ DOMAIN speech = 0..MaxSegments /\ MaxSegments \in Nat
        /\ \A s \in DOMAIN speech : speech[s] \in Int
        /\ pending.seg \in Nat /\ pending.start \in Nat
        /\ StartsQueued \in Nat /\ Announcing \in Nat /\ Taking \in Nat /\ Base \in Nat
        /\ Len(shown) \in Nat /\ Taken \in Nat /\ Sent \in Nat /\ ForClient \in Nat
        /\ shown \in Seq(Nat)
        BY AudioTypesOf DEF TextInv, SessionInv, TypeOK, ClientTypes
  <1>1. mode = "pipeline" /\ Open /\ TextInOrder
        BY DEF TextInv, ChainInv, StopInv, Open
  <1>2. Starts /\ Chain
        BY <1>1 DEF AudioInv, TextInv, ChainInv
  <1>3. StartsAt(pending.seg, pending.start) /\ pending.seg = Len(shown) + 1
        BY <1>2 DEF Starts, Chain
  <1>4. PICK s \in Nat : s = pending.seg /\ s = Len(shown) + 1
        BY <1>t, <1>3
  <1>5. /\ shown' = Append(shown, s) /\ pending' = NoPending /\ cpc' \in {"idle", "take"}
        /\ Len(shown') = Len(shown) + 1
        BY <1>t, <1>4 DEF Release, Return
  <1>6. s \in DOMAIN speech /\ speech[s] >= 0 => read > speech[s]
    <2>1. CASE read > pending.start
          BY <1>t, <1>3, <1>4, <2>1 DEF StartsAt
    <2>2. CASE read = written
          BY <2>2 DEF AudioInv
    <2> QED
          BY <2>1, <2>2
  <1>7. TextNotBeforeAudio'
    <2> SUFFICES ASSUME NEW i \in 1..(Len(shown) + 1), shown'[i] \in DOMAIN speech,
                        speech[shown'[i]] >= 0
                 PROVE  read > speech[shown'[i]]
        BY <1>t, <1>5 DEF TextNotBeforeAudio
    <2>1. CASE i \in 1..Len(shown)
      <3>1. shown'[i] = shown[i] /\ i \in DOMAIN shown
            BY <1>t, <1>5, <2>1
      <3> QED
            BY <3>1 DEF AudioInv, TextNotBeforeAudio
    <2>2. CASE i = Len(shown) + 1
      <3>1. shown'[i] = s
            BY <1>t, <1>5, <2>2
      <3> QED
            BY <1>6, <3>1
    <2> QED
          BY <1>t, <2>1, <2>2
  <1>8. /\ StartsQueued' = StartsQueued /\ Announcing' = Announcing
        /\ Taking = 0 /\ Taking' = 0 /\ Out' = Out
        BY <1>5 DEF StartsQueued, Announcing, Taking, Out
  <1>9. ForClient' = ForClient
        BY <1>8 DEF ForClient
  <1>10. Taken = Len(shown) + 1 /\ Taken' = Len(shown) + 1
         BY <1>t, <1>5 DEF Taken, InHand
  <1>11. Sent' = Sent /\ Base' = Base
         BY <1>5, <1>9, <1>10 DEF Sent, Base
  <1>12. ASSUME pc["tts"] \in {"speak", "synth"}, cur \in DOMAIN speech, speech[cur] < 0
         PROVE  cur > Len(shown')
    <2>1. cur > Len(shown)
          BY <1>2, <1>12 DEF Starts
    <2>2. ~AllOff /\ read > pending.start /\ read <= written
          BY <1>12 DEF AllOff, Workers, AudioInv
    <2>3. cur # s
          BY <1>t, <1>3, <1>4, <1>12, <2>2 DEF StartsAt
    <2> QED
          BY <1>t, <1>4, <1>5, <2>1, <2>3
  <1>13. ASSUME NEW k \in 1..StartsQueued'
         PROVE  StartsAt(Base + k, q["pcmStart"].items[k])'
    <2>1. StartsAt(Base + k, q["pcmStart"].items[k])
          BY <1>2, <1>8 DEF Starts
    <2> QED
          BY <1>11, <2>1 DEF StartsAt
  <1>14. Starts'
         BY <1>2, <1>5, <1>8, <1>9, <1>11, <1>12, <1>13 DEF Starts
  <1> QED
      BY <1>1, <1>5, <1>7, <1>14 DEF AudioInv

(* A piece that waits for no audio is shown where no audio is made. *)
LEMMA TextAloneKeepsAudio ==
    ASSUME TextInv, AudioInv, mode \in {"raw", "segmented"}, NEW s \in Nat, Release(s),
           UNCHANGED <<written, read, speech, mode>>
    PROVE  AudioInv'
PROOF
  <1>1. cpc' # "noPcm"
        BY DEF Release, Return
  <1>2. \A i \in DOMAIN speech : speech[i] < 0
        BY DEF AudioInv
  <1>3. \A i \in DOMAIN speech : speech[i] \in Int
        BY AudioTypesOf DEF TextInv
  <1>4. TextNotBeforeAudio'
    <2> SUFFICES ASSUME NEW i \in DOMAIN shown', shown'[i] \in DOMAIN speech
                 PROVE  ~(speech[shown'[i]] >= 0)
        BY DEF TextNotBeforeAudio
    <2> QED
        BY <1>2, <1>3
  <1> QED
      BY <1>1, <1>2, <1>4 DEF AudioInv

(* The next segment becomes the pending one; its position still waits. *)
LEMMA TakeKeepsStarts ==
    ASSUME TextInv, AudioInv, TakeText, pending = NoPending, ~IsEmpty(q[Out]),
           mode = "pipeline"
    PROVE  Starts'
PROOF
  <1>t. /\ q["segOut"].items \in Seq(Nat) /\ StartsQueued \in Nat
        /\ Announcing \in Nat /\ Taking \in Nat /\ Base \in Nat
        /\ Len(shown) \in Nat /\ Taken \in Nat /\ Sent \in Nat /\ ForClient \in Nat
        /\ Len(shown') \in Nat
        BY AudioTypesOf, CountTypes DEF TextInv, SessionInv, TakeText
  <1>q. /\ q \in [QueueNames -> Queues(Nat)]
        /\ "pcmStart" \in QueueNames /\ "segOut" \in QueueNames
        BY DEF TextInv, SessionInv, TypeOK, SharedTypes, QueueNames
  <1>1. Out = "segOut"
        BY DEF Out
  <1>2. /\ cpc = "take" /\ cpc' = "takeStart"
        /\ q' = [q EXCEPT !["segOut"] = Popped(q["segOut"])]
        /\ pending' = [seg |-> Head(q["segOut"].items), start |-> 0]
        /\ UNCHANGED <<shown, mode, written, pc, cur, speech, stop>>
        BY <1>1 DEF TakeText, ttsVars
  <1>3. Open /\ Starts /\ Chain
        BY <1>2 DEF TextInv, StopInv, Open, AudioInv, ChainInv
  <1>4. q'["segOut"].items = Tail(q["segOut"].items) /\ q'["pcmStart"] = q["pcmStart"]
        BY <1>q, <1>2 DEF Popped
  <1>5. Out' = "segOut" /\ q["segOut"].items # <<>>
        BY <1>1, <1>2 DEF Out, IsEmpty
  <1>6. ForClient' = ForClient - 1 /\ ForClient >= 1
    <2>1. PICK items \in Seq(Nat) : items = q["segOut"].items
          BY <1>t
    <2>2. items # <<>> /\ ForClient = Len(items) /\ ForClient' = Len(Tail(items))
          BY <1>1, <1>4, <1>5, <2>1 DEF ForClient
    <2> QED
          BY <2>2
  <1>7. /\ StartsQueued' = StartsQueued /\ Announcing' = Announcing
        /\ Taking = 0 /\ Taking' = 1
        BY <1>2, <1>4 DEF StartsQueued, Announcing, Taking
  <1>8. StartsQueued' = ForClient' + Announcing' + Taking'
        BY <1>t, <1>3, <1>6, <1>7 DEF Starts
  <1>9. Taken = Len(shown) /\ Base = Taken /\ Base' = Len(shown)
        BY <1>t, <1>2 DEF Taken, InHand, Base
  <1>10. Head(q["segOut"].items) = Len(shown) + 1
    <2>1. PICK items \in Seq(Nat) : items = q["segOut"].items /\ items # <<>>
          BY <1>t, <1>5
    <2>2. PICK n \in Nat : n = Len(shown)
          BY <1>t
    <2>3. Consecutive(items, n)
          BY <1>1, <1>3, <1>9, <2>1, <2>2 DEF Chain
    <2> QED
          BY <2>1, <2>2, <2>3, ConsecutivePop
  <1>11. pending' # NoPending
    <2>1. pending'.seg # 0
          BY <1>t, <1>2, <1>10
    <2> QED
          BY <2>1 DEF NoPending, NoSegment
  <1>12. Taken' = Len(shown) + 1
         BY <1>2, <1>11 DEF Taken, InHand
  <1>13. Sent' = Sent
    <2>1. Sent = Taken + ForClient /\ Sent' = Taken' + ForClient'
          BY DEF Sent
    <2> QED
          BY <1>t, <1>6, <1>9, <1>12, <2>1
  <1>14. ASSUME NEW k \in 1..StartsQueued'
         PROVE  StartsAt(Base + k, q["pcmStart"].items[k])'
    <2>1. StartsAt(Base + k, q["pcmStart"].items[k])
          BY <1>3, <1>7 DEF Starts
    <2> QED
          BY <1>2, <1>4, <1>9, <2>1 DEF StartsAt
  <1> QED
      BY <1>2, <1>3, <1>8, <1>13, <1>14 DEF Starts

(* The position that waited first is that of the pending segment. *)
LEMMA TakeStartKeepsStarts ==
    ASSUME TextInv, AudioInv, TakeStart
    PROVE  mode = "pipeline" /\ Starts'
PROOF
  <1>t. /\ q["pcmStart"].items \in Seq(Nat) /\ StartsQueued \in Nat
        /\ Announcing \in Nat /\ Taking \in Nat /\ Base \in Nat
        /\ Len(shown) \in Nat /\ Taken \in Nat /\ Sent \in Nat /\ ForClient \in Nat
        /\ pending \in [seg : Nat, start : Nat]
        BY AudioTypesOf DEF TextInv, SessionInv, TypeOK, ClientTypes
  <1>q. /\ q \in [QueueNames -> Queues(Nat)]
        /\ "pcmStart" \in QueueNames /\ "segOut" \in QueueNames
        BY DEF TextInv, SessionInv, TypeOK, SharedTypes, QueueNames
  <1>1. /\ cpc = "takeStart" /\ cpc' = "audio"
        /\ UNCHANGED <<shown, mode, written, pc, cur, speech, stop>>
        BY DEF TakeStart, ttsVars
  <1>2. pending # NoPending /\ mode = "pipeline" /\ Open
        BY <1>1 DEF TextInv, ChainInv, TextPlaces, StopInv, Open
  <1>3. Starts /\ Chain
        BY <1>2 DEF AudioInv, TextInv, ChainInv
  <1>4. Taking = 1 /\ Taking' = 0
        BY <1>1 DEF Taking
  <1>5. PICK items \in Seq(Nat) : items = q["pcmStart"].items
        BY <1>t
  <1>6. StartsQueued = Len(items) /\ Len(items) \in Nat /\ Len(items) >= 1 /\ items # <<>>
    <2>1. StartsQueued = Len(items) /\ StartsQueued >= 1
          BY <1>t, <1>3, <1>4, <1>5 DEF Starts, StartsQueued
    <2> QED
          BY <2>1
  <1>7. /\ pending' = [pending EXCEPT !.start = Head(items)]
        /\ q' = [q EXCEPT !["pcmStart"] = Popped(q["pcmStart"])]
        BY <1>5, <1>6 DEF TakeStart, IsEmpty
  <1>8. q'["pcmStart"].items = Tail(items) /\ q'["segOut"] = q["segOut"]
        BY <1>q, <1>5, <1>7 DEF Popped
  <1>9. pending'.seg = pending.seg /\ pending'.start = Head(items)
        /\ pending.seg = Len(shown) + 1
        BY <1>t, <1>2, <1>3, <1>7 DEF Chain
  <1>10. pending' # NoPending
    <2>1. pending'.seg # 0
          BY <1>t, <1>9
    <2> QED
          BY <2>1 DEF NoPending, NoSegment
  <1>11. Out = "segOut" /\ Out' = "segOut"
         BY <1>1, <1>2 DEF Out
  <1>12. /\ ForClient' = ForClient /\ Announcing' = Announcing /\ Taken' = Taken
         /\ Taken = Len(shown) + 1
         BY <1>1, <1>2, <1>8, <1>10, <1>11 DEF ForClient, Announcing, Taken, InHand
  <1>13. Sent' = Sent /\ Base = Len(shown) /\ Base' = Len(shown) + 1
         BY <1>1, <1>12 DEF Sent, Base
  <1>14. StartsQueued' = StartsQueued - 1
         BY <1>6, <1>8 DEF StartsQueued
  <1>15. StartsQueued' = ForClient' + Announcing' + Taking'
         BY <1>t, <1>3, <1>4, <1>12, <1>14 DEF Starts
  <1>16. \A k \in 1..Len(items) : StartsAt(Len(shown) + k, items[k])
         BY <1>3, <1>5, <1>6, <1>13 DEF Starts
  <1>17. StartsAt(pending.seg, pending.start)'
    <2>1. StartsAt(Len(shown) + 1, items[1]) /\ Head(items) = items[1]
          BY <1>6, <1>16
    <2> QED
          BY <1>1, <1>9, <2>1 DEF StartsAt
  <1>18. ASSUME NEW k \in 1..StartsQueued'
         PROVE  StartsAt(Base + k, q["pcmStart"].items[k])'
    <2>1. k + 1 \in 1..Len(items) /\ Tail(items)[k] = items[k + 1]
          BY <1>6, <1>14
    <2>2. StartsAt(Len(shown) + (k + 1), items[k + 1])
          BY <1>16, <2>1
    <2>3. Base' + k = Len(shown) + (k + 1)
          BY <1>t, <1>13, <2>1
    <2> QED
          BY <1>1, <1>8, <2>1, <2>2, <2>3 DEF StartsAt
  <1>19. Starts'
         BY <1>1, <1>3, <1>13, <1>15, <1>17, <1>18 DEF Starts
  <1> QED
      BY <1>2, <1>19

(* Every step keeps text behind its audio. *)
LEMMA AudioStep == TextInv /\ AudioInv /\ [Next]_vars => AudioInv'
PROOF
  <1> SUFFICES ASSUME TextInv, AudioInv, [Next]_vars PROVE AudioInv'
      OBVIOUS
  <1>t. /\ q \in [QueueNames -> Queues(Nat)] /\ pc \in [Workers -> WorkerPlaces]
        /\ stop \in [{"client", "seg", "tts"} -> Nat]
        /\ read \in Nat /\ written \in Nat /\ read <= written /\ "tts" \in Workers
        BY StopStepsAre, AudioTypesOf
        DEF TextInv, SessionInv, TypeOK, SharedTypes, WorkerTypes, Workers, AudioInv
  <1>1. CASE Llm \/ Seg \/ Tts
        BY <1>1, WorkersKeepAudio
  <1>2. CASE Begin \/ Join
    <2>1. PICK m : FreshSession(m)
          BY <1>2 DEF Begin, Join
    <2>2. /\ shown' = <<>> /\ pending' = NoPending /\ written' = 0 /\ read' = 0
          /\ speech' = [s \in 0..MaxSegments |-> -1]
          /\ \A n \in QueueNames : q'[n].items = <<>>
          /\ pc'["tts"] = "off"
          BY <2>1 DEF FreshSession, EmptyQueue, Workers
    <2>3. cpc' \notin {"noPcm", "takeStart"}
          BY <1>2 DEF Begin, Join, Return
    <2>4. q'[Out'].items = <<>> /\ q'["pcmStart"].items = <<>>
          BY <2>2 DEF Out, QueueNames
    <2>5. StartsQueued' = 0 /\ ForClient' = 0 /\ Announcing' = 0 /\ Taking' = 0
          BY <2>2, <2>3, <2>4 DEF StartsQueued, ForClient, Announcing, Taking
    <2>6. Starts'
          BY <2>2, <2>5 DEF Starts
    <2>7. TextNotBeforeAudio'
          BY <2>2 DEF TextNotBeforeAudio
    <2> QED
          BY <2>2, <2>3, <2>6, <2>7 DEF AudioInv
  <1>3. CASE SpawnWorker
    <2>1. starting \in Remaining /\ starting \in StillToStart(mode) /\ cpc = "spawn"
          BY <1>3 DEF SpawnWorker, TextInv, SessionInv, Phases, StaffInv
    <2> DEFINE w == Head(starting)
    <2>2. /\ pc' = [pc EXCEPT ![w] = FirstStep(w)]
          /\ UNCHANGED <<mode, q, stop, shown, pending, cur, written, read, speech>>
          BY <1>3 DEF SpawnWorker, Goto, ttsVars
    <2>3. pc[w] = "off" /\ w \in Workers
          BY <2>1 DEF TextInv, SessionInv, QuietInv, StillOff, Remaining, Workers
    <2>4. mode = "pipeline" =>
              pc'["tts"] = pc["tts"] \/ (pc["tts"] = "off" /\ pc'["tts"] = "pop")
          BY <1>t, <2>2, <2>3 DEF FirstStep, Workers
    <2>5. cpc' \notin {"noPcm", "takeStart"} /\ cpc # "takeStart" /\ Open' = Open
          BY <1>3, <2>1, <2>2 DEF SpawnWorker, Return, Open
    <2>6. Open' /\ mode = "pipeline" => Starts'
          BY <2>2, <2>4, <2>5, StartsKept DEF AudioInv, TextInv
    <2> QED
          BY <1>t, <2>2, <2>5, <2>6, AudioKept DEF TextInv
  <1>4. CASE StopSession
    <2>1. stop["client"] \in Nat /\ stop'["client"] = stop["client"] + 1
          BY <1>t, <1>4 DEF StopSession
    <2>2. Open' => stop["client"] = 0 /\ Open
          BY <2>1 DEF Open
    <2>3. Open' => UNCHANGED q
          BY <1>4, <2>2, StopStepsAre DEF StopSession, Halt, QueueNames
    <2>4. /\ UNCHANGED <<mode, pc, shown, pending, cur, written, read, speech>>
          /\ cpc' \notin {"noPcm", "takeStart"} /\ cpc # "takeStart"
          BY <1>4 DEF StopSession, ttsVars
    <2>5. Open' /\ mode = "pipeline" => Starts'
          BY <2>2, <2>3, <2>4, StartsKept DEF AudioInv, TextInv
    <2> QED
          BY <1>t, <2>4, <2>5, AudioKept DEF TextInv
  <1>5. CASE TakeText
    <2>1. /\ cpc = "take"
          /\ UNCHANGED <<mode, pc, threw, cur, stop, written, read, speech>>
          BY <1>5 DEF TakeText, ttsVars
    <2>2. cpc' # "noPcm" /\ Open' = Open /\ Open /\ HasSession
          BY <1>5, <2>1 DEF TakeText, Release, Return, Open, TextInv, StopInv, CopyInv,
             TextPlaces
    <2>3. CASE pending = NoPending /\ ~IsEmpty(q[Out])
      <3>1. CASE mode = "pipeline"
        <4>1. Starts' /\ shown' = shown
              BY <1>5, <2>3, <3>1, TakeKeepsStarts DEF TakeText
        <4> QED
              BY <1>t, <2>1, <2>2, <4>1, AudioKept DEF TextInv
      <3>2. CASE mode \in {"raw", "segmented"}
        <4>1. q[Out].items \in Seq(Nat) /\ q[Out].items # <<>>
              BY <2>3, CountTypes DEF IsEmpty, TextInv, SessionInv
        <4>2. Head(q[Out].items) \in Nat /\ Release(Head(q[Out].items))
              BY <1>5, <2>3, <3>2, <4>1 DEF TakeText
        <4> QED
              BY <2>1, <3>2, <4>2, TextAloneKeepsAudio
      <3>3. CASE mode = "tts"
        <4>1. Chain /\ Behind = 0 /\ Produced = 0
              BY <2>2, <3>3 DEF TextInv, ChainInv, Behind, Produced
        <4>2. /\ Taken \in Nat /\ ForClient \in Nat /\ Out \in QueueNames
              /\ q[Out].items \in Seq(Nat)
              BY CountTypes DEF TextInv, SessionInv
        <4>3. ForClient = 0
              BY <4>1, <4>2 DEF Chain, Sent
        <4>4. q[Out].items = <<>>
              BY <4>2, <4>3 DEF ForClient
        <4> QED
              BY <2>3, <4>4 DEF IsEmpty
      <3> QED
            BY <2>2, <3>1, <3>2, <3>3
            DEF TextInv, SessionInv, TypeOK, ClientTypes, HasSession, AllModes
    <2>4. CASE pending # NoPending \/ IsEmpty(q[Out])
      <3>1. UNCHANGED <<q, pending, shown>> /\ cpc' # "takeStart"
            BY <1>5, <2>4 DEF TakeText, Return
      <3>2. Open' /\ mode = "pipeline" => Starts'
            BY <2>1, <2>2, <3>1, StartsKept DEF AudioInv, TextInv
      <3> QED
            BY <1>t, <2>1, <2>2, <3>1, <3>2, AudioKept DEF TextInv
    <2> QED
          BY <2>3, <2>4
  <1>6. CASE TakeStart
    <2>1. cpc' = "audio" /\ UNCHANGED <<mode, shown, written, speech, read>> /\ Starts'
          BY <1>6, TakeStartKeepsStarts DEF TakeStart, ttsVars
    <2> QED
          BY <1>t, <2>1, AudioKept DEF TextInv
  <1>7. CASE CheckAudio \/ CheckPcm
    <2>1. /\ cpc \in {"audio", "noPcm"} /\ cpc' \notin {"noPcm", "takeStart"}
          /\ UNCHANGED <<q, written, read, pc, cur, speech, stop, mode>>
          BY <1>7 DEF CheckAudio, CheckPcm, HoldOrRelease, workerSide, ttsVars, Release, Return
    <2>2. pending # NoPending
          BY <2>1 DEF TextInv, ChainInv, TextPlaces
    <2>3. CASE Release(pending.seg) /\ (read > pending.start \/ (AllOff /\ read = written))
          BY <2>1, <2>2, <2>3, PendingKeepsAudio
    <2>4. CASE UNCHANGED <<pending, shown>>
      <3>1. Open' = Open
            BY <2>1 DEF Open
      <3>2. Open' /\ mode = "pipeline" => Starts'
            BY <2>1, <2>4, <3>1, StartsKept DEF AudioInv, TextInv
      <3> QED
            BY <1>t, <2>1, <2>4, <3>2, AudioKept DEF TextInv
    <2>5. CheckPcm => AllOff
          BY DEF CheckPcm, HoldOrRelease, AudioInv
    <2>6. Available = 0 => read = written
          BY <1>t DEF Available
    <2> QED
          BY <1>7, <2>3, <2>4, <2>5, <2>6
          DEF CheckAudio, CheckPcm, HoldOrRelease, AudioStarted
  <1>8. CASE CheckWorkers
    <2>1. /\ cpc = "noWorkers" /\ cpc' # "takeStart"
          /\ cpc' = "noPcm" => NoWorkerRuns
          /\ UNCHANGED <<q, pending, shown, written, read, pc, cur, speech, stop, mode>>
          BY <1>8 DEF CheckWorkers, workerSide, ttsVars, Return
    <2>2. cpc' = "noPcm" => AllOff'
      <3>1. cpc' = "noPcm" => AllOff
            BY <2>1, ZeroMeansOff DEF TextInv, SessionInv, QuietInv, NoWorkerRuns
      <3> QED
            BY <2>1, <3>1 DEF AllOff
    <2>3. Open' = Open
          BY <2>1 DEF Open
    <2>4. Open' /\ mode = "pipeline" => Starts'
          BY <2>1, <2>3, StartsKept DEF AudioInv, TextInv
    <2> QED
          BY <1>t, <2>1, <2>2, <2>4, AudioKept DEF TextInv
  <1>9. CASE Audio
    <2>1. PICK n \in 1..Available : PollPcm(n)
          BY <1>9 DEF Audio
    <2>2. read' \in Nat /\ read <= read' /\ read' <= written
          BY <1>t, <2>1 DEF PollPcm, Available
    <2>3. UNCHANGED <<q, pending, shown, written, pc, cur, speech, stop, mode, cpc>>
          BY <2>1 DEF PollPcm, workerSide, ttsVars
    <2>4. Open' = Open /\ (AllOff => AllOff')
          BY <2>3 DEF Open, AllOff
    <2>5. Open' /\ mode = "pipeline" => Starts'
          BY <2>3, <2>4, StartsKept DEF AudioInv, TextInv
    <2> QED
          BY <2>2, <2>3, <2>4, <2>5, AudioKept DEF TextInv, AudioInv
  <1>10. CASE \/ LookWorkers \/ LookText \/ LookPcm \/ Report \/ CountWorker \/ SpawnFails
              \/ NewCall
    <2>1. /\ UNCHANGED <<q, pending, shown, written, read, pc, cur, speech, stop, mode>>
          /\ cpc # "takeStart" /\ cpc' # "takeStart" /\ cpc' # "noPcm"
      <3>1. CASE \/ LookWorkers \/ LookText \/ LookPcm \/ Report \/ CountWorker \/ SpawnFails
            BY <3>1 DEF LookWorkers, LookText, LookPcm, Look, Report, CountWorker, SpawnFails,
               workerSide, ttsVars, Return
      <3>2. CASE NewCall /\ ~Create
            BY <3>2 DEF NewCall, SubmitNull, IsDone, PollNothing, Submit, Cancel,
               PollText, workerSide, ttsVars, Return, MayCall
      <3>3. CASE Create
        <4>1. cpc = "idle"
              BY <3>3 DEF Create, TextInv, SessionInv, Startable
        <4> QED
              BY <3>3, <4>1 DEF Create, ttsVars
      <3> QED
            BY <1>10, <3>1, <3>2, <3>3
    <2>2. Open' = Open
          BY <2>1 DEF Open
    <2>3. Open' /\ mode = "pipeline" => Starts'
          BY <2>1, <2>2, StartsKept DEF AudioInv, TextInv
    <2> QED
          BY <1>t, <2>1, <2>3, AudioKept DEF TextInv
  <1>11. CASE UNCHANGED vars
    <2>1. UNCHANGED <<q, pending, shown, written, read, pc, cur, speech, stop, mode, cpc>>
          BY <1>11 DEF vars, clientSide, ttsVars
    <2>2. Open' = Open /\ (AllOff => AllOff')
          BY <2>1 DEF Open, AllOff
    <2>3. Open' /\ mode = "pipeline" => Starts'
          BY <2>1, <2>2, StartsKept DEF AudioInv, TextInv
    <2> QED
          BY <1>t, <2>1, <2>2, <2>3, AudioKept DEF TextInv, AudioInv
  <1> QED
      BY <1>1, <1>2, <1>3, <1>4, <1>5, <1>6, <1>7, <1>8, <1>9, <1>10, <1>11
      DEF Next, InCall

(* The text of a segment with audio is released only after the client has
   polled the first frame of that audio: PollText compares pcmOut.totalRead with
   the position that TTS noted before the text, and gives up on audio only after
   runningWorkers was 0 and the ring was empty (llmvoice.cpp, llmvoice.h:68). *)
THEOREM AudioFirst == Spec => []TextNotBeforeAudio
PROOF
  <1>1. Init => TextInv /\ AudioInv
    <2> SUFFICES ASSUME Init PROVE AudioInv
        BY TextInvInit
    <2>1. shown = <<>> /\ mode = "none" /\ read = 0 /\ written = 0 /\ cpc = "idle"
          /\ speech = [s \in 0..MaxSegments |-> -1]
          BY DEF Init
    <2> QED
          BY <2>1 DEF AudioInv, TextNotBeforeAudio
  <1>2. TextInv /\ AudioInv /\ [Next]_vars => (TextInv /\ AudioInv)'
        BY TextInvStep, AudioStep
  <1>3. AudioInv => TextNotBeforeAudio
        BY DEF AudioInv
  <1> QED
      BY <1>1, <1>2, <1>3, PTL DEF Spec

=============================================================================
