---------------------------- MODULE ClientProofs -----------------------------
(***************************************************************************)
(* Theorems about Client, for every value of its constants: the program    *)
(* uses a session as module Session allows, its exit code is right, and it *)
(* leaves its loop with all that the session had for it.                   *)
(***************************************************************************)
EXTENDS Client, SessionProofs

-----------------------------------------------------------------------------
(* Where in a call of Session the client can be. *)
Coherent ==
    /\ call = "none" <=> cpc \in {"idle", "done"}
    /\ cpc \in {"stop", "join"} => call \in AllModes \cup {"cancel", "destroy"}
    /\ cpc \in {"count", "spawn"} => call \in AllModes
    /\ cpc \in {"take", "takeStart", "audio", "noWorkers", "noPcm"} => call = "pollText"

Before == {"create", "prepare", "submit"}
Within == {"open", "ask", "asked", "poll", "polled", "finish", "close", "destroy"}

(* The calls main may be in. *)
CallsAt(p) ==
    CASE p = "submitted" -> AllModes
      [] p = "asked"     -> {"isDone"}
      [] p = "polled"    -> {"pollText"}
      [] p = "destroyed" -> {"destroy"}
      [] OTHER           -> {}

(* Where main is, the handle and the session it has, and the device. *)
MainInv ==
    /\ at \in Before \cup {"submitted"} \cup Within \cup {"destroyed"} \cup Over
    /\ call \in CallsAt(at) \cup {"none"}
    /\ at \in {"prepare", "submit", "submitted"} \cup Within => alive
    /\ at \in Before => mode = "none" /\ cpc = "idle"
    /\ at \in Within => HasSession
    /\ at \in {"finish", "close", "destroy"} => cpc = "done"
    /\ at = "submitted" =>
           cpc \in IF HasSession THEN {"count", "spawn", "stop", "join", "idle"}
                                ELSE {"begin", "idle"}
    /\ at \in {"destroyed"} \cup Over => AllOff
    /\ device => at \in {"ask", "asked", "poll", "polled", "finish", "close"}

(* What main knows of the stages that failed. *)
FailedInv ==
    /\ \A w \in Workers : threw[w] => w \in failed
    /\ at \in {"submitted"} \cup Within /\ HasSession => \A w \in failed : w \in Workers /\ threw[w]
    /\ at \in Before \/ cpc = "begin" => failed = {}
    /\ at = "destroyed" => (lastError = NoError <=> failed = {})
    /\ ExitTruth

(* No more audio was polled than was written. *)
NotAhead == read <= written

ClientInv == SessionInv /\ NotAhead /\ Coherent /\ MainInv /\ FailedInv

-----------------------------------------------------------------------------
(* A failure stays on record while the session lasts. *)
LEMMA ThrewGrows ==
    ASSUME TypeOK, Llm \/ Seg \/ Tts, NEW w \in Workers, threw[w]
    PROVE  threw'[w]
PROOF
  <1>1. threw \in [Workers -> BOOLEAN]
        BY DEF TypeOK, WorkerTypes
  <1>2. CASE Llm
        BY <1>1, <1>2 DEF Llm, LlmGenerate, LlmThrow, LlmPush, CloseOutput,
           RecordFailure, Leave, Throw
  <1>3. CASE Seg
        BY <1>1, <1>3 DEF Seg, SegPop, SegThrow, SegEmit, CloseOutput, StopUpstream,
           RecordFailure, Leave, Throw
  <1>4. CASE Tts
        BY <1>1, <1>4 DEF Tts, TtsPop, TtsPushStart, TtsPushText, TtsAnnounce, TtsSkip,
           TtsSynthesize, TtsWrite, TtsCancelled, TtsThrow, StopUpstream, RecordFailure,
           Leave, Throw
  <1> QED
      BY <1>2, <1>3, <1>4

(* The steps of a call in progress, by the call. *)
LEMMA InAskOrPoll ==
    ASSUME Phases, Coherent, InCall, call \in {"isDone", "pollText"}
    PROVE  /\ Coherent' /\ call' \in {call, "none"} /\ cpc' # "begin"
           /\ UNCHANGED <<alive, mode, pc, threw>>
PROOF
  <1>1. CASE LookWorkers \/ LookText \/ LookPcm \/ Report
        BY <1>1 DEF LookWorkers, LookText, LookPcm, Look, Report, Return, workerSide,
           Coherent, Phases, AllModes
  <1>2. CASE TakeText \/ TakeStart \/ CheckAudio \/ CheckWorkers \/ CheckPcm
        BY <1>2 DEF TakeText, TakeStart, CheckAudio, CheckWorkers, CheckPcm,
           HoldOrRelease, Release, Return, workerSide, Coherent
  <1>3. cpc \notin {"begin", "count", "spawn", "stop", "join"}
        BY DEF Phases, Coherent, AllModes
  <1> QED
      BY <1>1, <1>2, <1>3
      DEF InCall, Begin, CountWorker, SpawnWorker, SpawnFails, StopSession, Join

(* Destroy starts nothing, and reports no error of its own. *)
LEMMA InDestroy ==
    ASSUME Phases, Coherent, AllOff, InCall, call = "destroy"
    PROVE  /\ Coherent' /\ call' \in {"destroy", "none"} /\ cpc' # "begin"
           /\ AllOff' /\ lastError' = lastError
           /\ \A w \in Workers : threw'[w] => threw[w]
PROOF
  <1>1. cpc \in {"stop", "join"} \/ ~InCall
        BY DEF Phases, Coherent, AllModes, InCall, LookWorkers, LookText, LookPcm, Look,
           Report, Begin, CountWorker, SpawnWorker, SpawnFails, StopSession, Join,
           TakeText, TakeStart, CheckAudio, CheckWorkers, CheckPcm, HoldOrRelease
  <1>2. StopSession \/ Join
        BY <1>1 DEF InCall, LookWorkers, LookText, LookPcm, Look, Report, Begin,
           CountWorker, SpawnWorker, SpawnFails, TakeText, TakeStart, CheckAudio,
           CheckWorkers, CheckPcm, HoldOrRelease
  <1>3. CASE StopSession
        BY <1>3 DEF StopSession, Coherent, AllOff
  <1>4. CASE Join
        BY <1>4 DEF Join, FreshSession, Return, Coherent, AllOff, AllModes
  <1> QED
      BY <1>2, <1>3, <1>4

(* A submit makes a session; one that fails destroys it. *)
LEMMA InSubmit ==
    ASSUME TypeOK, Phases, Coherent, alive, InCall, call \in AllModes,
           cpc \in {"begin", "count", "spawn", "stop", "join"}
    PROVE  /\ Coherent' /\ alive' /\ call' \in {call, "none"}
           /\ \/ /\ cpc = "begin" /\ cpc' = "count" /\ mode' # "none"
                 /\ \A w \in Workers : ~threw'[w]
              \/ /\ cpc # "begin" /\ cpc' = "idle" /\ mode' = "none"
              \/ /\ cpc # "begin" /\ cpc' \in {"count", "spawn", "stop", "join", "idle"}
                 /\ UNCHANGED <<mode, threw>>
PROOF
  <1>1. Begin \/ CountWorker \/ SpawnWorker \/ SpawnFails \/ StopSession \/ Join
        BY DEF InCall, LookWorkers, LookText, LookPcm, Look, Report, TakeText, TakeStart,
           CheckAudio, CheckWorkers, CheckPcm, HoldOrRelease
  <1>2. CASE Begin
        BY <1>2 DEF Begin, FreshSession, Coherent, AllModes
  <1>3. CASE CountWorker
        BY <1>3 DEF CountWorker, Coherent
  <1>4. CASE SpawnWorker
        BY <1>4 DEF SpawnWorker, Return, Coherent, AllModes
  <1>5. CASE SpawnFails
        BY <1>5 DEF SpawnFails, Coherent
  <1>6. CASE StopSession
        BY <1>6 DEF StopSession, Coherent
  <1>7. CASE Join
        BY <1>7 DEF Join, FreshSession, Return, Coherent, AllModes
  <1> QED
      BY <1>1, <1>2, <1>3, <1>4, <1>5, <1>6, <1>7

(* Only audio that was written is polled. *)
LEMMA NotAheadStep == TypeOK /\ NotAhead /\ [Next]_vars => NotAhead'
PROOF
  <1> SUFFICES ASSUME TypeOK, NotAhead, [Next]_vars PROVE NotAhead'
      OBVIOUS
  <1>1. read \in Nat /\ written \in Nat
        BY DEF TypeOK, ClientTypes, SharedTypes
  <1>2. CASE Llm \/ Seg
        BY <1>2 DEF Llm, LlmGenerate, LlmThrow, LlmPush, Seg, SegPop, SegThrow, SegEmit,
           CloseOutput, StopUpstream, RecordFailure, Leave, clientSide, NotAhead
  <1>3. CASE Tts
    <2>1. CASE TtsWrite
      <3>1. PICK n : n > 0 /\ n = Min2(left, PcmCapa - Available) /\ written' = written + n
            BY <2>1 DEF TtsWrite
      <3>2. n \in Int
            BY <1>1, <3>1, SessionAssumption DEF Min2, Available, TypeOK, WorkerTypes
      <3> QED
            BY <1>1, <2>1, <3>1, <3>2 DEF TtsWrite, clientSide, NotAhead
    <2>2. CASE ~TtsWrite
          BY <1>3, <2>2 DEF Tts, TtsPop, TtsPushStart, TtsPushText, TtsAnnounce, TtsSkip,
             TtsSynthesize, TtsCancelled, TtsThrow, StopUpstream, RecordFailure, Leave,
             clientSide, NotAhead
    <2> QED
          BY <2>1, <2>2
  <1>4. CASE NewCall
        BY <1>4 DEF NewCall, Create, SubmitNull, IsDone, PollNothing, Submit, Cancel,
           PollText, workerSide, NotAhead
  <1>5. CASE Begin \/ Join
        BY <1>5 DEF Begin, Join, FreshSession, NotAhead
  <1>6. CASE \/ LookWorkers \/ LookText \/ LookPcm \/ Report \/ CountWorker
             \/ SpawnWorker \/ SpawnFails \/ StopSession
        BY <1>6 DEF LookWorkers, LookText, LookPcm, Look, Report, CountWorker,
           SpawnWorker, SpawnFails, StopSession, workerSide, NotAhead
  <1>7. CASE TakeText \/ TakeStart \/ CheckAudio \/ CheckWorkers \/ CheckPcm
        BY <1>7 DEF TakeText, TakeStart, CheckAudio, CheckWorkers, CheckPcm,
           HoldOrRelease, workerSide, NotAhead
  <1>8. CASE Audio
        BY <1>1, <1>8 DEF Audio, PollPcm, Available, workerSide, NotAhead
  <1>9. CASE UNCHANGED vars
        BY <1>9 DEF vars, clientSide, NotAhead
  <1> QED
      BY <1>2, <1>3, <1>4, <1>5, <1>6, <1>7, <1>8, <1>9 DEF Next, InCall

-----------------------------------------------------------------------------
(* The audio that the callback, or main itself, takes is audio of a session. *)
LEMMA PollsAudio ==
    ASSUME TypeOK, HasSession, call \in {"none", "isDone", "pollText"}, Available > 0,
           read' = read + Min2(Period, Available),
           UNCHANGED <<alive, lastError, mode, remainder, pending, call, cpc, starting,
                       room, shown, given, workerSide>>
    PROVE  Audio
PROOF
  <1>1. Available \in Int
        BY DEF TypeOK, ClientTypes, SharedTypes, Available
  <1>2. Min2(Period, Available) \in 1..Available
        BY <1>1, ClientAssumption DEF Min2
  <1> QED
      BY <1>2, ClientAssumption DEF Audio, PollPcm

(* Each step of the program is one of Session, but for its sudden end. *)
LEMMA ProgramSteps ==
    ASSUME ClientInv, [ProgramNext]_programVars
    PROVE  [Next]_vars \/ (at' = "threw" /\ \E p : Throws(p))
PROOF
  <1>1. CASE \E w \in Workers : Recorded(Working(w))
    <2>1. Llm \/ Seg \/ Tts
          BY <1>1 DEF Recorded, Working, Workers
    <2> QED
          BY <2>1 DEF Next
  <1>2. CASE PlaybackCallback
    <2>1. HasSession /\ call \in {"none", "isDone", "pollText"} /\ TypeOK
          BY <1>2 DEF PlaybackCallback, ClientInv, MainInv, Within, CallsAt, SessionInv
    <2> QED
          BY <1>2, <2>1, PollsAudio DEF PlaybackCallback, Next
  <1>3. CASE PollAudio
    <2> DEFINE n == IF mode = "tts" THEN Min2(Period, Available) ELSE 0
    <2>1. TypeOK /\ HasSession /\ read \in Nat /\ Available \in Nat
          BY <1>3 DEF PollAudio, Goes, Throws, ClientInv, MainInv, Within, SessionInv,
             TypeOK, ClientTypes, SharedTypes, Available, NotAhead
    <2>2. CASE Throws("polled")
          BY <2>2 DEF Throws
    <2>3. CASE /\ read' = read + n
               /\ UNCHANGED <<alive, lastError, mode, remainder, pending, call, cpc,
                              starting, room, shown, given, workerSide>>
      <3>1. CASE mode = "tts" /\ Available > 0
            BY <1>3, <2>1, <2>3, <3>1, PollsAudio DEF PollAudio, Next
      <3>2. CASE mode # "tts"
            BY <2>1, <2>3, <3>2 DEF vars, clientSide, workerSide, segVars, ttsVars
      <3>3. CASE mode = "tts" /\ Available = 0
            BY <2>1, <2>3, <3>3, ClientAssumption
            DEF Min2, vars, clientSide, workerSide, segVars, ttsVars
      <3> QED
            BY <2>1, <3>1, <3>2, <3>3
    <2> QED
          BY <1>3, <2>2, <2>3 DEF PollAudio
  <1>4. CASE \/ PrepareContexts \/ Submitted \/ OpenOutput \/ Asked \/ FinishOutput
             \/ CloseDevice \/ Exit
        BY <1>4 DEF PrepareContexts, Submitted, OpenOutput, Asked, FinishOutput,
           CloseDevice, Exit, Throws
  <1>5. CASE CreateHandle \/ CallSubmit \/ AskDone \/ Poll \/ CallDestroy
    <2>1. MaxRoom \in 0..MaxRoom
          BY SessionAssumption
    <2> QED
          BY <1>5, <2>1 DEF CreateHandle, CallSubmit, AskDone, Poll, CallDestroy, NewCall,
             Next
  <1>6. CASE InAPI
        BY <1>6 DEF InAPI, Next
  <1>7. CASE UNCHANGED programVars
        BY <1>7 DEF programVars
  <1> QED
      BY <1>1, <1>2, <1>3, <1>4, <1>5, <1>6, <1>7 DEF ProgramNext, Recorded, Main

-----------------------------------------------------------------------------
(* Nothing fails anew where no flag of a stage goes up. *)
LEMMA FailedKept ==
    ASSUME FailedInv, failed' = failed \cup {w \in Workers : threw'[w]},
           \A w \in Workers : threw'[w] => threw[w]
    PROVE  failed' = failed
PROOF
  BY DEF FailedInv

(* The end of the process leaves nothing that could be wrong. *)
LEMMA ThrowsSafe ==
    ASSUME ClientInv, NEW p, Throws(p),
           failed' = failed \cup {w \in Workers : threw'[w]}
    PROVE  ClientInv'
PROOF
  <1>1. FreshSession("none") /\ at' = "threw" /\ cpc' = "idle" /\ call' = "none"
        /\ alive' = FALSE /\ device' = FALSE /\ UNCHANGED <<cancelled, lastError, starting, room>>
        BY DEF Throws, Return
  <1>2. TypeOK'
    <2>1. TypeOK
          BY DEF ClientInv, SessionInv
    <2>2. ClientTypes'
          BY <1>1, <2>1, FreshTypes DEF TypeOK, ClientTypes
    <2>3. SharedTypes'
          BY <1>1, <2>1, FreshTypes DEF TypeOK, SharedTypes
    <2> QED
          BY <1>1, <2>2, <2>3, FreshTypes DEF TypeOK
  <1>3. WorkersCounted' /\ AllOff'
        BY <1>1, FreshQuiet
  <1>4. \A w \in Workers : ~threw'[w] /\ pc'[w] = "off"
        BY <1>1 DEF FreshSession
  <1>5. Phases' /\ QuietInv' /\ Startable'
        BY <1>1, <1>3 DEF Phases, QuietInv, StillOff, QuietOnceSeen, Startable
  <1>6. OutcomeInv'
        BY <1>1, <1>4 DEF OutcomeInv, FreshSession, NoError
  <1>7. NotAhead' /\ Coherent' /\ MainInv'
        BY <1>1, <1>3 DEF FreshSession, NotAhead, Coherent, MainInv, Before, Within,
           CallsAt, Over
  <1>8. FailedInv'
        BY <1>1, <1>4 DEF FailedInv, ExitTruth, Before, Within
  <1> QED
      BY <1>2, <1>5, <1>6, <1>7, <1>8 DEF ClientInv, SessionInv

(* A worker runs beside main, and only while there is a session to end. *)
LEMMA WorkersSafe ==
    ASSUME ClientInv, NEW w \in Workers, Recorded(Working(w))
    PROVE  Coherent' /\ MainInv' /\ FailedInv'
PROOF
  <1>1. (Llm \/ Seg \/ Tts) /\ UNCHANGED <<at, device>>
        BY DEF Recorded, Working, Workers
  <1>2. TypeOK /\ UNCHANGED clientSide /\ ~AllOff
        BY <1>1, WorkersLeaveClient, WorkerMoves DEF ClientInv, SessionInv, AllOff
  <1>3. mode # "none" /\ cpc # "begin"
        BY <1>2 DEF ClientInv, SessionInv, QuietInv, QuietOnceSeen
  <1>4. at \in {"submitted"} \cup Within
        BY <1>2, <1>3 DEF ClientInv, MainInv
  <1>5. \A v \in Workers : threw[v] => threw'[v]
        BY <1>1, <1>2, ThrewGrows
  <1>6. Coherent' /\ MainInv'
        BY <1>1, <1>2, <1>4 DEF ClientInv, Coherent, MainInv, clientSide, HasSession,
           Before, Within, Over
  <1>7. FailedInv'
        BY <1>1, <1>2, <1>3, <1>4, <1>5
        DEF Recorded, ClientInv, FailedInv, ExitTruth, clientSide, HasSession, Before,
            Within
  <1> QED
      BY <1>6, <1>7

(* The callback changes neither a call nor what failed. *)
LEMMA CallbackSafe ==
    ASSUME ClientInv, PlaybackCallback,
           failed' = failed \cup {w \in Workers : threw'[w]}
    PROVE  Coherent' /\ MainInv' /\ FailedInv'
PROOF
  <1>1. UNCHANGED <<alive, lastError, mode, call, cpc, pc, threw, at, device>>
        BY DEF PlaybackCallback, workerSide
  <1>2. failed' = failed
        BY <1>1, FailedKept DEF ClientInv
  <1>3. Coherent' /\ MainInv'
        BY <1>1 DEF ClientInv, Coherent, MainInv, HasSession, AllOff
  <1>4. FailedInv'
        BY <1>1, <1>2 DEF ClientInv, FailedInv, ExitTruth, HasSession
  <1> QED
      BY <1>3, <1>4

(* A step of the call main is in. *)
LEMMA InAPISafe ==
    ASSUME ClientInv, InAPI, failed' = failed \cup {w \in Workers : threw'[w]}
    PROVE  Coherent' /\ MainInv' /\ FailedInv'
PROOF
  <1>1. InCall /\ UNCHANGED <<at, device>>
        BY DEF InAPI
  <1>2. TypeOK /\ Phases /\ Coherent /\ MainInv /\ FailedInv
        BY DEF ClientInv, SessionInv
  <1>3. cpc \notin {"idle", "done"}
        BY <1>1 DEF InCall, LookWorkers, LookText, LookPcm, Look, Report, Begin,
           CountWorker, SpawnWorker, SpawnFails, StopSession, Join, TakeText, TakeStart,
           CheckAudio, CheckWorkers, CheckPcm, HoldOrRelease
  <1>4. call # "none" /\ call \in CallsAt(at)
        BY <1>2, <1>3 DEF Coherent, MainInv
  <1>5. CASE at \in {"asked", "polled"}
    <2>1. call \in {"isDone", "pollText"}
          BY <1>4, <1>5 DEF CallsAt
    <2>2. /\ Coherent' /\ call' \in {call, "none"} /\ cpc' # "begin"
          /\ UNCHANGED <<alive, mode, pc, threw>>
          BY <1>1, <1>2, <2>1, InAskOrPoll
    <2>3. failed' = failed
          BY <1>2, <2>2, FailedKept
    <2>4. MainInv'
          BY <1>1, <1>2, <1>5, <2>2 DEF MainInv, HasSession, Before, Within, Over
    <2>5. FailedInv'
          BY <1>1, <1>2, <1>5, <2>2, <2>3
          DEF FailedInv, ExitTruth, HasSession, Before, Within
    <2> QED
          BY <2>2, <2>4, <2>5
  <1>6. CASE at = "destroyed"
    <2>1. call = "destroy" /\ AllOff
          BY <1>2, <1>4, <1>6 DEF CallsAt, MainInv
    <2>2. /\ Coherent' /\ call' \in {"destroy", "none"} /\ cpc' # "begin"
          /\ AllOff' /\ lastError' = lastError
          /\ \A w \in Workers : threw'[w] => threw[w]
          BY <1>1, <1>2, <2>1, InDestroy
    <2>3. failed' = failed
          BY <1>2, <2>2, FailedKept
    <2>4. MainInv'
          BY <1>1, <1>2, <1>6, <2>1, <2>2 DEF MainInv, Before, Within, Over
    <2>5. FailedInv'
          BY <1>1, <1>2, <1>6, <2>2, <2>3 DEF FailedInv, ExitTruth, Before, Within
    <2> QED
          BY <2>2, <2>4, <2>5
  <1>7. CASE at = "submitted"
    <2>1. alive /\ call \in AllModes /\ cpc \in {"begin", "count", "spawn", "stop", "join"}
          BY <1>2, <1>3, <1>4, <1>7 DEF CallsAt, MainInv
    <2>2. /\ Coherent' /\ alive' /\ call' \in {call, "none"}
          /\ \/ /\ cpc = "begin" /\ cpc' = "count" /\ mode' # "none"
                /\ \A w \in Workers : ~threw'[w]
             \/ /\ cpc # "begin" /\ cpc' = "idle" /\ mode' = "none"
             \/ /\ cpc # "begin" /\ cpc' \in {"count", "spawn", "stop", "join", "idle"}
                /\ UNCHANGED <<mode, threw>>
          BY <1>1, <1>2, <2>1, InSubmit
    <2>3. MainInv'
          BY <1>1, <1>2, <1>7, <2>1, <2>2 DEF MainInv, HasSession, Before, Within, Over
    <2>4. FailedInv'
      <3>1. CASE cpc = "begin"
        <4>1. failed = {} /\ failed' = {}
              BY <1>2, <2>2, <3>1 DEF FailedInv
        <4> QED
              BY <1>1, <1>7, <2>2, <3>1, <4>1 DEF FailedInv, ExitTruth, Before
      <3>2. CASE cpc' = "idle" /\ mode' = "none"
            BY <1>1, <1>7, <3>2 DEF FailedInv, ExitTruth, Before, Within, HasSession
      <3>3. CASE cpc # "begin" /\ cpc' # "begin" /\ UNCHANGED <<mode, threw>>
        <4>1. failed' = failed
              BY <1>2, <3>3, FailedKept
        <4> QED
              BY <1>1, <1>2, <1>7, <3>3, <4>1
              DEF FailedInv, ExitTruth, Before, Within, HasSession
      <3> QED
            BY <2>2, <3>1, <3>2, <3>3
    <2> QED
          BY <2>2, <2>3, <2>4
  <1> QED
      BY <1>4, <1>5, <1>6, <1>7 DEF CallsAt

(* A step of main outside of any call. *)
LEMMA MovesSafe ==
    ASSUME ClientInv, UNCHANGED vars, failed' = failed \cup {w \in Workers : threw'[w]},
           \/ PrepareContexts \/ Submitted \/ OpenOutput \/ Asked \/ FinishOutput
           \/ CloseDevice \/ Exit \/ UNCHANGED programVars,
           ~\E p : Throws(p)
    PROVE  Coherent' /\ MainInv' /\ FailedInv'
PROOF
  <1>1. UNCHANGED <<alive, lastError, mode, call, cpc, pc, threw>>
        BY DEF vars, clientSide
  <1>2. failed' = failed /\ Coherent' /\ MainInv /\ FailedInv
        BY <1>1, FailedKept DEF ClientInv, Coherent
  <1>3. CASE PrepareContexts
    <2>1. at = "prepare" /\ at' = "submit" /\ device' = device
          BY <1>3 DEF PrepareContexts, Goes
    <2> QED
          BY <1>1, <1>2, <2>1 DEF MainInv, FailedInv, ExitTruth, CallsAt, HasSession,
             AllOff, Before, Within, Over
  <1>4. CASE Submitted
    <2>1. at = "submitted" /\ at' = "open" /\ call = "none" /\ HasSession /\ device' = device
          BY <1>4 DEF Submitted, Goes
    <2> QED
          BY <1>1, <1>2, <2>1 DEF MainInv, FailedInv, ExitTruth, CallsAt, HasSession,
             AllOff, Before, Within, Over
  <1>5. CASE OpenOutput
    <2>1. at = "open" /\ at' = "ask"
          BY <1>5 DEF OpenOutput, Goes
    <2> QED
          BY <1>1, <1>2, <2>1 DEF MainInv, FailedInv, ExitTruth, CallsAt, HasSession,
             AllOff, Before, Within, Over
  <1>6. CASE Asked
    <2>1. /\ at = "asked" /\ call = "none" /\ device' = device
          /\ (at' = "finish" /\ cpc = "done") \/ at' = "poll"
          BY <1>6 DEF Asked, Goes
    <2> QED
          BY <1>1, <1>2, <2>1 DEF MainInv, FailedInv, ExitTruth, CallsAt, HasSession,
             AllOff, Before, Within, Over
  <1>7. CASE FinishOutput \/ CloseDevice
    <2>1. \/ at = "finish" /\ at' = "close" /\ device' = device
          \/ at = "close" /\ at' = "destroy" /\ device' = FALSE
          BY <1>7 DEF FinishOutput, CloseDevice, Goes
    <2> QED
          BY <1>1, <1>2, <2>1 DEF MainInv, FailedInv, ExitTruth, CallsAt, HasSession,
             AllOff, Before, Within, Over
  <1>8. CASE Exit
    <2>1. /\ at = "destroyed" /\ call = "none" /\ device' = device
          /\ at' = IF lastError = NoError THEN "ok" ELSE "error"
          BY <1>8 DEF Exit, Goes
    <2> QED
          BY <1>1, <1>2, <2>1 DEF MainInv, FailedInv, ExitTruth, CallsAt, HasSession,
             AllOff, Before, Within, Over
  <1>9. CASE UNCHANGED programVars
    <2>1. UNCHANGED <<at, device>>
          BY <1>9 DEF programVars, mainVars
    <2> QED
          BY <1>1, <1>2, <2>1 DEF MainInv, FailedInv, ExitTruth, HasSession, AllOff
  <1> QED
      BY <1>3, <1>4, <1>5, <1>6, <1>7, <1>8, <1>9

(* The calls that main makes, each where the handle and the session allow it. *)
LEMMA CallsSafe ==
    ASSUME ClientInv, failed' = failed \cup {w \in Workers : threw'[w]},
           ~\E p : Throws(p),
           CreateHandle \/ CallSubmit \/ AskDone \/ Poll \/ PollAudio \/ CallDestroy
    PROVE  Coherent' /\ MainInv' /\ FailedInv'
PROOF
  <1>1. TypeOK /\ Coherent /\ MainInv /\ FailedInv /\ OutcomeInv
        BY DEF ClientInv, SessionInv
  <1>2. UNCHANGED <<pc, threw, mode>>
        BY DEF CreateHandle, Create, CallSubmit, Submit, AskDone, IsDone, Poll, PollText,
           PollAudio, CallDestroy, Cancel, workerSide
  <1>3. failed' = failed /\ (AllOff' <=> AllOff)
        BY <1>1, <1>2, FailedKept DEF AllOff
  <1>4. CASE CreateHandle
    <2>1. /\ at = "create" /\ UNCHANGED <<call, cpc, device>>
          /\ at' = "threw" \/ (at' = "prepare" /\ alive')
          BY <1>4 DEF CreateHandle, Create
    <2>2. AllOff
          BY <1>1, <2>1 DEF ClientInv, SessionInv, QuietInv, MainInv, Before
    <2> QED
          BY <1>1, <1>2, <1>3, <2>1, <2>2 DEF Coherent, MainInv, FailedInv, ExitTruth, CallsAt,
             HasSession, Before, Within, Over
  <1>5. CASE CallSubmit
    <2>1. PICK m \in Modes : Submit(m)
          BY <1>5 DEF CallSubmit
    <2>2. at = "submit" /\ at' = "submitted" /\ device' = device
          BY <1>5 DEF CallSubmit, Goes
    <2>3. mode = "none" /\ alive /\ failed = {}
          BY <1>1, <2>2 DEF MainInv, FailedInv, Before
    <2>4. call' = m /\ m \in AllModes /\ cpc' = "begin" /\ alive' = alive
          BY <2>1, <2>3, SessionAssumption DEF Submit, HasSession
    <2> QED
          BY <1>1, <1>2, <1>3, <2>2, <2>3, <2>4 DEF Coherent, MainInv, FailedInv,
             ExitTruth, CallsAt, HasSession, AllModes, Before, Within, Over
  <1>6. CASE AskDone
    <2>1. at = "ask" /\ at' = "asked" /\ device' = device /\ alive' = alive
          BY <1>6 DEF AskDone, Goes, IsDone
    <2>2. HasSession
          BY <1>1, <2>1 DEF MainInv, Within
    <2>3. call' = "isDone" /\ cpc' = "workers"
          BY <1>6, <2>2 DEF AskDone, IsDone
    <2> QED
          BY <1>1, <1>2, <1>3, <2>1, <2>2, <2>3 DEF Coherent, MainInv, FailedInv,
             ExitTruth, CallsAt, HasSession, AllModes, Before, Within, Over
  <1>7. CASE Poll
    <2>1. at = "poll" /\ at' = "polled" /\ device' = device /\ alive' = alive
          BY <1>7 DEF Poll, Goes, PollText
    <2>2. \/ call' = "pollText" /\ cpc' = "take"
          \/ call' = "none" /\ cpc' = "idle"
          BY <1>7 DEF Poll, PollText, Return
    <2> QED
          BY <1>1, <1>2, <1>3, <2>1, <2>2 DEF Coherent, MainInv, FailedInv,
             ExitTruth, CallsAt, HasSession, AllModes, Before, Within, Over
  <1>8. CASE PollAudio
    <2>1. /\ at = "polled" /\ at' = "ask" /\ call = "none"
          /\ UNCHANGED <<device, alive, call, cpc>>
          BY <1>8 DEF PollAudio, Goes
    <2> QED
          BY <1>1, <1>2, <1>3, <2>1 DEF Coherent, MainInv, FailedInv,
             ExitTruth, CallsAt, HasSession, Before, Within, Over
  <1>9. CASE CallDestroy
    <2>1. at = "destroy" /\ at' = "destroyed" /\ device' = device
          BY <1>9 DEF CallDestroy, Goes
    <2>2. call' = "destroy" /\ cpc' = "stop" /\ UNCHANGED <<alive, lastError>>
          BY <1>9 DEF CallDestroy, Cancel
    <2>3. HasSession /\ cpc = "done" /\ ~device
          BY <1>1, <2>1 DEF MainInv, Within
    <2>4. AllOff /\ (lastError = NoError <=> failed = {})
      <3>1. failed = {w \in Workers : threw[w]}
            BY <1>1, <2>1, <2>3 DEF FailedInv, Within
      <3>2. IF \A w \in Workers : ~threw[w]
            THEN lastError = NoError
            ELSE lastError \in Workers /\ threw[lastError]
            BY <1>1, <2>3, OutcomeTold
      <3>3. NoError \notin Workers
            BY DEF NoError, Workers
      <3> QED
            BY <1>1, <2>3, <3>1, <3>2, <3>3 DEF OutcomeInv
    <2> QED
          BY <1>1, <1>2, <1>3, <2>1, <2>2, <2>3, <2>4 DEF Coherent, MainInv, FailedInv,
             ExitTruth, CallsAt, AllModes, Before, Within, Over
  <1> QED
      BY <1>4, <1>5, <1>6, <1>7, <1>8, <1>9

(* A program that starts. *)
LEMMA ClientInit == ProgramInit => ClientInv
PROOF
  <1> SUFFICES ASSUME ProgramInit PROVE ClientInv
      OBVIOUS
  <1>1. SessionInv
        BY SessionInvInit DEF ProgramInit
  <1>2. NotAhead /\ Coherent
        BY DEF ProgramInit, Init, NotAhead, Coherent
  <1>3. MainInv /\ FailedInv
        BY DEF ProgramInit, Init, MainInv, FailedInv, ExitTruth, Before, Within, Over,
           HasSession, Workers
  <1> QED
      BY <1>1, <1>2, <1>3 DEF ClientInv

(* Every step of the program keeps the invariant. *)
LEMMA ClientStep == ClientInv /\ [ProgramNext]_programVars => ClientInv'
PROOF
  <1> SUFFICES ASSUME ClientInv, [ProgramNext]_programVars PROVE ClientInv'
      OBVIOUS
  <1>1. failed' = failed \cup {w \in Workers : threw'[w]}
        BY DEF ClientInv, FailedInv, ProgramNext, Recorded, programVars, mainVars, vars
  <1>2. CASE \E p : Throws(p)
        BY <1>1, <1>2, ThrowsSafe
  <1>3. CASE ~\E p : Throws(p)
    <2>1. SessionInv' /\ NotAhead'
          BY <1>3, ProgramSteps, SessionInvStep, NotAheadStep DEF ClientInv, SessionInv
    <2>2. CASE \E w \in Workers : Recorded(Working(w))
          BY <2>1, <2>2, WorkersSafe DEF ClientInv
    <2>3. CASE PlaybackCallback
          BY <1>1, <2>1, <2>3, CallbackSafe DEF ClientInv
    <2>4. CASE InAPI
          BY <1>1, <2>1, <2>4, InAPISafe DEF ClientInv
    <2>5. CASE \/ CreateHandle \/ CallSubmit \/ AskDone \/ Poll \/ PollAudio
               \/ CallDestroy
          BY <1>1, <1>3, <2>1, <2>5, CallsSafe DEF ClientInv
    <2>6. CASE \/ PrepareContexts \/ Submitted \/ OpenOutput \/ Asked \/ FinishOutput
               \/ CloseDevice \/ Exit \/ UNCHANGED programVars
      <3>1. UNCHANGED vars
            BY <1>3, <2>6 DEF PrepareContexts, Submitted, OpenOutput, Asked,
               FinishOutput, CloseDevice, Exit, programVars
      <3> QED
            BY <1>1, <1>3, <2>1, <2>6, <3>1, MovesSafe DEF ClientInv
    <2> QED
          BY <2>2, <2>3, <2>4, <2>5, <2>6 DEF ProgramNext, Recorded, Main
  <1> QED
      BY <1>2, <1>3

-----------------------------------------------------------------------------
(* The callback of the audio device always finds a session. *)
THEOREM DeviceSafe == Program => []DeviceHasSession
PROOF
  <1>1. ClientInv => DeviceHasSession
    <2> SUFFICES ASSUME ClientInv, device
                 PROVE  alive /\ HasSession /\ call \in {"none", "isDone", "pollText"}
        BY DEF DeviceHasSession
    <2>1. MainInv /\ at \in {"ask", "asked", "poll", "polled", "finish", "close"}
          BY DEF ClientInv, MainInv
    <2>2. call \in {"none", "isDone", "pollText"}
          BY <2>1 DEF MainInv, CallsAt
    <2> QED
          BY <2>1, <2>2 DEF MainInv, Within
  <1> QED
      BY <1>1, ClientInit, ClientStep, PTL DEF Program

(* The exit code is right about the stages. *)
THEOREM ExitCode == Program => []ExitTruth
PROOF
  <1>1. ClientInv => ExitTruth
        BY DEF ClientInv, FailedInv
  <1> QED
      BY <1>1, ClientInit, ClientStep, PTL DEF Program

(* The program uses its session the way module Session lets a client use one. *)
THEOREM UsesSession == Program => ImplementsSession
PROOF
  <1>1. ClientInv /\ [ProgramNext]_programVars => [Next \/ at' = "threw"]_vars
        BY ProgramSteps
  <1> QED
      BY <1>1, ClientInit, ClientStep, PTL DEF Program, ImplementsSession

-----------------------------------------------------------------------------
(* What Delivered rests on: the text and the buffers of the session. *)
DeliveryInv == ClientInv /\ TextInv /\ FinishInv /\ DrainInv

(* The end of the process leaves an empty session, as a new handle has it. *)
LEMMA ThrowsText ==
    ASSUME NEW p, Throws(p), SessionInv'
    PROVE  TextInv' /\ FinishInv' /\ DrainInv'
PROOF
  <1>1. FreshSession("none") /\ cpc' = "idle"
        BY DEF Throws, Return
  <1>2. StopInv'
        BY <1>1, StopStepsAre DEF FreshSession, StopInv, Workers
  <1>3. StaffInv'
        BY <1>1 DEF FreshSession, StaffInv, Workers, AllModes
  <1>4. CopyInv'
    <2>1. Len(shown') = 0 /\ given' = 0 /\ remainder' = 0
          BY <1>1 DEF FreshSession
    <2> QED
          BY <1>1, <2>1, SessionAssumption DEF CopyInv, TextPlaces
  <1>5. ClosingInv'
        BY <1>1 DEF FreshSession, ClosingInv, AllModes
  <1>6. ChainInv'
    <2>1. /\ shown' = <<>> /\ pending' = NoPending /\ mode' = "none" /\ made' = 0
          /\ q'["token"].items = <<>>
          BY <1>1 DEF FreshSession, EmptyQueue, QueueNames
    <2>2. Out' = "token" /\ Len(shown') = 0
          BY <2>1 DEF Out
    <2>3. InHand' = 0 /\ ForClient' = 0 /\ Behind' = 0 /\ Produced' = 0
          BY <1>1, <2>1, <2>2 DEF InHand, ForClient, Behind, Produced
    <2>4. Taken' = 0 /\ Sent' = 0
          BY <2>2, <2>3 DEF Taken, Sent
    <2>5. Consecutive(q[Out].items, Taken)'
          BY <2>1, <2>2 DEF Consecutive
    <2>6. Chain'
          BY <2>1, <2>3, <2>4, <2>5 DEF Chain
    <2> QED
          BY <1>1, <2>1, <2>6 DEF ChainInv, TextInOrder, TextPlaces
  <1>7. FinishInv' /\ DrainInv'
        BY <1>1 DEF FreshSession, FinishInv, DrainInv, HasSession
  <1> QED
      BY <1>2, <1>3, <1>4, <1>5, <1>6, <1>7 DEF TextInv

LEMMA DeliveryStep == DeliveryInv /\ [ProgramNext]_programVars => DeliveryInv'
PROOF
  <1> SUFFICES ASSUME DeliveryInv, [ProgramNext]_programVars PROVE DeliveryInv'
      OBVIOUS
  <1>1. ClientInv' /\ SessionInv'
        BY ClientStep DEF DeliveryInv, ClientInv
  <1>2. CASE [Next]_vars
    <2>1. TextInv' /\ FinishInv'
          BY <1>2, TextInvStep, FinishStep DEF DeliveryInv
    <2>2. DrainInv'
          BY <1>2, DrainStep DEF DeliveryInv, ClientInv, SessionInv
    <2> QED
          BY <1>1, <2>1, <2>2 DEF DeliveryInv
  <1>3. CASE \E p : Throws(p)
        BY <1>1, <1>3, ThrowsText DEF DeliveryInv
  <1> QED
      BY <1>2, <1>3, ProgramSteps DEF DeliveryInv

(* main leaves its loop only after IsDone said true, and nobody else takes or
   adds text or audio from then on, the audio callback included. *)
LEMMA DeliveryHolds ==
    ASSUME DeliveryInv
    PROVE  Delivered
PROOF
  <1> SUFFICES ASSUME at \in {"finish", "close", "destroy"}
               PROVE  /\ given = PieceLen * Len(shown) /\ read = written
                      /\ failed = {} => Len(shown) = Produced
      BY DEF Delivered
  <1>1. cpc = "done" /\ HasSession
        BY DEF DeliveryInv, ClientInv, MainInv, Within
  <1>2. DoneMeansDrained
        BY DEF DeliveryInv, DrainInv, DoneMeansDrained, NoTextLeft, IsEmpty
  <1>3. NothingLost
        BY <1>2, DoneMeansAll DEF DeliveryInv
  <1>4. failed = {} => \A w \in Workers : ~threw[w]
        BY DEF DeliveryInv, ClientInv, FailedInv
  <1> QED
      BY <1>1, <1>2, <1>3, <1>4 DEF DoneMeansDrained, NothingLost

(* The program leaves its loop with everything it was to print and to play:
   main's loop with its audio callback (main.cpp) on top of PollText, PollPcm
   and IsDone. *)
THEOREM AllDelivered == Program => []Delivered
PROOF
  <1>1. ProgramInit => DeliveryInv
        BY ClientInit, TextInvInit DEF ProgramInit, DeliveryInv, Init, FinishInv, DrainInv
  <1> QED
      BY <1>1, DeliveryStep, DeliveryHolds, PTL DEF Program
=============================================================================
