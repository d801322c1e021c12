--------------------------- MODULE ContextsProofs ----------------------------
(***************************************************************************)
(* Theorems about Contexts, for every value of its constants: the calls    *)
(* that prepare a session do not disturb what Session promises, never wait *)
(* for a worker, and settle the voice before anything is spoken.           *)
(***************************************************************************)
EXTENDS Contexts, SessionProofs

-----------------------------------------------------------------------------
(* A step of the client outside Session: a context call begins or returns. *)
Beside ==
    /\ UNCHANGED <<alive, mode, read, remainder, pending, starting, room, shown,
                   given, workerSide>>
    /\ \/ MayCall /\ Return /\ UNCHANGED lastError
       \/ cpc = "idle" /\ UNCHANGED <<call, cpc>> /\ lastError' \in {lastError, "api"}

(* In a context call, and until the call after it, no worker lives and the
   client is in no call of Session; who holds the mutex is where it can. *)
Secluded ==
    /\ ctx # "none" => alive /\ AllOff /\ cpc = "idle"
    /\ owner \in {"none", "llm", "client"}
    /\ owner = "llm" => pc["llm"] # "off"
    /\ owner = "client" => ctx \in {"prefill", "decode"}

(* A context call begins, does something of its own, or returns. *)
LEMMA ContextSteps ==
    ASSUME Secluded
    PROVE  /\ \A c : Prepare(c) => Beside
           /\ ContextCall => UNCHANGED vars \/ Beside
PROOF
  <1>1. ASSUME NEW c, Prepare(c) PROVE Beside
        BY <1>1 DEF Prepare, Beside
  <1>2. ASSUME NEW s, At(s) PROVE UNCHANGED vars
        BY <1>2 DEF At
  <1>3. ASSUME NEW s \in {"prefill", "decode", "engine", "voice", "transcript"},
               AtLast(s), Succeeds \/ Fails
        PROVE  Beside
        BY <1>3 DEF AtLast, Succeeds, Fails, Beside, Secluded
  <1>4. ASSUME ContextCall PROVE UNCHANGED vars \/ Beside
    <2>1. CASE ClientLock
          BY <2>1, <1>2 DEF ClientLock
    <2>2. CASE Prefill
          BY <2>2, <1>3 DEF Prefill
    <2>3. CASE LlmWarmup
          BY <2>3, <1>2, <1>3 DEF LlmWarmup
    <2>4. CASE TtsWarmup
          BY <2>4, <1>3 DEF TtsWarmup
    <2>5. CASE DesignVoice
          BY <2>5, <1>3 DEF DesignVoice
    <2>6. CASE BaseSample
          BY <2>6, <1>2 DEF BaseSample
    <2>7. CASE VoiceFails
          BY <2>7, <1>3 DEF VoiceFails
    <2>8. CASE BaseTranscript
          BY <2>8, <1>3 DEF BaseTranscript
    <2> QED
          BY <1>4, <2>1, <2>2, <2>3, <2>4, <2>5, <2>6, <2>7, <2>8 DEF ContextCall
  <1> QED
      BY <1>1, <1>4

(* Every step is one of Session, or leaves a session as it is. *)
LEMMA StepKinds ==
    ASSUME Secluded, [CtxNext]_allVars
    PROVE  [Next]_vars \/ Beside
PROOF
  <1>1. CASE LlmLock \/ LlmUnlock \/ UNCHANGED allVars
        BY <1>1 DEF LlmLock, LlmUnlock, allVars
  <1>2. CASE LlmStep
        BY <1>2 DEF LlmStep, Next
  <1>3. CASE (Seg \/ Tts \/ InCall \/ Audio) /\ UNCHANGED ctxVars
        BY <1>3 DEF Next
  <1>4. CASE CreateHandle \/ SubmitPrepared \/ OtherCall
        BY <1>4 DEF CreateHandle, SubmitPrepared, OtherCall, NewCall, Next
  <1>5. CASE \/ \E c \in {"llmContext", "warmup"} : BeginLlmCall(c)
             \/ \E v \in Voices : BeginVoice(v)
        BY <1>5, ContextSteps DEF BeginLlmCall, BeginVoice
  <1>6. CASE ContextCall
        BY <1>6, ContextSteps
  <1> QED
      BY <1>1, <1>2, <1>3, <1>4, <1>5, <1>6 DEF CtxNext

(* Which a session does not notice. *)
LEMMA BesideKeeps == SessionInv /\ Beside => SessionInv'
PROOF
  <1> SUFFICES ASSUME SessionInv, Beside PROVE SessionInv'
      OBVIOUS
  <1>1. UNCHANGED <<alive, mode, read, remainder, pending, starting, room, shown, given,
                    cancelled, q, written, running, err, pc, threw, tokens, todo, made,
                    cur, left, speech, stop>>
        BY DEF Beside, workerSide, segVars, ttsVars
  <1>2. cpc' = "idle" /\ cpc \in {"idle", "done"}
        BY DEF Beside, MayCall, Return
  <1>3. call' \in {call, "none"} /\ lastError' \in {lastError, "api"}
        BY DEF Beside, Return
  <1>4. TypeOK'
    <2>1. ClientTypes'
          BY <1>1, <1>2, <1>3 DEF SessionInv, TypeOK, ClientTypes
    <2>2. SharedTypes'
          BY <1>1 DEF SessionInv, TypeOK, SharedTypes
    <2>3. WorkerTypes'
          BY <1>1 DEF SessionInv, TypeOK, WorkerTypes
    <2> QED
          BY <2>1, <2>2, <2>3 DEF TypeOK
  <1>5. Phases' /\ Startable'
        BY <1>1, <1>2 DEF SessionInv, Phases, Startable
  <1>6. QuietInv'
        BY <1>1, <1>2, CallsKeepQuiet DEF SessionInv
  <1>7. OutcomeInv'
        BY <1>1, <1>2 DEF SessionInv, OutcomeInv
  <1> QED
      BY <1>4, <1>5, <1>6, <1>7 DEF SessionInv

(* So all that is proved of Session stays true. *)
LEMMA SessionStep == SessionInv /\ Secluded /\ [CtxNext]_allVars => SessionInv'
PROOF
  BY StepKinds, SessionInvStep, BesideKeeps

-----------------------------------------------------------------------------
(* The LLM worker ends only after it has given the mutex back. *)
LEMMA LlmStays ==
    ASSUME TypeOK, LlmStep, owner = "llm"
    PROVE  pc'["llm"] # "off"
PROOF
  <1>1. pc["llm"] \in {"gen", "push", "close"} /\ pc \in [Workers -> WorkerPlaces]
        BY DEF LlmStep, LlmHolds, TypeOK, WorkerTypes
  <1>2. ~Leave("llm")
        BY <1>1 DEF Leave
  <1> QED
      BY <1>1, <1>2
      DEF LlmStep, Llm, LlmGenerate, LlmThrow, LlmPush, CloseOutput, RecordFailure, Throw,
          Goto, Workers

(* Nor does any step of the other workers end it. *)
LEMMA OthersLeaveLlm ==
    ASSUME TypeOK, Seg \/ Tts
    PROVE  pc'["llm"] = pc["llm"]
PROOF
  <1> USE DEF Goto, TypeOK, WorkerTypes, Workers
  <1>1. CASE Seg
        BY <1>1 DEF Seg, SegPop, SegThrow, SegEmit, CloseOutput, StopUpstream,
           RecordFailure, Leave, Throw
  <1>2. CASE Tts
        BY <1>2 DEF Tts, TtsPop, TtsPushStart, TtsPushText, TtsAnnounce, TtsSkip,
           TtsSynthesize, TtsWrite, TtsCancelled, TtsThrow, StopUpstream, RecordFailure,
           Leave, Throw, AfterSpeech
  <1> QED
      BY <1>1, <1>2

(* A call of the client ends the LLM worker only if none is left. *)
LEMMA CallsLeaveLlm ==
    ASSUME TypeOK, Phases, QuietInv, InCall, pc["llm"] # "off"
    PROVE  pc'["llm"] # "off"
PROOF
  <1>1. ~Begin /\ ~Join
        BY DEF Begin, Join, AllOff, Workers
  <1>2. CASE SpawnWorker
    <2>1. starting \in Remaining
          BY <1>2 DEF SpawnWorker, Phases
    <2>2. FirstStep(Head(starting)) \in WorkerPlaces \ {"off"}
          BY <2>1, RemainingTypes DEF FirstStep, Workers, WorkerPlaces
    <2> QED
          BY <1>2, <2>2 DEF SpawnWorker, Goto, TypeOK, WorkerTypes, Workers
  <1>3. CASE InCall /\ ~SpawnWorker
        BY <1>1, <1>3 DEF InCall, LookWorkers, LookText, LookPcm, Look, Report,
           CountWorker, SpawnFails, StopSession, TakeText, TakeStart, CheckAudio,
           CheckWorkers, CheckPcm, HoldOrRelease, workerSide
  <1> QED
      BY <1>2, <1>3

(* With all workers off and no call in progress, none of these goes on. *)
LEMMA SecludedRests ==
    ASSUME TypeOK, AllOff, cpc = "idle"
    PROVE  ~Llm /\ ~Seg /\ ~Tts /\ ~InCall /\ ~LlmHolds
PROOF
  <1>1. ~Llm /\ ~Seg /\ ~Tts
        BY WorkerMoves DEF AllOff
  <1>2. ~InCall
        BY DEF InCall, LookWorkers, LookText, LookPcm, Look, Report, Begin, CountWorker,
           SpawnWorker, SpawnFails, StopSession, Join, TakeText, TakeStart, CheckAudio,
           CheckWorkers, CheckPcm, HoldOrRelease
  <1>3. ~LlmHolds
        BY DEF LlmHolds, AllOff, Workers
  <1> QED
      BY <1>1, <1>2, <1>3

(* Every step keeps the client secluded from workers in its context calls. *)
LEMMA SecludedStep == SessionInv /\ Secluded /\ [CtxNext]_allVars => Secluded'
PROOF
  <1> SUFFICES ASSUME SessionInv, Secluded, [CtxNext]_allVars PROVE Secluded'
      OBVIOUS
  <1> USE DEF SessionInv
  <1>1. CASE LlmLock
    <2>1. ctx = "none" /\ pc["llm"] # "off"
          BY <1>1, SecludedRests DEF LlmLock, LlmHolds, Secluded
    <2> QED
          BY <1>1, <2>1 DEF LlmLock, Secluded, vars
  <1>2. CASE LlmUnlock \/ UNCHANGED allVars
        BY <1>2 DEF LlmUnlock, Secluded, AllOff, vars, clientSide, allVars, ctxVars
  <1>3. CASE LlmStep
    <2>1. ctx = "none"
          BY <1>3, SecludedRests DEF LlmStep, Secluded
    <2> QED
          BY <1>3, <2>1, LlmStays DEF LlmStep, Secluded, ctxVars
  <1>4. CASE (Seg \/ Tts \/ InCall) /\ UNCHANGED ctxVars
    <2>1. ctx = "none"
          BY <1>4, SecludedRests DEF Secluded
    <2>2. pc["llm"] # "off" => pc'["llm"] # "off"
          BY <1>4, OthersLeaveLlm, CallsLeaveLlm
    <2> QED
          BY <1>4, <2>1, <2>2 DEF Secluded, ctxVars
  <1>5. CASE Audio /\ UNCHANGED ctxVars
        BY <1>5 DEF Audio, PollPcm, workerSide, Secluded, AllOff, ctxVars
  <1>6. CASE CreateHandle
        BY <1>6 DEF CreateHandle, Create, Secluded, AllOff
  <1>7. CASE SubmitPrepared
        BY <1>7 DEF SubmitPrepared, Submit, workerSide, BetweenCalls, Secluded
  <1>8. CASE OtherCall
    <2>1. pc' = pc
          BY <1>8 DEF OtherCall, SubmitNull, IsDone, PollNothing, Cancel, PollText,
             workerSide
    <2> QED
          BY <1>8, <2>1 DEF OtherCall, BetweenCalls, Secluded
  <1>9. ASSUME NEW c, Prepare(c), owner' = owner, c \notin {"prefill", "decode"}
        PROVE  Secluded'
    <2>1. AllOff
          BY <1>9 DEF Prepare, QuietInv, OutcomeInv, HasSession, Secluded
    <2>2. owner = "none"
          BY <1>9, <2>1 DEF Prepare, BetweenCalls, Secluded, AllOff, Workers
    <2> QED
          BY <1>9, <2>1, <2>2 DEF Prepare, MayCall, Return, workerSide, Secluded, AllOff
  <1>10. CASE \E c \in {"llmContext", "warmup"} : BeginLlmCall(c)
        BY <1>10, <1>9 DEF BeginLlmCall, Prepare
  <1>11. CASE \E v \in Voices : BeginVoice(v)
        BY <1>11, <1>9 DEF BeginVoice, Prepare
  <1>12. CASE ContextCall
    <2>1. ctx # "none" /\ alive /\ AllOff /\ cpc = "idle" /\ owner # "llm"
          BY <1>12 DEF ContextCall, ClientLock, Prefill, LlmWarmup, TtsWarmup,
             DesignVoice, BaseSample, VoiceFails, BaseTranscript, AtLast, At, Secluded,
             AllOff, Workers
    <2>2. UNCHANGED <<alive, pc, cpc>>
          BY <1>12 DEF ContextCall, ClientLock, Prefill, LlmWarmup, TtsWarmup,
             DesignVoice, BaseSample, VoiceFails, BaseTranscript, AtLast, At,
             workerSide, vars, clientSide
    <2>3. owner' \in {"none", "client"}
          /\ (owner' = "client" => ctx' \in {"prefill", "decode"})
          BY <1>12, <2>1 DEF ContextCall, ClientLock, Prefill, LlmWarmup, TtsWarmup,
             DesignVoice, BaseSample, VoiceFails, BaseTranscript, AtLast, At, Secluded
    <2> QED
          BY <2>1, <2>2, <2>3 DEF Secluded, AllOff
  <1> QED
      BY <1>1, <1>2, <1>3, <1>4, <1>5, <1>6, <1>7, <1>8, <1>10, <1>11, <1>12
      DEF CtxNext

(* A new program. *)
LEMMA CtxInitSafe == CtxInit => SessionInv /\ Secluded
PROOF
  BY SessionInvInit DEF CtxInit, Init, Workers, Secluded

(* A context call or a warmup never waits for the mutex of the LLM worker. *)
THEOREM Unhindered == CtxSpec => []NeverWaits
PROOF
  <1>1. SessionInv /\ Secluded => NeverWaits
        BY DEF Secluded, NeverWaits, AllOff, Workers
  <1> QED
      BY <1>1, CtxInitSafe, SessionStep, SecludedStep, PTL DEF CtxSpec

-----------------------------------------------------------------------------
(* The calls that make the TTS worker of a session speak. *)
Speaking == {"pipeline", "tts"}

(* Only with a voice does the client make such a call, and a TTS worker lives; no
   other call starts one. *)
Voiced ==
    /\ ~alive => mode = "none"
    /\ cpc \in {"idle", "done"} => call = "none"
    /\ call \in Speaking => wanted # Unset
    /\ cpc \in {"count", "spawn"} /\ (\E i \in 1..Len(starting) : starting[i] = "tts")
           => call \in Speaking
    /\ pc["tts"] # "off" => wanted # Unset

(* All of the voice is then the one that was asked for; while a context call
   replaces it, the client has none. *)
VoiceInv ==
    /\ Voiced
    /\ ttsMode \in {"Base", "VoiceDesign"} /\ asked \in Voices \cup {Unset}
    /\ voice \in [DOMAIN NoVoice -> Voices \cup {Unset}]
    /\ wanted # Unset => \A p \in VoiceParams[ttsMode] : voice[p] = wanted
    /\ ctx \in {"voice", "transcript"} => wanted = Unset /\ asked \in Voices
    /\ ctx = "transcript" =>
           /\ ttsMode = "Base"
           /\ voice["refAudioSamples"] = asked /\ voice["refAudio"] = asked

(* The members of the backend that a voice is made of. *)
LEMMA VoiceMembers ==
    /\ {"refAudioSamples", "refAudio", "transcript", "seed", "instruct"}
           \subseteq DOMAIN NoVoice
    /\ VoiceParams["Base"] = {"refAudioSamples", "refAudio", "transcript"}
    /\ VoiceParams["VoiceDesign"] = {"seed", "instruct"}
PROOF
  BY DEF VoiceParams, NoVoice

(* The workers change neither the call nor, but for ending, whether TTS lives. *)
LEMMA WorkersKeepVoiced ==
    ASSUME TypeOK, Voiced, Llm \/ Seg \/ Tts, wanted' = wanted
    PROVE  Voiced'
PROOF
  <1>1. UNCHANGED <<alive, mode, cpc, call, starting>>
        BY WorkersLeaveClient DEF clientSide
  <1>2. pc'["tts"] # "off" => pc["tts"] # "off"
        BY WorkerMoves DEF Goto, TypeOK, WorkerTypes, Workers
  <1> QED
      BY <1>1, <1>2 DEF Voiced

(* A call starts the TTS worker only if it is one that speaks. *)
LEMMA CallsKeepVoiced ==
    ASSUME TypeOK, Phases, Startable, Voiced, InCall, wanted' = wanted
    PROVE  Voiced'
PROOF
  <1>1. CASE Begin
    <2>1. \A i \in 1..Len(starting') : starting'[i] = "tts" => call \in Speaking
          BY <1>1 DEF Begin, Phases, StartOrder, AllModes, Speaking
    <2> QED
          BY <1>1, <2>1 DEF Begin, FreshSession, Startable, Voiced, Workers
  <1>2. CASE SpawnWorker
    <2>1. starting \in Remaining /\ cpc = "spawn"
          BY <1>2 DEF SpawnWorker, Phases
    <2>2. Head(starting) = starting[1] /\ 1 \in 1..Len(starting)
          BY <2>1 DEF Remaining
    <2>3. pc'["tts"] # pc["tts"] => starting[1] = "tts"
          BY <1>2, <2>2 DEF SpawnWorker, Goto, TypeOK, WorkerTypes, Workers
    <2>4. pc'["tts"] # "off" => wanted # Unset
          BY <2>1, <2>2, <2>3 DEF Voiced
    <2>5. \A i \in 1..Len(Tail(starting)) : i + 1 \in 1..Len(starting)
              /\ Tail(starting)[i] = starting[i + 1]
          BY <2>1 DEF Remaining
    <2>6. /\ UNCHANGED <<alive, mode>> /\ starting' = Tail(starting)
          /\ \/ call' = "none" /\ cpc' = "idle"
             \/ call' = call /\ cpc' = "count"
          BY <1>2 DEF SpawnWorker, Return
    <2> QED
          BY <2>1, <2>4, <2>5, <2>6 DEF Voiced, Speaking
  <1>3. CASE Join
        BY <1>3 DEF Join, Return, FreshSession, Voiced, Workers, Speaking
  <1>4. CASE CountWorker \/ SpawnFails \/ StopSession
        BY <1>4 DEF CountWorker, SpawnFails, StopSession, Voiced
  <1>5. CASE LookWorkers \/ LookText \/ LookPcm \/ Report
        BY <1>5 DEF LookWorkers, LookText, LookPcm, Look, Report, Return, workerSide,
           Voiced, Speaking
  <1>6. CASE TakeText \/ TakeStart \/ CheckAudio \/ CheckWorkers \/ CheckPcm
        BY <1>6 DEF TakeText, TakeStart, CheckAudio, CheckWorkers, CheckPcm,
           HoldOrRelease, Release, Return, workerSide, Voiced, Speaking
  <1> QED
      BY <1>1, <1>2, <1>3, <1>4, <1>5, <1>6 DEF InCall

(* Every step keeps the voice that was asked for whole. *)
LEMMA VoiceStep ==
    SessionInv /\ Secluded /\ VoiceInv /\ [CtxNext]_allVars => VoiceInv'
PROOF
  <1> SUFFICES ASSUME SessionInv, Secluded, VoiceInv, [CtxNext]_allVars PROVE VoiceInv'
      OBVIOUS
  <1> USE DEF SessionInv
  <1>1. Voiced
        BY DEF VoiceInv, Voiced
  <1>2. ASSUME UNCHANGED <<ttsMode, voice, asked, wanted>>, Voiced',
               ctx' \in {ctx, "none"} \/ ctx' \notin {"voice", "transcript"}
        PROVE  VoiceInv'
        BY <1>2 DEF VoiceInv, Voiced
  <1>3. CASE LlmLock \/ LlmUnlock \/ UNCHANGED allVars
        BY <1>1, <1>2, <1>3 DEF LlmLock, LlmUnlock, vars, clientSide, allVars, ctxVars,
           Voiced
  <1>4. CASE LlmStep \/ ((Seg \/ Tts) /\ UNCHANGED ctxVars)
        BY <1>1, <1>2, <1>4, WorkersKeepVoiced DEF LlmStep, ctxVars
  <1>5. CASE InCall /\ UNCHANGED ctxVars
        BY <1>1, <1>2, <1>5, CallsKeepVoiced DEF ctxVars
  <1>6. CASE Audio /\ UNCHANGED ctxVars
        BY <1>1, <1>2, <1>6 DEF Audio, PollPcm, workerSide, ctxVars, Voiced
  <1>7. CASE CreateHandle
    <2>1. /\ UNCHANGED <<mode, call, cpc, starting, pc, ctx, asked>>
          /\ mode = "none" /\ cpc = "idle" /\ call = "none" /\ ctx = "none"
          /\ pc["tts"] = "off"
          BY <1>7 DEF CreateHandle, Create, VoiceInv, Voiced, Startable, QuietInv, AllOff,
             Workers, Secluded
    <2>2. CASE alive'
      <3>1. voice' = NoVoice /\ wanted' = Unset /\ ttsMode' \in {"Base", "VoiceDesign"}
            BY <1>7, <2>2, ContextsAssumption DEF CreateHandle
      <3>2. voice' \in [DOMAIN NoVoice -> Voices \cup {Unset}]
            BY <3>1 DEF NoVoice
      <3> QED
            BY <2>1, <2>2, <3>1, <3>2 DEF VoiceInv, Voiced, Speaking
    <2>3. CASE ~alive'
      <3>1. UNCHANGED <<voice, wanted, ttsMode>>
            BY <1>7, <2>3 DEF CreateHandle
      <3> QED
            BY <2>1, <2>3, <3>1 DEF VoiceInv, Voiced
    <2> QED
          BY <2>2, <2>3
  <1>8. CASE SubmitPrepared
    <2>1. Voiced'
          BY <1>1, <1>8 DEF SubmitPrepared, Submit, MayCall, workerSide, Voiced, Speaking
    <2> QED
          BY <1>2, <1>8, <2>1 DEF SubmitPrepared
  <1>9. CASE OtherCall
    <2>1. Voiced'
          BY <1>1, <1>9 DEF OtherCall, SubmitNull, IsDone, PollNothing, Cancel, PollText,
             MayCall, Return, workerSide, Voiced, Speaking
    <2> QED
          BY <1>2, <1>9, <2>1 DEF OtherCall
  <1>10. ASSUME NEW c, Prepare(c)
         PROVE  /\ UNCHANGED <<alive, mode, voice, ttsMode, starting>> /\ ctx' = c
                /\ call' = "none" /\ cpc' = "idle" /\ pc'["tts"] = "off"
         BY <1>10 DEF Prepare, QuietInv, OutcomeInv, HasSession, Secluded, AllOff,
            Workers, Return, workerSide
  <1>11. CASE \E c \in {"llmContext", "warmup"} : BeginLlmCall(c)
         BY <1>10, <1>11 DEF BeginLlmCall, VoiceInv, Voiced, Speaking
  <1>12. CASE \E v \in Voices : BeginVoice(v)
         BY <1>10, <1>12 DEF BeginVoice, VoiceInv, Voiced, Speaking
  <1>13. CASE ContextCall
    <2>1. /\ UNCHANGED <<alive, mode, call, cpc, starting, pc, ttsMode, asked>>
          /\ cpc = "idle" /\ call = "none" /\ pc["tts"] = "off"
      <3>1. ctx # "none"
            BY <1>13 DEF ContextCall, ClientLock, Prefill, LlmWarmup, TtsWarmup,
               DesignVoice, BaseSample, VoiceFails, BaseTranscript, AtLast, At
      <3>2. UNCHANGED <<alive, mode, call, cpc, starting, pc, ttsMode, asked>>
            BY <1>13 DEF ContextCall, ClientLock, Prefill, LlmWarmup, TtsWarmup,
               DesignVoice, BaseSample, VoiceFails, BaseTranscript, AtLast, At,
               workerSide, vars, clientSide
      <3> QED
            BY <3>1, <3>2 DEF Secluded, VoiceInv, Voiced, AllOff, Workers
    <2>2. Voiced'
          BY <2>1 DEF Voiced, VoiceInv, Speaking
    <2>3. CASE ClientLock \/ Prefill \/ LlmWarmup \/ TtsWarmup
          BY <1>2, <2>1, <2>2, <2>3 DEF ClientLock, Prefill, LlmWarmup, TtsWarmup,
             AtLast, At
    <2>4. CASE DesignVoice
      <3>1. voice' \in [DOMAIN NoVoice -> Voices \cup {Unset}]
            /\ voice'["seed"] = asked /\ voice'["instruct"] = asked
            BY <2>4, VoiceMembers DEF DesignVoice, VoiceInv, Voiced
      <3> QED
            BY <2>1, <2>4, <3>1, VoiceMembers
            DEF DesignVoice, AtLast, VoiceInv, Voiced, Speaking
    <2>5. CASE BaseSample
      <3>1. voice' \in [DOMAIN NoVoice -> Voices \cup {Unset}]
            /\ voice'["refAudioSamples"] = asked /\ voice'["refAudio"] = asked
            BY <2>5, VoiceMembers DEF BaseSample, VoiceInv, Voiced
      <3> QED
            BY <2>1, <2>5, <3>1 DEF BaseSample, At, VoiceInv, Voiced, Speaking
    <2>6. CASE VoiceFails
      <3>1. voice' \in [DOMAIN NoVoice -> Voices \cup {Unset}]
            BY <2>6 DEF VoiceFails, VoiceInv, Voiced
      <3> QED
            BY <2>1, <2>6, <3>1 DEF VoiceFails, AtLast, VoiceInv, Voiced, Speaking
    <2>7. CASE BaseTranscript
      <3>1. voice' \in [DOMAIN NoVoice -> Voices \cup {Unset}]
            BY <2>7 DEF BaseTranscript, VoiceInv, Voiced
      <3>2. ASSUME wanted' # Unset, NEW p \in VoiceParams["Base"]
            PROVE  voice'[p] = wanted'
            BY <2>7, <3>2, VoiceMembers DEF BaseTranscript, AtLast, VoiceInv, Voiced
      <3> QED
            BY <2>1, <2>7, <3>1, <3>2
            DEF BaseTranscript, AtLast, VoiceInv, Voiced, Speaking
    <2> QED
          BY <1>13, <2>3, <2>4, <2>5, <2>6, <2>7 DEF ContextCall
  <1>14. CASE (Seg \/ Tts \/ InCall \/ Audio) /\ UNCHANGED ctxVars
         BY <1>14, <1>4, <1>5, <1>6
  <1> QED
      BY <1>3, <1>4, <1>7, <1>8, <1>9, <1>11, <1>12, <1>13, <1>14 DEF CtxNext

(* What is spoken has the voice that was asked for last, and no context call
   touches it meanwhile. *)
THEOREM OneVoice == CtxSpec => []VoiceAsAsked
PROOF
  <1>1. CtxInit => VoiceInv
        BY ContextsAssumption
        DEF CtxInit, Init, VoiceInv, Voiced, NoVoice, Workers, Speaking, Unset
  <1>2. SessionInv /\ Secluded /\ VoiceInv => VoiceAsAsked
        BY DEF Secluded, VoiceInv, Voiced, VoiceAsAsked, AllOff, Workers
  <1> QED
      BY <1>1, <1>2, CtxInitSafe, SessionStep, SecludedStep, VoiceStep, PTL DEF CtxSpec
=============================================================================
