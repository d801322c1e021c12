------------------------------ MODULE Contexts ------------------------------
(***************************************************************************)
(* Session with what the API calls outside a session change or use in the  *)
(* backends: the mutex of Qwen3Backend, which its worker holds for a whole *)
(* generation, and the voice and the engine of Qwen3TtsBackend, which its  *)
(* worker uses without any lock.                                           *)
(*                                                                         *)
(* The client makes these calls where llmvoice.h says, before submitting:  *)
(* without a session, or once IsDone said true.  It submits speech only    *)
(* when its last voice context succeeded.  What a context call does to the *)
(* chat history is the subject of module Qwen3Backend.                     *)
(***************************************************************************)
EXTENDS Session

CONSTANTS
    TtsModes,       \* the ttsMode the client creates a handle with
    Voices          \* what it asks for: sample and transcript, or seed and instruct

ASSUME ContextsAssumption ==
    /\ TtsModes \subseteq {"Base", "VoiceDesign"}
    /\ NoError \notin Voices

VARIABLES
    owner,      \* who holds _ctxMutex: "none", "llm" (the worker) or "client"
    ctx,        \* place of the client in a context call; "none": in no such call,
                \* "prepared": neither, and the last call was one
    asked,      \* the voice that call asks for
    ttsMode,    \* _mode
    voice,      \* per member of Qwen3TtsBackend: the voice its value belongs to
    wanted      \* history: the voice of the last voice context, if it succeeded

ctxVars == <<owner, ctx, asked, ttsMode, voice, wanted>>
allVars == <<vars, ctxVars>>

Unset == NoError

(* getTtsParams: what a synthesis is given. *)
VoiceParams ==
    [Base        |-> {"refAudioSamples", "refAudio", "transcript"},
     VoiceDesign |-> {"seed", "instruct"}]

NoVoice == [p \in UNION {VoiceParams[m] : m \in DOMAIN VoiceParams} |-> Unset]

CtxInit ==
    /\ Init
    /\ owner = "none" /\ ctx = "none" /\ asked = Unset
    /\ ttsMode \in TtsModes /\ voice = NoVoice /\ wanted = Unset

-----------------------------------------------------------------------------
(* The LLM worker: synthesizeToQueue locks first and unlocks last, when the
   token queue is closed.  Mutant: it holds the mutex until its thread ends. *)
LlmHolds_ToTheEnd == pc["llm"] # "off"
LlmHolds == pc["llm"] \in {"gen", "push", "close"}

LlmLock ==
    /\ LlmHolds /\ owner = "none"
    /\ owner' = "llm"
    /\ UNCHANGED <<vars, ctx, asked, ttsMode, voice, wanted>>

LlmUnlock ==
    /\ ~LlmHolds /\ owner = "llm"
    /\ owner' = "none"
    /\ UNCHANGED <<vars, ctx, asked, ttsMode, voice, wanted>>

LlmStep == Llm /\ (LlmHolds <=> owner = "llm") /\ UNCHANGED ctxVars

-----------------------------------------------------------------------------
(* The context calls of the client. *)

BetweenCalls == ctx \in {"none", "prepared"}

(* A context call begins. *)
Prepare(c) ==
    /\ MayCall /\ BetweenCalls
    /\ ~HasSession \/ cpc = "done" \/ ctx = "prepared"
    /\ Return /\ ctx' = c
    /\ UNCHANGED <<alive, lastError, mode, read, remainder, pending, starting, room,
                   shown, given, workerSide, owner, ttsMode, voice>>

At(step) == ctx = step /\ UNCHANGED <<vars, asked, ttsMode>>
AtLast(step) ==
    /\ ctx = step /\ ctx' = "prepared"
    /\ UNCHANGED <<alive, mode, read, remainder, pending, call, cpc, starting, room,
                   shown, given, workerSide, asked, ttsMode>>

(* The call returns: guarded turns an exception into lastError. *)
Succeeds == UNCHANGED lastError
Fails == lastError' = "api"

(* createFreshContext and warmup of the LLM backend, both under the mutex; then
   llmvoiceWarmup warms up the TTS backend, too. *)
BeginLlmCall(c) == Prepare(c) /\ UNCHANGED <<asked, wanted>>

ClientLock ==
    /\ At(ctx) /\ ctx \in {"llmContext", "warmup"} /\ owner = "none"
    /\ owner' = "client"
    /\ ctx' = IF ctx = "warmup" THEN "decode" ELSE "prefill"
    /\ UNCHANGED <<voice, wanted>>

(* The system prompt is decoded, or cannot be. *)
Prefill ==
    /\ AtLast("prefill") /\ owner' = "none"
    /\ Succeeds \/ Fails
    /\ UNCHANGED <<voice, wanted>>

LlmWarmup ==
    /\ owner' = "none" /\ UNCHANGED <<voice, wanted>>
    /\ \/ At("decode") /\ ctx' = "engine"
       \/ AtLast("decode") /\ Fails

(* A synthesis without output; nothing keeps it from running beside another. *)
TtsWarmup ==
    /\ AtLast("engine")
    /\ Succeeds \/ Fails
    /\ UNCHANGED <<owner, voice, wanted>>

BeginVoice(v) == Prepare("voice") /\ asked' = v /\ wanted' = Unset

(* createVoiceDesignContext *)
DesignVoice ==
    /\ AtLast("voice") /\ ttsMode = "VoiceDesign" /\ Succeeds
    /\ voice' = [voice EXCEPT !["seed"] = asked, !["instruct"] = asked]
    /\ wanted' = asked
    /\ UNCHANGED owner

(* createBaseContext reads the sample; its length is reset before. *)
BaseSample ==
    /\ At("voice") /\ ttsMode = "Base"
    /\ ctx' = "transcript"
    /\ voice' = [voice EXCEPT !["refAudioSamples"] = asked, !["refAudio"] = asked]
    /\ UNCHANGED <<owner, wanted>>

(* The other kind of context for this handle, no such sample, or an unreadable
   one. *)
VoiceFails ==
    /\ AtLast("voice") /\ Fails
    /\ \/ UNCHANGED voice
       \/ ttsMode = "Base" /\ voice' = [voice EXCEPT !["refAudioSamples"] = Unset]
    /\ UNCHANGED <<owner, wanted>>

(* Mutant: the transcript is optional, the one of an earlier voice stays. *)
BaseTranscript_Optional ==
    /\ AtLast("transcript")
    /\ Succeeds /\ wanted' = asked
    /\ voice' \in {voice, [voice EXCEPT !["transcript"] = asked]}
    /\ UNCHANGED owner

(* Then the transcript.  Without one the call fails, and the new sample stays
   beside the transcript of an earlier voice. *)
BaseTranscript ==
    /\ AtLast("transcript")
    /\ \/ /\ Succeeds /\ wanted' = asked
          /\ voice' = [voice EXCEPT !["transcript"] = asked]
       \/ Fails /\ UNCHANGED <<voice, wanted>>
    /\ UNCHANGED owner

ContextCall ==
    \/ ClientLock \/ Prefill \/ LlmWarmup \/ TtsWarmup
    \/ DesignVoice \/ BaseSample \/ VoiceFails \/ BaseTranscript

-----------------------------------------------------------------------------
(* The calls of module Session, by the same thread. *)

CreateHandle ==
    /\ Create
    /\ IF alive'
       THEN voice' = NoVoice /\ wanted' = Unset /\ ttsMode' \in TtsModes
       ELSE UNCHANGED <<voice, wanted, ttsMode>>
    /\ UNCHANGED <<owner, ctx, asked>>

SubmitPrepared ==
    /\ BetweenCalls /\ ctx' = "none"
    /\ \E m \in Modes : Submit(m) /\ (m \in {"pipeline", "tts"} => wanted # Unset)
    /\ UNCHANGED <<owner, asked, ttsMode, voice, wanted>>

OtherCall ==
    /\ BetweenCalls /\ ctx' = "none"
    /\ \/ SubmitNull \/ IsDone \/ PollNothing
       \/ \E c \in {"cancel", "destroy"} : Cancel(c)
       \/ \E r \in 0..MaxRoom : PollText(r)
    /\ UNCHANGED <<owner, asked, ttsMode, voice, wanted>>

CtxNext ==
    \/ LlmLock \/ LlmUnlock \/ LlmStep
    \/ (Seg \/ Tts \/ InCall \/ Audio) /\ UNCHANGED ctxVars
    \/ CreateHandle \/ SubmitPrepared \/ OtherCall
    \/ \E c \in {"llmContext", "warmup"} : BeginLlmCall(c)
    \/ \E v \in Voices : BeginVoice(v)
    \/ ContextCall

CtxSpec == CtxInit /\ [][CtxNext]_allVars
-----------------------------------------------------------------------------
(* A context call made before submitting never waits for the LLM worker, which
   may itself wait for this client to poll (Qwen3Backend.cpp:308 and :379). *)
NeverWaits == ctx \in {"llmContext", "warmup"} => owner = "none"

(* While a worker may use the voice or the engine, the client does not replace
   the one or run the other, though neither is locked; and all that makes up the
   voice is what the client asked for last, whatever calls failed before. *)
VoiceAsAsked ==
    pc["tts"] \in {"speak", "synth"} =>
        /\ ctx = "none"
        /\ \A p \in VoiceParams[ttsMode] : voice[p] = wanted
=============================================================================
