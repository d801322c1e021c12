------------------------------- MODULE Client -------------------------------
(***************************************************************************)
(* main.cpp: the program that creates a handle, submits once, polls text   *)
(* (and, in voice-design, audio) until IsDone, and destroys the handle.    *)
(* In the pipeline, miniaudio polls the audio on a thread of its own from  *)
(* the start of the device until its end.  The commands are the Modes of   *)
(* Session: "pipeline", "segmented" and "raw" (llm-only), "tts"            *)
(* (voice-design).                                                         *)
(*                                                                         *)
(* main catches nothing: an exception ends the process, worker threads and *)
(* all.                                                                    *)
(***************************************************************************)
EXTENDS Session

CONSTANTS
    Period,         \* frames a callback, or a PollPcm of main, asks for
    MayThrow        \* what main may throw at: "prepare" (contexts and warmup),
                    \* "open" (audio device, output file), "write" (output file)

ASSUME ClientAssumption ==
    /\ {"isDone", "pollText", "pollPcm", "destroy"} \subseteq Calls
    /\ Period \in Nat \ {0}
    /\ MayThrow \subseteq {"prepare", "open", "write"}

VARIABLES
    at,         \* where main is
    device,     \* the audio device is started
    wav,        \* samplesWritten # 0
    failed      \* history: the stages that failed

mainVars == <<at, device, wav, failed>>
programVars == <<vars, mainVars>>

Over == {"ok", "error", "threw"}    \* returned 0; threw lastError; threw earlier

ProgramInit == Init /\ at = "create" /\ device = FALSE /\ wav = FALSE /\ failed = {}

-----------------------------------------------------------------------------
Goes(from, to) == at = from /\ at' = to

(* The process is gone, with everything in it. *)
Throws(from) ==
    /\ at = from /\ at' = "threw"
    /\ alive' = FALSE /\ device' = FALSE
    /\ FreshSession("none")
    /\ Return
    /\ UNCHANGED <<cancelled, lastError, starting, room, wav>>

CreateHandle ==
    /\ at = "create" /\ Create
    /\ at' = IF alive' THEN "prepare" ELSE "threw"
    /\ UNCHANGED <<device, wav>>

PrepareContexts ==
    \/ Goes("prepare", "submit") /\ UNCHANGED <<vars, device, wav>>
    \/ "prepare" \in MayThrow /\ Throws("prepare")

CallSubmit ==
    /\ Goes("submit", "submitted")
    /\ \E m \in Modes : Submit(m)
    /\ UNCHANGED <<device, wav>>

(* A submit that failed leaves no session. *)
Submitted ==
    /\ call = "none"
    /\ \/ HasSession /\ Goes("submitted", "open") /\ UNCHANGED <<vars, device, wav>>
       \/ ~HasSession /\ Throws("submitted")

(* initAudioDevice; the pipeline is already running.  Voice-design opens its
   file. *)
OpenOutput ==
    \/ /\ Goes("open", "ask")
       /\ device' = (mode = "pipeline")
       /\ UNCHANGED <<vars, wav>>
    \/ "open" \in MayThrow /\ mode \in {"pipeline", "tts"} /\ Throws("open")

(* The loop. *)
AskDone == Goes("ask", "asked") /\ IsDone /\ UNCHANGED <<device, wav>>

(* Mutant: the loop ends as soon as no worker runs. *)
Asked_WhenQuiet ==
    /\ call = "none"
    /\ Goes("asked", IF NoWorkerRuns THEN "finish" ELSE "poll")
    /\ UNCHANGED <<vars, device, wav>>
Asked ==
    /\ call = "none"
    /\ Goes("asked", IF cpc = "done" THEN "finish" ELSE "poll")
    /\ UNCHANGED <<vars, device, wav>>

Poll == Goes("poll", "polled") /\ PollText(MaxRoom) /\ UNCHANGED <<device, wav>>

PollAudio ==
    /\ call = "none"
    /\ LET n == IF mode = "tts" THEN Min2(Period, Available) ELSE 0
       IN  \/ /\ Goes("polled", "ask")
              /\ read' = read + n
              /\ wav' = (wav \/ n > 0)
              /\ UNCHANGED <<alive, lastError, mode, remainder, pending, call, cpc,
                             starting, room, shown, given, workerSide, device>>
           \/ n > 0 /\ "write" \in MayThrow /\ Throws("polled")

(* Voice-design must have written something; it adds two more files. *)
FinishOutput ==
    \/ (mode = "tts" => wav) /\ Goes("finish", "close") /\ UNCHANGED <<vars, device, wav>>
    \/ mode = "tts" /\ (~wav \/ "write" \in MayThrow) /\ Throws("finish")

(* playbackAudioRemainder: when uninit returns, no callback runs anymore.
   Mutant: the device is left to the end of the process. *)
CloseDevice_Never ==
    /\ Goes("close", "destroy")
    /\ UNCHANGED <<vars, device, wav>>
CloseDevice ==
    /\ Goes("close", "destroy")
    /\ device' = FALSE
    /\ UNCHANGED <<vars, wav>>

CallDestroy == Goes("destroy", "destroyed") /\ Cancel("destroy") /\ UNCHANGED <<device, wav>>

(* The outcome IsDone left is looked at last. *)
Exit ==
    /\ call = "none"
    /\ Goes("destroyed", IF lastError = NoError THEN "ok" ELSE "error")
    /\ UNCHANGED <<vars, device, wav>>

InAPI == InCall /\ UNCHANGED <<at, device, wav>>

Main ==
    \/ CreateHandle \/ PrepareContexts \/ CallSubmit \/ Submitted \/ OpenOutput
    \/ AskDone \/ Asked \/ Poll \/ PollAudio \/ FinishOutput
    \/ CloseDevice \/ CallDestroy \/ Exit \/ InAPI

(* playbackCallback, as long as the device runs, whatever main is doing.
   Mutant: what was missing counts as polled. *)
PlaybackCallback_Underrun ==
    /\ device
    /\ read' = read + Period
    /\ UNCHANGED <<alive, lastError, mode, remainder, pending, call, cpc, starting,
                   room, shown, given, workerSide, at, device, wav>>
PlaybackCallback ==
    /\ device /\ Available > 0
    /\ read' = read + Min2(Period, Available)
    /\ UNCHANGED <<alive, lastError, mode, remainder, pending, call, cpc, starting,
                   room, shown, given, workerSide, at, device, wav>>

Working(w) ==
    /\ CASE w = "llm" -> Llm [] w = "seg" -> Seg [] w = "tts" -> Tts
    /\ UNCHANGED <<at, device, wav>>

Recorded(A) == A /\ failed' = failed \cup {w \in Workers : threw'[w]}

ProgramNext == Recorded(Main \/ PlaybackCallback \/ \E w \in Workers : Working(w))

Program == ProgramInit /\ [][ProgramNext]_programVars

(* The scheduler runs every thread that can go on, the audio thread included. *)
LiveProgram ==
    /\ Program
    /\ WF_programVars(Recorded(Main))
    /\ WF_programVars(Recorded(PlaybackCallback))
    /\ \A w \in Workers : WF_programVars(Recorded(Working(w)))
-----------------------------------------------------------------------------
(* While the audio device runs, its callback finds a session that main neither
   replaces nor destroys; Session lets audio be polled only then. *)
DeviceHasSession ==
    device => alive /\ HasSession /\ call \in {"none", "isDone", "pollText"}

(* The exit code tells the truth: 0 only if no stage failed at any time, and an
   error at the end only if one did, although the session that failed is gone by
   then. *)
ExitTruth ==
    /\ at = "ok" => failed = {}
    /\ at = "error" => failed # {}

(* But for the end of the process, each step is one that Session lets a client
   and its workers take. *)
ImplementsSession == [][Next \/ at' = "threw"]_vars

(* When main leaves its loop, every byte released was printed and every frame
   written was played or saved; if no stage failed, that is all the session had,
   though the loop polls in pieces and audio is polled beside it. *)
Delivered ==
    at \in {"finish", "close", "destroy"} =>
        /\ given = PieceLen * Len(shown) /\ read = written
        /\ failed = {} => Len(shown) = Produced

(* The stall that SessionSilence shows: a segment without audio waits for some,
   there is none to poll, as many as the queue of start positions holds are
   behind it, none with audio, and TTS has a further one that it cannot announce. *)
Silent ==
    /\ pending # NoPending /\ Available = 0 /\ cur > pending.seg + QueueCapa
    /\ \A s \in pending.seg .. cur : speech[s] = -1

(* The program ends, whichever stages fail and wherever main throws, unless it
   is in that stall for good, and then main goes on to ask and to poll.  (With
   up to QueueCapa + 1 segments there is no stall: cur <= MaxSegments.) *)
Ends ==
    \/ <>(at \in Over)
    \/ <>[]Silent /\ []<><<AskDone>>_programVars /\ []<><<Poll>>_programVars
=============================================================================
