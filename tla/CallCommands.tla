---------------------------- MODULE CallCommands ----------------------------
(***************************************************************************)
(* What the agent sends with its call commands: the transcription settings *)
(* (settings.py) and the payload of transcription_start that they become,  *)
(* and the text of a speak (telnyx.py).                                    *)
(*                                                                         *)
(* A value that may be missing is the set of it or the empty set; a text   *)
(* is the sequence of its characters (those that matter have names), a     *)
(* threshold is given in percent, and a language is a code with or without *)
(* a region ("en", "en-US").                                               *)
(***************************************************************************)
EXTENDS Integers, Sequences

Engine(models, interim) == [models |-> models, interim |-> interim]

SttEngines ==
    [Google |-> Engine({}, TRUE),
     Telnyx |-> Engine({"openai/whisper-large-v3-turbo", "openai/whisper-tiny"}, FALSE),
     Deepgram |-> Engine({"nova-2", "nova-3", "flux"}, TRUE),
     AssemblyAI |-> Engine({"assemblyai/universal-streaming"}, TRUE),
     Soniox |-> Engine({"soniox/stt-rt-v4"}, TRUE),
     Speechmatics |-> Engine({"speechmatics/standard"}, TRUE),
     xAI |-> Engine({"xai/grok-stt"}, TRUE),
     Azure |-> Engine({}, FALSE)]

Known(engine) == engine \in DOMAIN SttEngines

\* An engine that the table does not know is trusted.
SttEmitsInterim(engine) == Known(engine) => SttEngines[engine].interim

Languages == [code : STRING, region : SUBSET STRING]

Settings ==
    [stt_engine : STRING, stt_model : STRING, stt_language : Languages,
     stt_eot_threshold : SUBSET Int, stt_eot_timeout_ms : SUBSET Int]

EotThresholds == 50..90
EotTimeouts == 500..10000

\* The settings that Settings._check_stt lets the process start with; the language
\* is not checked.
CheckStt(s) ==
    /\ s.stt_eot_threshold \subseteq EotThresholds
    /\ s.stt_eot_timeout_ms \subseteq EotTimeouts
    /\ Known(s.stt_engine) /\ s.stt_model # ""
          => s.stt_model \in SttEngines[s.stt_engine].models

\* The payload of Call.start_transcription.
StartTranscription(s) ==
    LET flux == s.stt_engine = "Deepgram" /\ s.stt_model = "flux"
    IN  [transcription_engine |-> s.stt_engine,
         language |-> s.stt_language,
         transcription_model |-> {s.stt_model} \ {""},
         eot_threshold |-> IF flux THEN s.stt_eot_threshold ELSE {},
         eot_timeout_ms |-> IF flux THEN s.stt_eot_timeout_ms ELSE {},
         interim_results |-> SttEmitsInterim(s.stt_engine)]

-----------------------------------------------------------------------------
MaxSpeakChars == 3000

\* The sentence marks, in the order in which they are tried.
Marks == <<"period", "exclamation", "question">>

\* The ends of sentences with a mark in the second half of a text of max characters.
SentenceEnds(head, mark, max) ==
    {p \in 1..(Len(head) - 1) : head[p] = mark /\ head[p + 1] = "space" /\ p - 1 > max \div 2}

\* The first mark that ends a sentence there, if there is one.
FirstMark(head, max) ==
    {k \in DOMAIN Marks :
        /\ SentenceEnds(head, Marks[k], max) # {}
        /\ \A j \in 1..(k - 1) : SentenceEnds(head, Marks[j], max) = {}}

LastOf(places) == CHOOSE p \in places : \A q \in places : q <= p

\* The length at which a text is cut: the last of those sentences, or all of it.
Cut(head, max) ==
    IF FirstMark(head, max) = {} THEN Len(head)
    ELSE LastOf(UNION {SentenceEnds(head, Marks[k], max) : k \in FirstMark(head, max)})

\* _cap_speak_text for a limit of max characters.
Capped(text, max) ==
    IF Len(text) <= max THEN text
    ELSE SubSeq(text, 1, Cut(SubSeq(text, 1, max), max))

CapSpeakText(text) == Capped(text, MaxSpeakChars)

=============================================================================
