---------------------------- MODULE MCVoiceAgent ----------------------------
(***************************************************************************)
(* Constants for the model checking of VoiceAgent.                         *)
(***************************************************************************)
EXTENDS VoiceAgent

WithGreeting == {TRUE}
WithoutGreeting == {FALSE}
EitherGreeting == BOOLEAN

NoFaults == {}

AllFaults == {"transcription", "llm", "speak", "tools", "budget", "shutdown"}

OnlyLlm == {"llm"}

=============================================================================
