----------------------------- MODULE MCAgentCall -----------------------------
(***************************************************************************)
(* Constants for the model checking of AgentCall.                          *)
(***************************************************************************)
EXTENDS AgentCall

EitherGreeting == BOOLEAN

\* What can go wrong on the agent's side.
AgentFaults == {"transcription", "llm", "speak"}

\* What can go wrong between the agent and the leg.
EveryLegFault == {"speak", "stop", "hangup", "order"}
RefusedSpeaks == {"speak"}

=============================================================================
