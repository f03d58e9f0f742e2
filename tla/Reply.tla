-------------------------------- MODULE Reply --------------------------------
(***************************************************************************)
(* What the agent promises of the replies of a call: a reply asks the LLM  *)
(* at most once more than there are tool rounds, then speaks once, and     *)
(* only apologises after that; it never goes back from speaking to asking, *)
(* and nothing follows the hangup.  VoiceAgent and ToolLoop implement it,  *)
(* which is how they agree on the reply that one has from the outside and  *)
(* the other from the inside.                                              *)
(***************************************************************************)
EXTENDS Integers

CONSTANT MaxToolRounds

VARIABLES
    stage,    \* none, asking, speaking, apologising, or over
    rounds    \* the tool rounds of a reply that asks

InitReply == stage = "none" /\ rounds = 0

Ask == stage = "none" /\ stage' = "asking" /\ rounds' = 0

AskAgain ==
    /\ stage = "asking"
    /\ rounds < MaxToolRounds
    /\ stage' = "asking"
    /\ rounds' = rounds + 1

Speak ==
    /\ stage \in {"none", "asking"}
    /\ stage' = "speaking"
    /\ rounds' = 0

Apologise ==
    /\ stage \in {"asking", "speaking"}
    /\ stage' = "apologising"
    /\ rounds' = 0

\* The reply ends, is interrupted or superseded, or hangs up.
End ==
    /\ stage # "over"
    /\ stage' \in {"none", "over"}
    /\ rounds' = 0

RepliesNext == Ask \/ AskAgain \/ Speak \/ Apologise \/ End

RepliesSpec == InitReply /\ [][RepliesNext]_<<stage, rounds>>

=============================================================================
