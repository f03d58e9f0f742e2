---------------------------- MODULE MCCallServer ----------------------------
(***************************************************************************)
(* Constants for the model checking of CallServer.                         *)
(***************************************************************************)
EXTENDS CallServer, TLC

CONSTANTS c1, c2, a1, a2, a3, a4

TwoCalls == {c1, c2}
InboundAndOutbound == {c1}
NoInbound == {}

ThreeAgents == {a1, a2, a3}
FourAgents == {a1, a2, a3, a4}

NoFaults == {}
OnlyReorder == {"reorder"}
OnlyTimeout == {"timeout"}
AnyFault == {"reorder", "timeout"}

AgentSymmetry == Permutations(AgentIds)

=============================================================================
