---------------------------- MODULE Conversation ----------------------------
(***************************************************************************)
(* offleash/conversation.py: the message history of one call.  A message   *)
(* keeps its role and the user turn it belongs to, given as the final      *)
(* transcripts that make that turn up; its text is left out.               *)
(* "interrupted" is an assistant message that carries the [interrupted]    *)
(* marker, "tool_calls" an assistant message that carries tool calls,      *)
(* "tool" a tool result.                                                   *)
(***************************************************************************)
EXTENDS Integers, Sequences, FiniteSets

CONSTANT MaxTurns      \* Conversation._max_turns

ASSUME MaxTurnsAssumption == MaxTurns \in Nat \ {0}

Role == {"user", "assistant", "interrupted", "tool_calls", "tool"}

Message == [role : Role, turn : Seq(Nat)]

\* The number of user messages left in m when its first d messages are popped.
UserCount(m, d) == Cardinality({i \in (d + 1)..Len(m) : m[i].role = "user"})

\* _trim pops messages from the front while more than MaxTurns user messages
\* and more than two messages are left: it pops the least number of messages
\* that ends its loop.
TrimEnds(m, d) == UserCount(m, d) <= MaxTurns \/ Len(m) - d <= 2

\* Mutant: the history keeps the last messages, however many belong to a turn.
PoppedToWindow(m) == IF Len(m) > 2 * MaxTurns THEN Len(m) - 2 * MaxTurns ELSE 0

Popped(m) ==
    CHOOSE d \in 0..Len(m) :
        TrimEnds(m, d) /\ \A e \in 0..Len(m) : TrimEnds(m, e) => d <= e

Trimmed(m) == SubSeq(m, Popped(m) + 1, Len(m))

\* add_user_turn and add_assistant_turn trim; add_tool_result does not.
AddTurn(m, role, turn) == Trimmed(Append(m, [role |-> role, turn |-> turn]))

AddToolResult(m, turn) == Append(m, [role |-> "tool", turn |-> turn])

=============================================================================
