--------------------------- MODULE RestaurantFlow ---------------------------
(***************************************************************************)
(* The Golden Fork demo: the flow nodes of offleash/prompts.py and the     *)
(* tools of offleash/tools.py with ToolRegistry.execute, as far as they    *)
(* change the state of the call: the slots, the node, and whether the      *)
(* execution raises.                                                       *)
(***************************************************************************)
EXTENDS Sequences

Node == {"booking", "confirm", "farewell"}

Tool == {"check_availability", "make_reservation", "get_menu"}

Slot == {"date", "time", "party_size", "name"}

InitialNode == "booking"

\* FlowNode.tools, the tools that a node offers.
NodeTools ==
    [booking  |-> {"check_availability", "get_menu"},
     confirm  |-> {"make_reservation", "check_availability"},
     farewell |-> {}]

\* FlowNode.transitions, and FlowNode.terminal.
Transitions ==
    [booking  |-> [check_availability |-> "confirm"],
     confirm  |-> [make_reservation |-> "farewell", check_availability |-> "confirm"],
     farewell |-> [tool \in {} |-> "farewell"]]

Terminal == {"farewell"}

\* Mutant: the tools of all nodes are offered.
AllTools(node) == Tool

\* The tools that are offered to the LLM in a node.
ToolSchemas(node) == NodeTools[node]

\* build_system_prompt: the task of the node and the slots that were collected are
\* what changes in the prompt during a call.
BuildSystemPrompt(node, slots) == [node |-> node, slots |-> slots]

-----------------------------------------------------------------------------
(***************************************************************************)
(* The arguments of a call are the fragments of a JSON text.  A text that  *)
(* is not complete, or more than one, does not parse.  The objects stand   *)
(* for the arguments of a free table, of a Monday or a party of more than  *)
(* eight, and of a name; "null" is a text that parses to no object.        *)
(***************************************************************************)

Objects == {"{table", "{closed", "{name"}

IsObject(arguments) == \E object \in Objects : arguments = <<object, "}">>

Parses(arguments) == IsObject(arguments) \/ arguments = <<"null">>

\* The tools with a parameter call_context.
TakesContext == {"check_availability", "make_reservation"}

\* execute adds the context to the arguments outside of its try statement.
Raises(name, arguments) ==
    name \in TakesContext /\ Parses(arguments) /\ ~IsObject(arguments)

\* The slots that a call stores.  A call of an unknown tool, with a text that does
\* not parse or with the arguments of another tool, and a refused table, store none.
Stores(name, arguments) ==
    IF name = "check_availability" /\ arguments = <<"{table", "}">>
    THEN {"date", "time", "party_size"}
    ELSE IF name = "make_reservation" /\ arguments = <<"{name", "}">> THEN {"name"}
    ELSE {}

\* Whether a tool triggers a transition in a node, whatever it returned.
Triggers(node, name) == name \in DOMAIN Transitions[node]

=============================================================================
