----------------------------- MODULE MCToolLoop -----------------------------
(***************************************************************************)
(* Constants for the model checking of ToolLoop.                           *)
(***************************************************************************)
EXTENDS ToolLoop

Says(text) == [text |-> <<text>>, deltas |-> <<>>]

Calls(index, id, name, arguments) ==
    [text |-> <<>>,
     deltas |-> <<[index |-> index, id |-> id, name |-> name, arguments |-> arguments]>>]

\* Words and blank text, two calls that can be made in one stream, one with
\* arguments that do not parse, a tool that there is not, and arguments that are
\* no object or that the tool refuses.
LlmChunks ==
    {Says("yes"), Says(" "),
     Calls(0, "a", "check_availability", <<"{table", "}">>),
     Calls(1, "b", "make_reservation", <<"{name", "}">>),
     Calls(1, "b", "make_reservation", <<"{name">>),
     Calls(1, "b", "get_menu", <<"null">>),
     Calls(1, "b", "transfer_call", <<"{name", "}">>),
     Calls(0, "a", "check_availability", <<"{closed", "}">>),
     Calls(0, "a", "check_availability", <<"null">>)}

NoFaults == {}
AllFaults == {"speak", "suspend", "stray"}

=============================================================================
