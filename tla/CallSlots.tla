------------------------------ MODULE CallSlots ------------------------------
(***************************************************************************)
(* What the limiter of offleash/limits.py promises to the server: "caps    *)
(* how many calls can be active at once", where a maximum of 0 disables    *)
(* the limit.  A call holds at most one slot, and the shutdown of the      *)
(* server drops whatever is held.                                          *)
(***************************************************************************)
EXTENDS Integers, FiniteSets

CONSTANTS
    Calls,          \* the calls, by their call_control_id
    MaxConcurrent   \* Settings.max_concurrent_calls

VARIABLE held       \* the calls that hold a slot

SlotFree == MaxConcurrent = 0 \/ Cardinality(held) < MaxConcurrent

Acquire ==
    \E c \in Calls \ held :
        /\ SlotFree
        /\ held' = held \cup {c}

Release == \E c \in held : held' = held \ {c}

Clear == held' = {}

SlotsSpec == held = {} /\ [][Acquire \/ Release \/ Clear]_held

=============================================================================
