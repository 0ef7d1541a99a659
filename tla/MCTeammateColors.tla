-------------------------- MODULE MCTeammateColors --------------------------
(* Values of the constants for TLC. *)
EXTENDS TeammateColors

\* Slot 1 may hold two bots in turn.
MCJoins == [s \in BotSlots \cup HumanSlots |-> IF s = 1 THEN 2 ELSE 1]

\* A human gets, and prefers, the first colour.
MCPreferences == [s \in BotSlots \cup HumanSlots |-> IF s \in HumanSlots THEN {0} ELSE {-1}]

=============================================================================
