--------------------------- MODULE MCEffectLedger ---------------------------
(* Small instances of EffectLedger: a tool that is always asked for, called  *)
(* with two different arguments, a consequential one and a harmless one.     *)
EXTENDS EffectLedger, TLC

CONSTANTS s1, s2, askA, askB, write, note

TwoSlots == {s1, s2}
AllRequests == {askA, askB, write, note}
OneSlot == {s1}
OneRequest == {askA}
AllTools == {"create_space", "destination_write", "shell"}
Consequences == {"create_space", "destination_write"}
Explicit == {"create_space"}
Tool == [q \in AllRequests |-> CASE q \in {askA, askB} -> "create_space"
                                 [] q = write -> "destination_write"
                                 [] OTHER -> "shell"]
OneTool == [q \in OneRequest |-> Tool[q]]
Symmetry == Permutations(TwoSlots) \cup Permutations({askA, askB})
=============================================================================
