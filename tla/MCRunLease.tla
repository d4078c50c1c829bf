----------------------------- MODULE MCRunLease -----------------------------
(* Small instances of RunLease.                                            *)
EXTENDS RunLease, TLC

CONSTANTS a, b

TwoSlots == {a, b}
TwoWorkers == {a, b}
OwnProcess == [s \in TwoSlots |-> s]      \* each slot a process of its own
OneProcess == [s \in TwoSlots |-> a]      \* two slots of process a

Symmetry == Permutations(TwoSlots)
=============================================================================
