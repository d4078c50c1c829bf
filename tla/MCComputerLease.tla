--------------------------- MODULE MCComputerLease ---------------------------
(* Small instances of ComputerLease: workers are interchangeable, and so    *)
(* are the bots.                                                            *)
EXTENDS ComputerLease, TLC

CONSTANTS w1, w2, bot1, bot2

TwoWorkers == {w1, w2}
TwoBots == {bot1, bot2}
Interchangeable == Permutations(TwoWorkers) \cup Permutations(TwoBots)
=============================================================================
