--------------------------- MODULE MCNativePolicy ---------------------------
(* The audit with its three departments.                                     *)
EXTENDS NativePolicy, TLC

CONSTANTS procurement, facility, hiring

Three == {procurement, facility, hiring}
DepartmentSymmetry == Permutations(Three)
=============================================================================
