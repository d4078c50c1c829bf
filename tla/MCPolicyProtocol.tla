------------------------- MODULE MCPolicyProtocol -------------------------
(* A Board and two restricted principals; one project of three components, *)
(* each labelling one source as Nova labels its reasons; one computed      *)
(* artifact, so that labels can be gathered and forwarded to the principal *)
(* that must be refused, and one notice.                                   *)
EXTENDS PolicyProtocol, TLC

CONSTANTS board, facility, auditor, nova, c1, c2, c3, o1, n1

MCPrincipals == {board, facility, auditor}
MCProjects == {nova}
MCComponents == {c1, c2, c3}
MCSources == MCComponents   \* the source about a component is named after it
MCOutputs == {o1}
MCNotices == {n1}
MCSourceLabels == [c \in MCComponents |-> {<<nova, c>>}]
Symmetry == Permutations(MCComponents) \cup Permutations({facility, auditor})
=============================================================================
