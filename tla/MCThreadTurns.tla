--------------------------- MODULE MCThreadTurns ---------------------------
(* Small instances of ThreadTurns: the second message of the conversation  *)
(* comes through a messaging channel.                                      *)
EXTENDS ThreadTurns

SecondFromChannel == {2}
NoneFromChannel == {}
=============================================================================
