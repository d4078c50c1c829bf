-------------------------- MODULE MCMessagingOutbox --------------------------
(* Small instances of MessagingOutbox.                                       *)
EXTENDS MessagingOutbox, TLC

CONSTANTS reply, d1, d2

Replies == {reply}
Two == {d1, d2}
=============================================================================
