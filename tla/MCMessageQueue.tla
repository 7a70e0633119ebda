--------------------------- MODULE MCMessageQueue ---------------------------
(***************************************************************************)
(* A small instance of MessageQueue for TLC.                               *)
(***************************************************************************)
EXTENDS MessageQueue

CONSTANTS trainer, other \* the consumers, as model values

MCConsumers == {trainer, other}
=============================================================================
