--------------------------- MODULE MCOperationQueue ---------------------------
(* OperationQueue with two covers, one 1W identity whose handle collides   *)
(* with a device id, and a deque of at most three entries.                 *)
EXTENDS OperationQueue

CONSTANTS d1, d2

MCDevices == {d1, d2}
MCControllers == {d1}
=============================================================================
