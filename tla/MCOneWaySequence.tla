--------------------------- MODULE MCOneWaySequence ---------------------------
(* Instances of OneWaySequence on a ring of a few values, so that blocks   *)
(* run out and the ring wraps within a few frames.                         *)
EXTENDS OneWaySequence
=============================================================================
