---------------------------- MODULE MCEventStream ----------------------------
(* Small instances of EventStream. *)
EXTENDS EventStream

CONSTANTS c1

=============================================================================
