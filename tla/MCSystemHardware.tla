-------------------------- MODULE MCSystemHardware --------------------------
(* One wheel that is driven, a joint that is only read, two attempts.  The *)
(* live configuration has the wheel alone, and two speeds.                 *)
EXTENDS SystemHardware
CONSTANTS wheel, joint, slow, fast
=============================================================================
