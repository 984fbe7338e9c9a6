--------------------------- MODULE MCStreamRequest ---------------------------
(* Small instances of StreamRequest for TLC.                               *)
EXTENDS StreamRequest
=============================================================================
