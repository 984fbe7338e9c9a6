----------------------- MODULE MCResilienceController -----------------------
(* Small instances of ResilienceController for TLC.                        *)
EXTENDS ResilienceController
=============================================================================
