--------------------------- MODULE MCBatchProcessing ---------------------------
(* Small instances of BatchProcessing for TLC.                             *)
EXTENDS BatchProcessing
=============================================================================
