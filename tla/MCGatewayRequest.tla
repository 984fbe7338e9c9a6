--------------------------- MODULE MCGatewayRequest ---------------------------
(* Small instances of GatewayRequest for TLC.                              *)
EXTENDS GatewayRequest
=============================================================================
