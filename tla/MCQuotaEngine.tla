---------------------------- MODULE MCQuotaEngine ----------------------------
EXTENDS QuotaEngine, TLC

(* Two requests of one workspace and one of another, in one organization;  *)
(* the organization counts tokens, the first workspace requests.           *)
CONSTANTS r1, r2, r3, org, ws, tokens, requests

OrgThenWorkspace ==
  (r1 :> <<org, ws>>) @@ (r2 :> <<org, ws>>) @@ (r3 :> <<org>>)
TokensThenRequests ==
  (r1 :> <<tokens, requests>>) @@ (r2 :> <<tokens, requests>>) @@ (r3 :> <<tokens>>)
TwoAndOne == (org :> 2) @@ (ws :> 1)
ThreeAndOne == (tokens :> 3) @@ (requests :> 1)
Symmetry == Permutations({r1, r2})
=============================================================================
