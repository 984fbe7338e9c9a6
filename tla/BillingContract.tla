--------------------------- MODULE BillingContract ---------------------------
(***************************************************************************)
(* What credit-service promises the gateway about the money of a request:  *)
(* a request is authorized at most once, its hold ends in exactly one way, *)
(* and money leaves the wallet for it only as its hold is settled, never   *)
(* before and never after the hold was given back.                         *)
(***************************************************************************)
CONSTANT Requests

VARIABLES
  phase,   \* "none", "active" (held), "settled" or "released"
  billed   \* has the ledger charged the request?

cvars == <<phase, billed>>

Init == /\ phase = [r \in Requests |-> "none"]
        /\ billed = [r \in Requests |-> FALSE]

Hold(r) == /\ phase[r] = "none"
           /\ phase' = [phase EXCEPT ![r] = "active"]
           /\ UNCHANGED billed

(* A settlement may find nothing to charge.                                *)
Settle(r) == /\ phase[r] = "active"
             /\ phase' = [phase EXCEPT ![r] = "settled"]
             /\ \E b \in BOOLEAN : billed' = [billed EXCEPT ![r] = b]

GiveBack(r) == /\ phase[r] = "active"
               /\ phase' = [phase EXCEPT ![r] = "released"]
               /\ UNCHANGED billed

Next == \E r \in Requests : Hold(r) \/ Settle(r) \/ GiveBack(r)

Spec == Init /\ [][Next]_cvars
=============================================================================
