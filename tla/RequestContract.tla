--------------------------- MODULE RequestContract ---------------------------
(***************************************************************************)
(* What the gateway promises about one request, streamed or not: how its   *)
(* record, the tokens its execution reserved and its money go together.    *)
(* Money moves as BillingContract says.  It is charged only for a request  *)
(* recorded as completed whose tokens have not been returned, and from     *)
(* then on record and tokens stay what they are, but for a count of the    *)
(* tokens that is still to come.                                           *)
(***************************************************************************)
CONSTANT Requests

VARIABLES
  record,  \* stored status of the request
  tokens,  \* of the recorded execution: "held", "finalized" or "cancelled"
  phase,   \* what became of its hold
  billed   \* has the ledger charged it?

rvars == <<record, tokens, phase, billed>>

Billing == INSTANCE BillingContract

Init == /\ record = [r \in Requests |-> "none"]
        /\ tokens = [r \in Requests |-> "none"]
        /\ Billing!Init

RecordBecomes(r, status) == record' = [record EXCEPT ![r] = status]
TokensBecome(r, state) == tokens' = [tokens EXCEPT ![r] = state]

(* A request is recorded only with its tokens reserved.                    *)
Start(r) == /\ record[r] = "none"
            /\ RecordBecomes(r, "executing") /\ TokensBecome(r, "held")
            /\ UNCHANGED <<phase, billed>>

(* An answer of the cache or of another call executes nothing.             *)
AnswerBesides(r) == /\ record[r] = "none"
                    /\ RecordBecomes(r, "completed")
                    /\ UNCHANGED <<tokens, phase, billed>>

Complete(r) == /\ record[r] = "executing" /\ tokens[r] = "held"
               /\ RecordBecomes(r, "completed")
               /\ UNCHANGED <<tokens, phase, billed>>

(* What fails after its completion was stored, or even after its tokens    *)
(* were counted, is failed still, until its money is charged.              *)
Fail(r) == /\ record[r] \in {"executing", "completed"}
           /\ tokens[r] # "none" /\ phase[r] # "settled"
           /\ \E status \in {"failed", "cancelled", "timed_out"} : RecordBecomes(r, status)
           /\ UNCHANGED <<tokens, phase, billed>>

Count(r) == /\ record[r] = "completed" /\ tokens[r] = "held"
            /\ TokensBecome(r, "finalized")
            /\ UNCHANGED <<record, phase, billed>>

Return(r) == /\ tokens[r] = "held" /\ phase[r] # "settled"
             /\ TokensBecome(r, "cancelled")
             /\ UNCHANGED <<record, phase, billed>>

Hold(r) == Billing!Hold(r) /\ UNCHANGED <<record, tokens>>

Settle(r) == /\ record[r] = "completed" /\ tokens[r] \in {"held", "finalized"}
             /\ Billing!Settle(r)
             /\ UNCHANGED <<record, tokens>>

GiveBack(r) == Billing!GiveBack(r) /\ UNCHANGED <<record, tokens>>

Next == \E r \in Requests :
          \/ Start(r) \/ AnswerBesides(r) \/ Complete(r) \/ Fail(r)
          \/ Count(r) \/ Return(r)
          \/ Hold(r) \/ Settle(r) \/ GiveBack(r)

Spec == Init /\ [][Next]_rvars
-----------------------------------------------------------------------------
(* Properties *)

(* Nobody pays for an error, or for tokens that were given back.           *)
ChargedIsComplete ==
  \A r \in Requests :
    phase[r] = "settled" => record[r] = "completed" /\ tokens[r] \in {"held", "finalized"}

(* After the charge the record stays, and so do the tokens but for their   *)
(* count.                                                                  *)
ChargeStays ==
  \A r \in Requests :
    phase[r] = "settled" =>
      /\ phase'[r] = phase[r] /\ billed'[r] = billed[r] /\ record'[r] = record[r]
      /\ \/ tokens'[r] = tokens[r]
         \/ tokens[r] = "held" /\ tokens'[r] = "finalized"

ChargedIsFinal == [][ChargeStays]_rvars
=============================================================================
