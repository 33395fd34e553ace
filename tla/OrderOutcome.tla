---------------------------- MODULE OrderOutcome ----------------------------
(***************************************************************************)
(* What the system promises to whoever orders, with none of its services:  *)
(* an order is placed, may be charged and refunded while it is pending, is *)
(* approved only when it is paid and rejected only when it is not, and     *)
(* from then on neither the decision nor the money moves.                  *)
(***************************************************************************)
CONSTANT Orders

VARIABLES
    outcome,  \* order -> "None", "ApprovalPending", "Approved" or "Rejected"
    paid      \* order -> how often it is charged, refunds deducted

outcomeVars == <<outcome, paid>>

Init ==
    /\ outcome = [o \in Orders |-> "None"]
    /\ paid = [o \in Orders |-> 0]

Move(o, from, to) ==
    /\ outcome[o] = from
    /\ outcome' = [outcome EXCEPT ![o] = to]
    /\ UNCHANGED paid

Place(o) == Move(o, "None", "ApprovalPending")

Pay(o, before, after) ==
    /\ outcome[o] = "ApprovalPending"
    /\ paid[o] = before
    /\ paid' = [paid EXCEPT ![o] = after]
    /\ UNCHANGED outcome

Charge(o) == Pay(o, 0, 1)

Refund(o) == Pay(o, 1, 0)

Approve(o) == paid[o] = 1 /\ Move(o, "ApprovalPending", "Approved")

Reject(o) == paid[o] = 0 /\ Move(o, "ApprovalPending", "Rejected")

Next == \E o \in Orders :
    Place(o) \/ Charge(o) \/ Refund(o) \/ Approve(o) \/ Reject(o)

Spec == Init /\ [][Next]_outcomeVars
=============================================================================
