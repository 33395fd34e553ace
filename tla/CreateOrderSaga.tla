--------------------------- MODULE CreateOrderSaga ---------------------------
(***************************************************************************)
(* The create-order saga with all its participants: the order, consumer,   *)
(* kitchen and accounting services, joined by the messages of SagaMessages *)
(* (compose.yaml runs one rpc, one consumer and one producer process of    *)
(* each).  MaxRedeliveries = 0 is a system in which no process dies        *)
(* between two commits.                                                    *)
(***************************************************************************)
EXTENDS OrderService, ConsumerService, KitchenService, AccountingService

vars == <<messageVars, orderVars, consumerVars, kitchenVars, accountingVars>>

Init ==
    /\ MessagesInit
    /\ OrderInit
    /\ ConsumerInit
    /\ KitchenInit
    /\ AccountingInit

-----------------------------------------------------------------------------
OrderConsumerStep ==
    OrderConsumerNext /\ UNCHANGED <<consumerVars, kitchenVars, accountingVars>>

OrderRpcStep ==
    OrderRpcNext /\ UNCHANGED <<consumerVars, kitchenVars, accountingVars>>

ConsumerConsumerStep ==
    /\ \E m \in pending : HandleValidateOrder(m)
    /\ UNCHANGED <<orderVars, kitchenVars, accountingVars>>

ConsumerRpcStep ==
    /\ \E c \in Consumers : CreateConsumer(c)
    /\ UNCHANGED <<orderVars, kitchenVars, accountingVars>>

KitchenConsumerStep ==
    KitchenConsumerNext /\ UNCHANGED <<orderVars, consumerVars, accountingVars>>

KitchenRpcStep ==
    KitchenRpcNext /\ UNCHANGED <<orderVars, consumerVars, accountingVars>>

AccountingConsumerStep ==
    AccountingConsumerNext /\ UNCHANGED <<orderVars, consumerVars, kitchenVars>>

\* The gateway lets a registered consumer move money on its own account.
AccountingRpcStep ==
    /\ AccountingRpcNext(consumers)
    /\ UNCHANGED <<orderVars, consumerVars, kitchenVars>>

Next ==
    \/ OrderConsumerStep \/ OrderRpcStep
    \/ ConsumerConsumerStep \/ ConsumerRpcStep
    \/ KitchenConsumerStep \/ KitchenRpcStep
    \/ AccountingConsumerStep \/ AccountingRpcStep

Spec == Init /\ [][Next]_vars

(***************************************************************************)
(* The consumer processes poll for ever and are restarted when they die    *)
(* (compose.yaml, restart on failure).  Nobody has to call a gRPC method.  *)
(***************************************************************************)
Fairness ==
    /\ WF_vars(OrderConsumerStep)
    /\ WF_vars(ConsumerConsumerStep)
    /\ WF_vars(KitchenConsumerStep)
    /\ WF_vars(AccountingConsumerStep)

FairSpec == Spec /\ Fairness

-----------------------------------------------------------------------------
TypeOK ==
    /\ MessagesTypeOK
    /\ OrderTypeOK
    /\ ConsumerTypeOK
    /\ KitchenTypeOK
    /\ AccountingTypeOK

-----------------------------------------------------------------------------
(***************************************************************************)
(* An approved order has been charged exactly once and its ticket has      *)
(* reached the kitchen: create_order.rs:243-277 puts the withdrawal and    *)
(* the confirmation before the approval.  For exactly-once delivery.       *)
(***************************************************************************)
ApprovedIsPaidAndConfirmed ==
    \A o \in Orders :
        orders[o] = "Approved" =>
            charged[o] = 1 /\ tickets[o] \in ConfirmedStates

(***************************************************************************)
(* A rejected order costs nothing and leaves nothing behind: no charge, no *)
(* ticket a restaurant could see.  Compensation has been through every     *)
(* step that succeeded (saga/mod.rs:151-164, 188-231).  For exactly-once   *)
(* delivery.                                                               *)
(***************************************************************************)
RejectedIsReleased ==
    \A o \in Orders :
        orders[o] = "Rejected" =>
            charged[o] = 0 /\ tickets[o] \in {"None", "Cancelled"}

(***************************************************************************)
(* A restaurant can only accept, prepare and finish what is paid: a ticket *)
(* leaves CreatePending for the kitchen after the withdrawal, in another   *)
(* service, is recorded.  For exactly-once delivery.                       *)
(***************************************************************************)
KitchenWorksOnPaidOrders ==
    \A o \in Orders : tickets[o] \in ConfirmedStates => charged[o] = 1

(***************************************************************************)
(* A saga has one request outstanding at most: the only message in flight  *)
(* for an order carries the request id the saga drew last.  handle_reply   *)
(* relies on it, since it never compares the two (saga/mod.rs:88-129).     *)
(* And it has one at least until its order is decided: no saga waits for a *)
(* reply that nobody will send, but one whose append has failed, for that  *)
(* error is discarded (service.rs:105, 176).  For exactly-once delivery.   *)
(***************************************************************************)
OneRequestOutstanding ==
    /\ \A m \in pending :
          /\ m.request = sagas[m.order].request
          /\ \A n \in pending : n.order = m.order => n = m
    /\ \A o \in Orders :
          orders[o] = "ApprovalPending" /\ o \notin dropped =>
              \E m \in pending : m.order = o

(***************************************************************************)
(* No compensation fails: the saga never ends in the state that nobody     *)
(* resolves (saga/mod.rs:165-169).  For exactly-once delivery.             *)
(***************************************************************************)
CompensationNeverFails == \A o \in Orders : ~sagas[o].failed

(***************************************************************************)
(* To whoever orders, the four services together are one that keeps the    *)
(* promise of OrderOutcome: it decides once, by whether the money is       *)
(* there, and moves no money afterwards (create_order.rs:243-277).  For    *)
(* exactly-once delivery.                                                  *)
(***************************************************************************)
Outcome == INSTANCE OrderOutcome WITH outcome <- orders, paid <- charged

KeepsPromise == Outcome!Spec

(***************************************************************************)
(* A decided order stays decided, and the decision is announced exactly    *)
(* once, however often and in whatever order the commands are delivered    *)
(* (command_handlers.rs:20-25, 45-50).                                     *)
(***************************************************************************)
DecidedOnce ==
    [][\A o \in Orders :
          orders[o] \in {"Approved", "Rejected"} =>
              orders'[o] = orders[o] /\ orderEvents'[o] = orderEvents[o]]_vars

(***************************************************************************)
(* A saga that has begun to undo its steps never goes forward again, and   *)
(* walks back towards step 0 (saga/mod.rs:189-227); late and repeated      *)
(* replies do not turn it round.                                           *)
(***************************************************************************)
CompensationOneWay ==
    [][\A o \in Orders :
          sagas[o].compensating =>
              sagas'[o].compensating /\ sagas'[o].current <= sagas[o].current]_vars

(***************************************************************************)
(* Every order is approved or rejected in the end, unless one of the       *)
(* system's known dead ends is reached: a record that panics the order,    *)
(* kitchen or accounting consumer for good, or a reply lost with a failed  *)
(* append (service.rs:105, 176).                                           *)
(***************************************************************************)
DeadEnd(o) ==
    \/ ~orderUp \/ ~kitchenUp \/ stuckOn # NoConsumer
    \/ o \in dropped

EveryOrderDecided ==
    \A o \in Orders :
        orders[o] = "ApprovalPending" ~>
            (orders[o] \in {"Approved", "Rejected"} \/ DeadEnd(o))

-----------------------------------------------------------------------------
(***************************************************************************)
(* The reply the ticket step waits for has a body, as the expect in        *)
(* handle_create_ticket asserts (create_order.rs:142).                     *)
(***************************************************************************)
TicketReplyHasBody == orderUp

(***************************************************************************)
(* The state of a ticket changes as CallTargets says or not at all: every  *)
(* other change is an "Unsupported state transition" (kitchen rpc.rs:211). *)
(***************************************************************************)
SupportedTransitionsOnly ==
    [][\A o \in Orders :
          tickets[o] \in ConfirmedStates /\ tickets'[o] # tickets[o] =>
              tickets[o] \in DOMAIN CallTargets
              /\ tickets'[o] = CallTargets[tickets[o]]]_vars
=============================================================================
