----------------------------- MODULE Accounting -----------------------------
(***************************************************************************)
(* The accounting service on its own.  Its environment is the rest of the  *)
(* system: the consumer service has announced every consumer, the sagas    *)
(* have sent one Withdraw per order, and a saga whose withdrawal was       *)
(* granted may ask for the money back.  A message waits as long as it      *)
(* likes, so sending all of them at the start leaves out no order of       *)
(* arrival.                                                                *)
(***************************************************************************)
EXTENDS AccountingService

aloneVars == <<messageVars, accountingVars>>

WithdrawRequest == 3
RefundRequest == 5

AloneInit ==
    /\ AccountingInit
    /\ pending = {Command(o, WithdrawRequest, "Withdraw") : o \in Orders}
    /\ consumerEvents = Consumers
    /\ redeliveries = 0

\* The saga takes the granted withdrawal and compensates it.
SagaRefunds(m) ==
    /\ m.type = "Reply" /\ m.ok /\ m.request = WithdrawRequest
    /\ Consume(TRUE, m, {Command(m.order, RefundRequest, "Deposit")})
    /\ UNCHANGED accountingVars

AloneNext ==
    \/ AccountingConsumerNext
    \/ AccountingRpcNext(Consumers)
    \/ \E m \in pending : SagaRefunds(m)

AloneSpec == AloneInit /\ [][AloneNext]_aloneVars

-----------------------------------------------------------------------------
AloneTypeOK == MessagesTypeOK /\ AccountingTypeOK

(***************************************************************************)
(* What the saga is told is what the stream holds: while the answer to a   *)
(* Withdraw is on its way, the order is charged once if the answer is yes  *)
(* and not at all if it is no; an order whose append failed gets no        *)
(* answer.  The event and the reply must stand or fall together            *)
(* (service.rs:131-183).  For exactly-once delivery.                       *)
(***************************************************************************)
AnswersMatchStream ==
    \A m \in pending :
        m.type = "Reply" /\ m.request = WithdrawRequest =>
            /\ charged[m.order] = IF m.ok THEN 1 ELSE 0
            /\ m.order \notin dropped

(***************************************************************************)
(* The Kafka consumer process never panics: process succeeds on every      *)
(* message, as the expect of its loop asserts (app/consumer.rs:122).       *)
(***************************************************************************)
ConsumerNeverPanics == stuckOn = NoConsumer
=============================================================================
