--------------------------- MODULE ConsumerService ---------------------------
(***************************************************************************)
(* The consumer service: it registers consumers, announces each one with a *)
(* ConsumerCreated event, and answers the saga whether a consumer exists.  *)
(***************************************************************************)
EXTENDS SagaMessages

VARIABLE consumers   \* the consumers table

consumerVars == <<consumers>>

ConsumerInit == consumers = {}

\* The insert and the event are one transaction.
CreateConsumer(c) ==
    /\ c \notin consumers
    /\ consumers' = consumers \cup {c}
    /\ consumerEvents' = consumerEvents \cup {c}
    /\ UNCHANGED <<pending, redeliveries>>

KnownConsumer(c) == c \in consumers

HandleValidateOrder(m) ==
    /\ m.type = "ValidateOrder"
    /\ Consume(TRUE, m, {ReplyTo(m, KnownConsumer(ConsumerOf[m.order]), FALSE)})
    /\ UNCHANGED consumerVars

ConsumerTypeOK == consumers \subseteq Consumers
=============================================================================
