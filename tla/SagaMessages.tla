---------------------------- MODULE SagaMessages ----------------------------
(***************************************************************************)
(* The asynchronous links between the services of FTGO: the commands the   *)
(* create-order saga sends, the replies that come back, and the            *)
(* ConsumerCreated events.  In the code a message is a row of the sender's *)
(* outbox table, then a record of a Kafka topic; here it is one member of  *)
(* a set from the commit that inserts the row until the commit of the      *)
(* handler that takes it.  The set has no order: the topics are            *)
(* independent of one another, and two producers that skip each other's    *)
(* locked rows (producer.rs:28-30) reorder the rows of one outbox.         *)
(*                                                                         *)
(* Delivery is at least once.  A relay that dies between Kafka's send and  *)
(* its own commit sends the row again, and a consumer that dies before     *)
(* commit_consumed reads the record again.  Both leave a further copy of   *)
(* the message, and MaxRedeliveries bounds how often that happens.         *)
(***************************************************************************)
EXTENDS Integers, FiniteSets

CONSTANTS
    Orders,          \* order ids; a saga instance is named by its order
    Consumers,       \* consumer ids; an account has the id of its consumer
    Restaurants,     \* restaurant ids
    ConsumerOf,      \* [Orders -> Consumers]: who places and pays for it
    RestaurantOf,    \* [Orders -> Restaurants]: who cooks it
    MaxRedeliveries  \* bound: messages that are delivered once too often

ASSUME SagaConstants ==
    /\ ConsumerOf \in [Orders -> Consumers]
    /\ RestaurantOf \in [Orders -> Restaurants]
    /\ MaxRedeliveries \in Nat

VARIABLES
    pending,         \* commands and replies sent and not yet handled
    consumerEvents,  \* consumers whose ConsumerCreated event is in flight
    redeliveries     \* how many extra deliveries have happened

messageVars == <<pending, consumerEvents, redeliveries>>

-----------------------------------------------------------------------------
CommandTypes ==
    {"ValidateOrder", "CreateTicket", "ConfirmTicket", "CancelTicket",
     "Withdraw", "Deposit", "ApproveOrder", "RejectOrder"}

(***************************************************************************)
(* request is the REQUEST-ID header: the saga draws a fresh one for every  *)
(* command, and a reply carries the headers of its command.  ok is         *)
(* CommandReply.succeed; body says whether CommandReply.body is Some.      *)
(* copy is 0 on a first delivery and numbers the redelivery otherwise.     *)
(***************************************************************************)
Messages ==
    [order : Orders, request : Nat, copy : Nat,
     type : CommandTypes \cup {"Reply"}, ok : BOOLEAN, body : BOOLEAN]

Command(o, r, t) ==
    [order |-> o, request |-> r, copy |-> 0,
     type |-> t, ok |-> FALSE, body |-> FALSE]

ReplyTo(m, ok, body) ==
    [order |-> m.order, request |-> m.request, copy |-> m.copy,
     type |-> "Reply", ok |-> ok, body |-> body]

Again(m) == [m EXCEPT !.copy = redeliveries + 1]

MessagesInit ==
    /\ pending = {}
    /\ consumerEvents = {}
    /\ redeliveries = 0

(***************************************************************************)
(* The handler of m commits: the messages of out are sent, and m is done   *)
(* if the consumer gets to commit its offset too.  The second disjunct is  *)
(* the delivery that is not the last one.  A consumer that is not up, for  *)
(* it dies on another record whenever it has been restarted, still handles *)
(* the records it finds before that one, and commits the offset of none.   *)
(***************************************************************************)
Consume(up, m, out) ==
    /\ \/ /\ up
          /\ pending' = (pending \ {m}) \cup out
          /\ UNCHANGED redeliveries
       \/ /\ redeliveries < MaxRedeliveries
          /\ pending' = (pending \ {m}) \cup {Again(m)} \cup out
          /\ redeliveries' = redeliveries + 1
    /\ UNCHANGED consumerEvents

\* The same for the ConsumerCreated event of consumer c.
ConsumeConsumerEvent(c) ==
    /\ \/ /\ consumerEvents' = consumerEvents \ {c}
          /\ UNCHANGED redeliveries
       \/ /\ redeliveries < MaxRedeliveries
          /\ redeliveries' = redeliveries + 1
          /\ UNCHANGED consumerEvents
    /\ UNCHANGED pending

MessagesTypeOK ==
    /\ pending \subseteq Messages
    /\ consumerEvents \subseteq Consumers
    /\ redeliveries \in 0..MaxRedeliveries
=============================================================================
