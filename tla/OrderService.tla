---------------------------- MODULE OrderService ----------------------------
(***************************************************************************)
(* The order service: the orders, the create_order call, the Approve and   *)
(* Reject command handlers, and the saga manager (saga/mod.rs) running the *)
(* create-order saga (saga/create_order.rs).  Every action is one database *)
(* transaction of one handler; the commands a saga sends are part of it.   *)
(***************************************************************************)
EXTENDS SagaMessages, Sequences

VARIABLES
    orderRestaurants,  \* the order service's replica of the restaurants
    orders,            \* order -> orders.state, "None" before it is created
    orderEvents,       \* order -> the events published about it, in order
    sagas,             \* order -> its saga_instances row
    orderUp            \* FALSE once the consumer dies on a record, again and again

orderVars == <<orderRestaurants, orders, orderEvents, sagas, orderUp>>

-----------------------------------------------------------------------------
OrderStates == {"None", "ApprovalPending", "Approved", "Rejected"}

OrderEventKinds == {"OrderCreated", "OrderAuthorized", "OrderRejected"}

(***************************************************************************)
(* The definition of the create-order saga: what step i sends on the way   *)
(* forward and when it is compensated.  "None" is a closure that is None.  *)
(***************************************************************************)
Steps == 0..5

\* Mutant: the ticket is confirmed before the money is taken.
InvokeConfirmFirst ==
    [i \in Steps |->
        CASE i = 1 -> "ValidateOrder"
          [] i = 2 -> "CreateTicket"
          [] i = 3 -> "ConfirmTicket"
          [] i = 4 -> "Withdraw"
          [] i = 5 -> "ApproveOrder"
          [] OTHER -> "None"]

Invoke ==
    [i \in Steps |->
        CASE i = 1 -> "ValidateOrder"
          [] i = 2 -> "CreateTicket"
          [] i = 3 -> "Withdraw"
          [] i = 4 -> "ConfirmTicket"
          [] i = 5 -> "ApproveOrder"
          [] OTHER -> "None"]

\* Mutant: the ticket step has no compensation.
CompensateWithoutCancel ==
    [i \in Steps |->
        CASE i = 0 -> "RejectOrder"
          [] i = 3 -> "Deposit"
          [] OTHER -> "None"]

Compensate ==
    [i \in Steps |->
        CASE i = 0 -> "RejectOrder"
          [] i = 2 -> "CancelTicket"
          [] i = 3 -> "Deposit"
          [] OTHER -> "None"]

\* The step whose on_reply decodes the body of a CreateTicketCommandReply.
TicketStep == 2

(***************************************************************************)
(* A saga_instances row.  last_request_id is the number of requests drawn  *)
(* so far, the last one being the newest.  A saga that does not exist yet  *)
(* is NewSaga, the row that create inserts.                                *)
(***************************************************************************)
SagaRows ==
    [current : -1..5, request : Nat, compensating : BOOLEAN,
     ended : BOOLEAN, failed : BOOLEAN]

NewSaga ==
    [current |-> -1, request |-> 0, compensating |-> FALSE,
     ended |-> FALSE, failed |-> FALSE]

OrderInit ==
    /\ orderRestaurants = {}
    /\ orders = [o \in Orders |-> "None"]
    /\ orderEvents = [o \in Orders |-> <<>>]
    /\ sagas = [o \in Orders |-> NewSaga]
    /\ orderUp = TRUE

-----------------------------------------------------------------------------
\* What step i of saga s runs in the direction s is going.
ActionAt(s, i) == IF s.compensating THEN Compensate[i] ELSE Invoke[i]

\* The steps ahead of s that have something to run.
StepsAhead(s) ==
    {i \in Steps : /\ ActionAt(s, i) # "None"
                   /\ IF s.compensating THEN i < s.current ELSE i > s.current}

\* Of those, the one next reaches first.
NextStep(s) ==
    CHOOSE i \in StepsAhead(s) :
        \A j \in StepsAhead(s) : IF s.compensating THEN j <= i ELSE i <= j

(***************************************************************************)
(* SagaManager::next.  The steps it passes over on the way to the end      *)
(* leave currently_executing as it was: both ends of the list have         *)
(* something to run, so nothing is ahead only at the end itself.           *)
(***************************************************************************)
Advance(s) ==
    IF StepsAhead(s) = {}
    THEN [s EXCEPT !.ended = TRUE]
    ELSE [s EXCEPT !.current = NextStep(s), !.request = @ + 1]

\* Mutant: the direction is taken from the reply alone.
ProcessByReply(s, succeed) == Advance([s EXCEPT !.compensating = ~succeed])

\* Mutant: the turn is recorded and the first compensation not sent.
ProcessOnlyTurning(s, succeed) ==
    IF succeed THEN Advance(s)
    ELSE IF ~s.compensating THEN [s EXCEPT !.compensating = TRUE]
    ELSE [s EXCEPT !.ended = TRUE, !.failed = TRUE]

\* SagaManager::process.
Process(s, succeed) ==
    IF succeed THEN Advance(s)
    ELSE IF ~s.compensating THEN Advance([s EXCEPT !.compensating = TRUE])
    ELSE [s EXCEPT !.ended = TRUE, !.failed = TRUE]

\* Mutant: the REQUEST-ID header is built before the new id is drawn.
CommandsOfOldRequest(o, old, new) ==
    IF new.request = old.request THEN {}
    ELSE {Command(o, old.request, ActionAt(new, new.current))}

\* The command the closure of the new step puts in the outbox, if one ran.
CommandsOf(o, old, new) ==
    IF new.request = old.request THEN {}
    ELSE {Command(o, new.request, ActionAt(new, new.current))}

-----------------------------------------------------------------------------
\* RestaurantCreated: insert on conflict do nothing.
OrderLearnsRestaurant(r) ==
    /\ r \notin orderRestaurants
    /\ orderRestaurants' = orderRestaurants \cup {r}
    /\ UNCHANGED <<messageVars, orders, orderEvents, sagas, orderUp>>

\* create_order, and SagaManager::create in the same transaction.
CreateOrder(o) ==
    /\ orders[o] = "None"
    /\ RestaurantOf[o] \in orderRestaurants
    /\ orders' = [orders EXCEPT ![o] = "ApprovalPending"]
    /\ orderEvents' = [orderEvents EXCEPT ![o] = Append(@, "OrderCreated")]
    /\ LET new == Process(NewSaga, TRUE)
       IN  /\ sagas' = [sagas EXCEPT ![o] = new]
           /\ pending' = pending \cup CommandsOf(o, NewSaga, new)
    /\ UNCHANGED <<consumerEvents, redeliveries, orderRestaurants, orderUp>>

(***************************************************************************)
(* handle_reply.  Neither REQUEST-ID nor end_state is looked at: any reply *)
(* to the saga moves it on.  At the ticket step on_reply unwraps the body, *)
(* and a reply without one panics the consumer, now and on every restart.  *)
(***************************************************************************)
ReplyPanics(m) ==
    LET s == sagas[m.order]
    IN  ~s.compensating /\ s.current = TicketStep /\ ~m.body

HandleReply(m) ==
    /\ m.type = "Reply"
    /\ ~ReplyPanics(m)
    /\ LET s   == sagas[m.order]
           new == Process(s, m.ok)
       IN  /\ sagas' = [sagas EXCEPT ![m.order] = new]
           /\ Consume(orderUp, m, CommandsOf(m.order, s, new))
    /\ UNCHANGED <<orderRestaurants, orders, orderEvents, orderUp>>

HandleReplyPanics(m) ==
    /\ m.type = "Reply"
    /\ ReplyPanics(m)
    /\ orderUp' = FALSE
    /\ UNCHANGED <<messageVars, orderRestaurants, orders, orderEvents, sagas>>

(***************************************************************************)
(* handle_command: Approve and Reject lock the order, require it to be     *)
(* ApprovalPending, and both publish OrderAuthorized.                      *)
(***************************************************************************)
\* Mutant: the state of the order is not looked at.
MayDecideAnytime(o) == orders[o] # "None"

MayDecide(o) == orders[o] = "ApprovalPending"

HandleOrderCommand(m) ==
    /\ m.type \in {"ApproveOrder", "RejectOrder"}
    /\ IF MayDecide(m.order)
       THEN /\ orders' = [orders EXCEPT ![m.order] =
                  IF m.type = "ApproveOrder" THEN "Approved" ELSE "Rejected"]
            /\ orderEvents' = [orderEvents EXCEPT ![m.order] =
                                  Append(@, "OrderAuthorized")]
       ELSE UNCHANGED <<orders, orderEvents>>
    /\ Consume(orderUp, m, {ReplyTo(m, MayDecide(m.order), FALSE)})
    /\ UNCHANGED <<orderRestaurants, sagas, orderUp>>

-----------------------------------------------------------------------------
OrderConsumerNext ==
    \/ \E m \in pending :
          HandleReply(m) \/ HandleReplyPanics(m) \/ HandleOrderCommand(m)
    \/ \E r \in Restaurants : OrderLearnsRestaurant(r)

OrderRpcNext == \E o \in Orders : CreateOrder(o)

OrderTypeOK ==
    /\ orderRestaurants \subseteq Restaurants
    /\ orders \in [Orders -> OrderStates]
    /\ orderEvents \in [Orders -> Seq(OrderEventKinds)]
    /\ sagas \in [Orders -> SagaRows]
    /\ orderUp \in BOOLEAN
=============================================================================
