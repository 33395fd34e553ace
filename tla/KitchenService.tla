--------------------------- MODULE KitchenService ---------------------------
(***************************************************************************)
(* The kitchen service: the tickets the saga creates, confirms or cancels  *)
(* through the Kafka consumer, and the gRPC calls with which a restaurant  *)
(* accepts a ticket, starts on it and reports it ready.                    *)
(*                                                                         *)
(* A consumer command is one step: only this one process writes a ticket   *)
(* that is CreatePending, the one state a command writes in.  A gRPC call  *)
(* is two steps: it reads the ticket without locking it, checks the state, *)
(* and then updates the row by its id alone.                               *)
(***************************************************************************)
EXTENDS SagaMessages, Sequences, FiniteSetsExt

CONSTANTS
    KitchenRpcs,     \* gRPC calls of the kitchen service in flight
    NoCall

VARIABLES
    kitchenRestaurants,  \* the kitchen's replica of the restaurants
    tickets,             \* ticket id (the order's id) -> state, "None" if no row
    ticketNumber,        \* ticket id -> sequence within its restaurant, 0 if none
    kitchenEvents,       \* ticket id -> the events published about it, in order
    kitchenCalls,        \* gRPC call -> the ticket and the state it will write
    kitchenUp            \* FALSE once the consumer dies on a record, again and again

kitchenVars == <<kitchenRestaurants, tickets, ticketNumber, kitchenEvents,
                 kitchenCalls, kitchenUp>>

-----------------------------------------------------------------------------
\* The states this code reaches, in the order a ticket goes through them.
Lifecycle == <<"CreatePending", "AwaitingAcceptance", "Accepted", "Preparing",
               "ReadyForPickup">>

TicketStates == {"None", "CreatePending", "AwaitingAcceptance", "Accepted",
                 "Preparing", "ReadyForPickup", "Cancelled"}

ConfirmedStates == {"AwaitingAcceptance", "Accepted", "Preparing",
                    "ReadyForPickup"}

\* accept_ticket, preparing_ticket, ready_for_pickup_ticket: what each state
\* permits, and the event that goes out with the new state.
CallTargets ==
    [AwaitingAcceptance |-> "Accepted", Accepted |-> "Preparing",
     Preparing |-> "ReadyForPickup"]

EventOf ==
    [AwaitingAcceptance |-> "TicketCreated", Accepted |-> "TicketAccepted",
     Preparing |-> "TicketPreparingStarted",
     ReadyForPickup |-> "TicketPreparingCompleted"]

Calls == [ticket : Orders, target : {"Accepted", "Preparing", "ReadyForPickup"}]

ASSUME NoCallIsNone == NoCall \notin Calls

KitchenInit ==
    /\ kitchenRestaurants = {}
    /\ tickets = [o \in Orders |-> "None"]
    /\ ticketNumber = [o \in Orders |-> 0]
    /\ kitchenEvents = [o \in Orders |-> <<>>]
    /\ kitchenCalls = [k \in KitchenRpcs |-> NoCall]
    /\ kitchenUp = TRUE

SetTicket(o, state) == tickets' = [tickets EXCEPT ![o] = state]

Publish(o, state) ==
    kitchenEvents' = [kitchenEvents EXCEPT ![o] = Append(@, EventOf[state])]

-----------------------------------------------------------------------------
\* RestaurantCreated: insert on conflict do nothing.
KitchenLearnsRestaurant(r) ==
    /\ r \notin kitchenRestaurants
    /\ kitchenRestaurants' = kitchenRestaurants \cup {r}
    /\ UNCHANGED <<messageVars, tickets, ticketNumber, kitchenEvents,
                   kitchenCalls, kitchenUp>>

KnownRestaurant(o) == RestaurantOf[o] \in kitchenRestaurants

\* Mutant: cancelled tickets give their number back.
NumbersGivenActive(o) ==
    {ticketNumber[p] : p \in {q \in Orders :
        RestaurantOf[q] = RestaurantOf[o] /\ tickets[q] \notin {"None", "Cancelled"}}}

\* The ticket numbers given out so far by the restaurant of order o.
NumbersGiven(o) ==
    {ticketNumber[p] : p \in {q \in Orders :
        RestaurantOf[q] = RestaurantOf[o] /\ tickets[q] # "None"}}

NextNumber(o) == 1 + Max({0} \cup NumbersGiven(o))

CreateTicketRefused(m) ==
    /\ ~KnownRestaurant(m.order)
    /\ Consume(kitchenUp, m, {ReplyTo(m, FALSE, FALSE)})
    /\ UNCHANGED kitchenVars

CreateTicketInserts(m) ==
    /\ KnownRestaurant(m.order)
    /\ tickets[m.order] = "None"
    /\ SetTicket(m.order, "CreatePending")
    /\ ticketNumber' = [ticketNumber EXCEPT ![m.order] = NextNumber(m.order)]
    /\ Consume(kitchenUp, m, {ReplyTo(m, TRUE, TRUE)})
    /\ UNCHANGED <<kitchenRestaurants, kitchenEvents, kitchenCalls, kitchenUp>>

\* The insert violates the primary key: the transaction rolls back, process
\* returns Err, and the loop's expect panics on this record again and again.
CreateTicketPanics(m) ==
    /\ KnownRestaurant(m.order)
    /\ tickets[m.order] # "None"
    /\ kitchenUp' = FALSE
    /\ UNCHANGED <<messageVars, kitchenRestaurants, tickets, ticketNumber,
                   kitchenEvents, kitchenCalls>>

HandleCreateTicket(m) ==
    /\ m.type = "CreateTicket"
    /\ \/ CreateTicketRefused(m)
       \/ CreateTicketInserts(m)
       \/ CreateTicketPanics(m)

\* The answer to ConfirmCreateTicket; only CreatePending is also written.
ConfirmSucceeds(state) == state \in {"CreatePending", "AwaitingAcceptance"}

\* Mutant: the state check left out, cancelled tickets aside.
ConfirmWritesAnyState(state) == state \notin {"None", "Cancelled"}

ConfirmWrites(state) == state = "CreatePending"

HandleConfirmTicket(m) ==
    /\ m.type = "ConfirmTicket"
    /\ LET state == tickets[m.order]
       IN  /\ IF ConfirmWrites(state)
              THEN /\ SetTicket(m.order, "AwaitingAcceptance")
                   /\ Publish(m.order, "AwaitingAcceptance")
              ELSE UNCHANGED <<tickets, kitchenEvents>>
           /\ Consume(kitchenUp, m, {ReplyTo(m, ConfirmSucceeds(state), FALSE)})
    /\ UNCHANGED <<kitchenRestaurants, ticketNumber, kitchenCalls, kitchenUp>>

CancelWrites(state) == state = "CreatePending"

HandleCancelTicket(m) ==
    /\ m.type = "CancelTicket"
    /\ LET state == tickets[m.order]
       IN  /\ IF CancelWrites(state)
              THEN SetTicket(m.order, "Cancelled")
              ELSE UNCHANGED tickets
           /\ Consume(kitchenUp, m,
                  {ReplyTo(m, CancelWrites(state) \/ state = "Cancelled", FALSE)})
    /\ UNCHANGED <<kitchenRestaurants, ticketNumber, kitchenEvents,
                   kitchenCalls, kitchenUp>>

-----------------------------------------------------------------------------
\* The first half of a gRPC call: a state it does not accept ends the call
\* with failed_precondition and changes nothing, so only the others are steps.
CallReads(k, o) ==
    /\ kitchenCalls[k] = NoCall
    /\ tickets[o] \in DOMAIN CallTargets
    /\ kitchenCalls' = [kitchenCalls EXCEPT ![k] =
                           [ticket |-> o, target |-> CallTargets[tickets[o]]]]
    /\ UNCHANGED <<messageVars, kitchenRestaurants, tickets, ticketNumber,
                   kitchenEvents, kitchenUp>>

\* The second half: UPDATE ... WHERE id, the event, the commit.
CallWrites(k) ==
    /\ kitchenCalls[k] # NoCall
    /\ LET call == kitchenCalls[k]
       IN  /\ SetTicket(call.ticket, call.target)
           /\ Publish(call.ticket, call.target)
    /\ kitchenCalls' = [kitchenCalls EXCEPT ![k] = NoCall]
    /\ UNCHANGED <<messageVars, kitchenRestaurants, ticketNumber, kitchenUp>>

-----------------------------------------------------------------------------
KitchenConsumerNext ==
    \/ \E m \in pending :
          \/ HandleCreateTicket(m)
          \/ HandleConfirmTicket(m)
          \/ HandleCancelTicket(m)
    \/ \E r \in Restaurants : KitchenLearnsRestaurant(r)

KitchenRpcNext ==
    \E k \in KitchenRpcs :
        \/ \E o \in Orders : CallReads(k, o)
        \/ CallWrites(k)

KitchenTypeOK ==
    /\ kitchenRestaurants \subseteq Restaurants
    /\ tickets \in [Orders -> TicketStates]
    /\ ticketNumber \in [Orders -> Nat]
    /\ kitchenEvents \in [Orders -> Seq({EventOf[s] : s \in ConfirmedStates})]
    /\ kitchenCalls \in [KitchenRpcs -> Calls \cup {NoCall}]
    /\ kitchenUp \in BOOLEAN

-----------------------------------------------------------------------------
(***************************************************************************)
(* What the kitchen has published about a ticket is the history of its     *)
(* state: the events of the states up to the present one, each once and in *)
(* order, and none for a ticket never confirmed or cancelled.  The state   *)
(* is read unlocked and written later (kitchen rpc.rs:181-204), and the    *)
(* commands may come twice.  Holds with one gRPC call at a time.           *)
(***************************************************************************)
EventsTellTheState ==
    \A o \in Orders :
        kitchenEvents[o] =
            IF tickets[o] \notin ConfirmedStates THEN <<>>
            ELSE LET n == CHOOSE i \in 1..5 : Lifecycle[i] = tickets[o]
                 IN  [i \in 1..(n - 1) |-> EventOf[Lifecycle[i + 1]]]

(***************************************************************************)
(* No two tickets of a restaurant have the same number, cancelled tickets  *)
(* included (consumer.rs:114-123): a number the kitchen calls out stands   *)
(* for one order.                                                          *)
(***************************************************************************)
TicketNumbersDistinct ==
    \A o, p \in Orders :
        /\ o # p /\ RestaurantOf[o] = RestaurantOf[p]
        /\ tickets[o] # "None" /\ tickets[p] # "None"
        => ticketNumber[o] # ticketNumber[p]
=============================================================================
