---------------------------- MODULE KitchenProofs ----------------------------
(***************************************************************************)
(* Why the kitchen's tables stay well-typed and no ticket number is given  *)
(* twice, for any number of orders, restaurants, gRPC calls and            *)
(* redeliveries: the numbers of a restaurant are 1, 2, ..., n, so that the *)
(* largest one exists and its successor is new.                            *)
(* And why, with one gRPC call at a time, what the kitchen has published   *)
(* about a ticket is the history of its state.                             *)
(***************************************************************************)
EXTENDS KitchenService, TLAPS

\* The numbers a restaurant has given out are 1..n for some n.
NumbersDense ==
    \A o \in Orders : \E n \in Nat : NumbersGiven(o) = 1..n

\* A gRPC call that is under way has read a confirmed ticket.
CallsOnTickets ==
    \A k \in KitchenRpcs :
        kitchenCalls[k] # NoCall =>
            tickets[kitchenCalls[k].ticket] \in ConfirmedStates

KitchenInv ==
    /\ KitchenTypeOK
    /\ CallsOnTickets
    /\ NumbersDense
    /\ TicketNumbersDistinct

-----------------------------------------------------------------------------
\* The largest of 0 and 1..n is n (consumer.rs:114-123).
LEMMA MaxOfNumbers ==
    ASSUME NEW n \in Nat
    PROVE  Max({0} \cup 1..n) = n
<1>1. n \in {0} \cup 1..n /\ \A y \in {0} \cup 1..n : n >= y
  OBVIOUS
<1>2. \A x \in {0} \cup 1..n : (\A y \in {0} \cup 1..n : x >= y) => x = n
  OBVIOUS
<1> QED BY <1>1, <1>2 DEF Max

\* A kitchen with no tickets satisfies the invariant.
LEMMA KitchenInitInv == KitchenInit => KitchenInv
<1> SUFFICES ASSUME KitchenInit PROVE KitchenInv
  OBVIOUS
<1>1. KitchenTypeOK
  BY DEF KitchenInit, KitchenTypeOK, TicketStates
<1>2. NumbersDense
  <2>1. \A o \in Orders : NumbersGiven(o) = 1..0
    BY DEF KitchenInit, NumbersGiven
  <2> QED BY <2>1 DEF NumbersDense
<1>3. TicketNumbersDistinct
  BY DEF KitchenInit, TicketNumbersDistinct
<1>4. CallsOnTickets
  BY DEF KitchenInit, CallsOnTickets
<1> QED BY <1>1, <1>2, <1>3, <1>4 DEF KitchenInv

\* Nothing the invariant speaks of changes.
LEMMA KitchenStutter ==
    ASSUME KitchenInv, UNCHANGED <<kitchenRestaurants, tickets, ticketNumber,
                                   kitchenEvents, kitchenCalls, kitchenUp>>
    PROVE  KitchenInv'
<1>1. KitchenTypeOK'
  BY DEF KitchenInv, KitchenTypeOK
<1>2. NumbersDense'
  BY DEF KitchenInv, NumbersDense, NumbersGiven
<1>3. TicketNumbersDistinct'
  BY DEF KitchenInv, TicketNumbersDistinct
<1>4. CallsOnTickets'
  BY DEF KitchenInv, CallsOnTickets
<1> QED BY <1>1, <1>2, <1>3, <1>4 DEF KitchenInv

\* A ticket that exists and goes on existing keeps its number: the numbers
\* are as they were.
LEMMA NumbersUnchanged ==
    ASSUME KitchenInv, KitchenTypeOK', CallsOnTickets', ticketNumber' = ticketNumber,
           \A o \in Orders : (tickets[o] = "None") <=> (tickets'[o] = "None")
    PROVE  KitchenInv'
<1>1. \A o \in Orders : NumbersGiven(o)' = NumbersGiven(o)
  BY DEF NumbersGiven
<1>2. NumbersDense'
  BY <1>1 DEF KitchenInv, NumbersDense
<1>3. TicketNumbersDistinct'
  BY DEF KitchenInv, TicketNumbersDistinct
<1> QED BY <1>2, <1>3 DEF KitchenInv

\* The new ticket's number is one more than all those of its restaurant, and
\* the restaurant's numbers stay dense (consumer.rs:114-137).
LEMMA NewTicketInv ==
    ASSUME KitchenInv, KitchenTypeOK', NEW o \in Orders,
           NEW state \in TicketStates \ {"None"},
           tickets[o] = "None", SetTicket(o, state),
           ticketNumber' = [ticketNumber EXCEPT ![o] = NextNumber(o)],
           UNCHANGED kitchenCalls
    PROVE  KitchenInv'
<1>1. /\ tickets \in [Orders -> TicketStates]
      /\ ticketNumber \in [Orders -> Nat]
  BY DEF KitchenInv, KitchenTypeOK
<1>2. PICK n \in Nat : NumbersGiven(o) = 1..n
  BY DEF KitchenInv, NumbersDense
<1>3. NextNumber(o) = n + 1
  BY <1>2, MaxOfNumbers DEF NextNumber
<1>4. /\ tickets'[o] # "None" /\ ticketNumber'[o] = n + 1
      /\ \A p \in Orders \ {o} :
            tickets'[p] = tickets[p] /\ ticketNumber'[p] = ticketNumber[p]
  BY <1>1, <1>3 DEF SetTicket
<1>5. NumbersDense'
  <2> SUFFICES ASSUME NEW p \in Orders
               PROVE  \E j \in Nat : NumbersGiven(p)' = 1..j
    BY DEF NumbersDense
  <2>1. CASE RestaurantOf[p] = RestaurantOf[o]
    <3>1. NumbersGiven(p)' = NumbersGiven(o) \cup {n + 1}
      BY <2>1, <1>4 DEF NumbersGiven
    <3>2. NumbersGiven(p)' = 1..(n + 1)
      BY <3>1, <1>2
    <3> QED BY <3>2
  <2>2. CASE RestaurantOf[p] # RestaurantOf[o]
    <3>1. NumbersGiven(p)' = NumbersGiven(p)
      BY <2>2, <1>4 DEF NumbersGiven
    <3> QED BY <3>1 DEF KitchenInv, NumbersDense
  <2> QED BY <2>1, <2>2
<1>6. TicketNumbersDistinct'
  <2>1. \A p \in Orders \ {o} :
           RestaurantOf[p] = RestaurantOf[o] /\ tickets[p] # "None"
              => ticketNumber[p] \in 1..n
    BY <1>2 DEF NumbersGiven
  <2>2. \A p \in Orders \ {o} :
           RestaurantOf[p] = RestaurantOf[o] /\ tickets[p] # "None"
              => ticketNumber[p] # n + 1
    BY <2>1
  <2> QED BY <2>2, <1>4 DEF KitchenInv, TicketNumbersDistinct
<1>7. CallsOnTickets'
  <2>1. ASSUME NEW k \in KitchenRpcs, kitchenCalls[k] # NoCall
        PROVE  /\ kitchenCalls[k].ticket \in Orders \ {o}
               /\ tickets[kitchenCalls[k].ticket] \in ConfirmedStates
    BY <2>1 DEF KitchenInv, KitchenTypeOK, Calls, CallsOnTickets, ConfirmedStates
  <2> QED BY <2>1, <1>4 DEF CallsOnTickets
<1> QED BY <1>5, <1>6, <1>7 DEF KitchenInv

\* The number given to a new ticket is a number.
LEMMA NextNumberType ==
    ASSUME KitchenInv, NEW o \in Orders
    PROVE  NextNumber(o) \in Nat
<1>1. PICK n \in Nat : NumbersGiven(o) = 1..n
  BY DEF KitchenInv, NumbersDense
<1> QED BY <1>1, MaxOfNumbers DEF NextNumber

LEMMA CreateTicketInv ==
    ASSUME KitchenInv, NEW m \in Messages, CreateTicketInserts(m)
    PROVE  KitchenInv'
<1>1. m.order \in Orders
  BY DEF Messages
<1>2. NextNumber(m.order) \in Nat
  BY <1>1, NextNumberType
<1>3. /\ tickets[m.order] = "None"
      /\ SetTicket(m.order, "CreatePending")
      /\ ticketNumber' = [ticketNumber EXCEPT ![m.order] = NextNumber(m.order)]
      /\ UNCHANGED <<kitchenRestaurants, kitchenEvents, kitchenCalls, kitchenUp>>
  BY DEF CreateTicketInserts
<1>4. KitchenTypeOK'
  BY <1>1, <1>2, <1>3 DEF KitchenInv, KitchenTypeOK, TicketStates, SetTicket
<1>5. "CreatePending" \in TicketStates \ {"None"}
  BY DEF TicketStates
<1> QED BY <1>1, <1>3, <1>4, <1>5, NewTicketInv

\* The published kinds are the events of the confirmed states.
LEMMA EventOfType ==
    ASSUME NEW s \in ConfirmedStates
    PROVE  EventOf[s] \in {EventOf[t] : t \in ConfirmedStates}
OBVIOUS

\* ConfirmCreateTicket (consumer.rs:181-249).
LEMMA ConfirmTicketInv ==
    ASSUME KitchenInv, NEW m \in Messages, HandleConfirmTicket(m)
    PROVE  KitchenInv'
<1> DEFINE o == m.order
<1>1. o \in Orders
  BY DEF Messages
<1>2. UNCHANGED <<kitchenRestaurants, ticketNumber, kitchenCalls, kitchenUp>>
  BY DEF HandleConfirmTicket
<1>3. CASE ~ConfirmWrites(tickets[o])
  <2>1. UNCHANGED <<tickets, kitchenEvents>>
    BY <1>3 DEF HandleConfirmTicket
  <2> QED BY <1>2, <2>1, KitchenStutter
<1>4. CASE ConfirmWrites(tickets[o])
  <2>1. tickets[o] = "CreatePending"
    BY <1>4 DEF ConfirmWrites
  <2>2. /\ tickets' = [tickets EXCEPT ![o] = "AwaitingAcceptance"]
        /\ kitchenEvents' = [kitchenEvents EXCEPT ![o] =
                                Append(@, EventOf["AwaitingAcceptance"])]
    BY <1>4 DEF HandleConfirmTicket, SetTicket, Publish
  <2> HIDE DEF o
  <2>3. KitchenTypeOK'
    <3>1. "AwaitingAcceptance" \in ConfirmedStates
      BY DEF ConfirmedStates
    <3>2. EventOf["AwaitingAcceptance"] \in {EventOf[t] : t \in ConfirmedStates}
      BY <3>1, EventOfType
    <3>3. tickets' \in [Orders -> TicketStates]
      BY <1>1, <2>2 DEF KitchenInv, KitchenTypeOK, TicketStates
    <3>4. kitchenEvents' \in [Orders -> Seq({EventOf[t] : t \in ConfirmedStates})]
      <4> DEFINE E == {EventOf[t] : t \in ConfirmedStates}
      <4>1. kitchenEvents \in [Orders -> Seq(E)]
        BY DEF KitchenInv, KitchenTypeOK
      <4>2. EventOf["AwaitingAcceptance"] \in E
        BY <3>2
      <4> HIDE DEF E
      <4>3. Append(kitchenEvents[o], EventOf["AwaitingAcceptance"]) \in Seq(E)
        BY <1>1, <4>1, <4>2
      <4>4. kitchenEvents' \in [Orders -> Seq(E)]
        BY <1>1, <2>2, <4>1, <4>3
      <4> QED BY <4>4 DEF E
    <3> QED BY <1>2, <3>3, <3>4 DEF KitchenInv, KitchenTypeOK
  <2>4. CallsOnTickets'
    BY <1>1, <1>2, <2>2
       DEF KitchenInv, KitchenTypeOK, CallsOnTickets, ConfirmedStates
  <2>5. \A p \in Orders : (tickets[p] = "None") <=> (tickets'[p] = "None")
    BY <1>1, <2>1, <2>2 DEF KitchenInv, KitchenTypeOK
  <2> QED BY <1>2, <2>3, <2>4, <2>5, NumbersUnchanged
<1> QED BY <1>3, <1>4

\* CancelCreateTicket (consumer.rs:250-302).
LEMMA CancelTicketInv ==
    ASSUME KitchenInv, NEW m \in Messages, HandleCancelTicket(m)
    PROVE  KitchenInv'
<1> DEFINE o == m.order
<1>1. o \in Orders
  BY DEF Messages
<1>2. UNCHANGED <<kitchenRestaurants, ticketNumber, kitchenEvents,
                  kitchenCalls, kitchenUp>>
  BY DEF HandleCancelTicket
<1>3. CASE ~CancelWrites(tickets[o])
  <2>1. UNCHANGED tickets
    BY <1>3 DEF HandleCancelTicket
  <2> QED BY <1>2, <2>1, KitchenStutter
<1>4. CASE CancelWrites(tickets[o])
  <2>1. /\ tickets[o] = "CreatePending"
        /\ tickets' = [tickets EXCEPT ![o] = "Cancelled"]
    BY <1>4 DEF HandleCancelTicket, SetTicket, CancelWrites
  <2> HIDE DEF o
  <2>2. KitchenTypeOK'
    BY <1>1, <1>2, <2>1 DEF KitchenInv, KitchenTypeOK, TicketStates
  <2>3. CallsOnTickets'
    BY <1>1, <1>2, <2>1
       DEF KitchenInv, KitchenTypeOK, CallsOnTickets, ConfirmedStates
  <2>4. \A p \in Orders : (tickets[p] = "None") <=> (tickets'[p] = "None")
    BY <1>1, <2>1 DEF KitchenInv, KitchenTypeOK
  <2> QED BY <1>2, <2>2, <2>3, <2>4, NumbersUnchanged
<1> QED BY <1>3, <1>4

\* The gRPC calls: what is written is the state after the one that was read,
\* of a ticket that was confirmed then and still is (rpc.rs:153-357).
LEMMA CallReadsInv ==
    ASSUME KitchenInv, NEW k \in KitchenRpcs, NEW o \in Orders, CallReads(k, o)
    PROVE  KitchenInv'
<1> DEFINE call == [ticket |-> o, target |-> CallTargets[tickets[o]]]
<1>1. /\ tickets[o] \in DOMAIN CallTargets
      /\ kitchenCalls' = [kitchenCalls EXCEPT ![k] = call]
      /\ UNCHANGED <<kitchenRestaurants, tickets, ticketNumber, kitchenEvents,
                     kitchenUp>>
  BY DEF CallReads
<1>2. tickets[o] \in ConfirmedStates /\ call \in Calls
  BY <1>1 DEF CallTargets, ConfirmedStates, Calls
<1>3. call.ticket = o
  OBVIOUS
<1>4. kitchenCalls \in [KitchenRpcs -> Calls \cup {NoCall}]
  BY DEF KitchenInv, KitchenTypeOK
<1> HIDE DEF call
<1>5. kitchenCalls' \in [KitchenRpcs -> Calls \cup {NoCall}]
  BY <1>1, <1>2, <1>4
<1>6. KitchenTypeOK'
  BY <1>1, <1>5 DEF KitchenInv, KitchenTypeOK
<1>7. CallsOnTickets'
  <2> SUFFICES ASSUME NEW j \in KitchenRpcs, kitchenCalls'[j] # NoCall
               PROVE  tickets'[kitchenCalls'[j].ticket] \in ConfirmedStates
    BY DEF CallsOnTickets
  <2>1. CASE j = k
    BY <2>1, <1>1, <1>2, <1>3, <1>4
  <2>2. CASE j # k
    BY <2>2, <1>1, <1>4 DEF KitchenInv, CallsOnTickets
  <2> QED BY <2>1, <2>2
<1> QED BY <1>1, <1>6, <1>7, NumbersUnchanged

LEMMA CallWritesInv ==
    ASSUME KitchenInv, NEW k \in KitchenRpcs, CallWrites(k)
    PROVE  KitchenInv'
<1> DEFINE call == kitchenCalls[k]
           o == call.ticket
           E == {EventOf[t] : t \in ConfirmedStates}
<1>1. /\ call # NoCall
      /\ tickets' = [tickets EXCEPT ![o] = call.target]
      /\ kitchenEvents' = [kitchenEvents EXCEPT ![o] =
                              Append(@, EventOf[call.target])]
      /\ kitchenCalls' = [kitchenCalls EXCEPT ![k] = NoCall]
      /\ UNCHANGED <<kitchenRestaurants, ticketNumber, kitchenUp>>
  BY DEF CallWrites, SetTicket, Publish
<1>2. /\ tickets \in [Orders -> TicketStates]
      /\ kitchenEvents \in [Orders -> Seq(E)]
      /\ kitchenCalls \in [KitchenRpcs -> Calls \cup {NoCall}]
  BY DEF KitchenInv, KitchenTypeOK
<1>3. o \in Orders /\ call.target \in ConfirmedStates
  BY <1>1, <1>2 DEF Calls, ConfirmedStates
<1>4. tickets[o] \in ConfirmedStates
  BY <1>1 DEF KitchenInv, CallsOnTickets
<1>5. EventOf[call.target] \in E
  BY <1>3, EventOfType
<1> HIDE DEF call, o, E
<1>6. tickets' \in [Orders -> TicketStates]
  BY <1>1, <1>2, <1>3 DEF TicketStates, ConfirmedStates
<1>7. kitchenEvents' \in [Orders -> Seq(E)]
  <2>1. Append(kitchenEvents[o], EventOf[call.target]) \in Seq(E)
    BY <1>2, <1>3, <1>5
  <2> QED BY <2>1, <1>1, <1>2, <1>3
<1>8. kitchenCalls' \in [KitchenRpcs -> Calls \cup {NoCall}]
  BY <1>1, <1>2
<1>9. KitchenTypeOK'
  BY <1>1, <1>6, <1>7, <1>8 DEF KitchenInv, KitchenTypeOK, E
<1>10. \A p \in Orders : tickets[p] \in ConfirmedStates
                            => tickets'[p] \in ConfirmedStates
  BY <1>1, <1>2, <1>3
<1>11. CallsOnTickets'
  <2> SUFFICES ASSUME NEW j \in KitchenRpcs, kitchenCalls'[j] # NoCall
               PROVE  tickets'[kitchenCalls'[j].ticket] \in ConfirmedStates
    BY DEF CallsOnTickets
  <2>1. kitchenCalls'[j] = kitchenCalls[j]
    BY <1>1, <1>2
  <2>2. kitchenCalls[j].ticket \in Orders
    BY <2>1, <1>2 DEF Calls
  <2> QED BY <2>1, <2>2, <1>10 DEF KitchenInv, CallsOnTickets
<1>12. \A p \in Orders : (tickets[p] = "None") <=> (tickets'[p] = "None")
  BY <1>1, <1>2, <1>3, <1>4 DEF ConfirmedStates
<1> QED BY <1>1, <1>9, <1>11, <1>12, NumbersUnchanged

-----------------------------------------------------------------------------
\* Every step of the kitchen's consumer keeps the kitchen's invariant.
LEMMA KitchenConsumerInv ==
    ASSUME KitchenInv, pending \subseteq Messages, KitchenConsumerNext
    PROVE  KitchenInv'
<1>1. ASSUME NEW m \in pending, HandleCreateTicket(m)
      PROVE  KitchenInv'
  <2>1. CASE CreateTicketRefused(m)
    BY <2>1, KitchenStutter DEF CreateTicketRefused, kitchenVars
  <2>2. CASE CreateTicketInserts(m)
    BY <2>2, CreateTicketInv
  <2>3. CASE CreateTicketPanics(m)
    <3>1. /\ kitchenUp' = FALSE
          /\ UNCHANGED <<kitchenRestaurants, tickets, ticketNumber,
                         kitchenEvents, kitchenCalls>>
      BY <2>3 DEF CreateTicketPanics
    <3>2. KitchenTypeOK' /\ CallsOnTickets'
      BY <3>1 DEF KitchenInv, KitchenTypeOK, CallsOnTickets
    <3> QED BY <3>1, <3>2, NumbersUnchanged
  <2> QED BY <1>1, <2>1, <2>2, <2>3 DEF HandleCreateTicket
<1>2. ASSUME NEW m \in pending, HandleConfirmTicket(m) \/ HandleCancelTicket(m)
      PROVE  KitchenInv'
  BY <1>2, ConfirmTicketInv, CancelTicketInv
<1>3. ASSUME NEW r \in Restaurants, KitchenLearnsRestaurant(r)
      PROVE  KitchenInv'
  <2>1. /\ kitchenRestaurants' = kitchenRestaurants \cup {r}
        /\ UNCHANGED <<tickets, ticketNumber, kitchenEvents, kitchenCalls,
                       kitchenUp>>
    BY <1>3 DEF KitchenLearnsRestaurant
  <2>2. KitchenTypeOK' /\ CallsOnTickets'
    BY <2>1 DEF KitchenInv, KitchenTypeOK, CallsOnTickets
  <2> QED BY <2>1, <2>2, NumbersUnchanged
<1> QED BY <1>1, <1>2, <1>3 DEF KitchenConsumerNext

\* And so does every step of its gRPC calls.
LEMMA KitchenRpcInv ==
    ASSUME KitchenInv, KitchenRpcNext
    PROVE  KitchenInv'
BY CallReadsInv, CallWritesInv DEF KitchenRpcNext
-----------------------------------------------------------------------------
\* The events a ticket in the given state has behind it (EventsTellTheState).
History(state) ==
    IF state \notin ConfirmedStates THEN <<>>
    ELSE LET n == CHOOSE i \in 1..5 : Lifecycle[i] = state
         IN  [i \in 1..(n - 1) |-> EventOf[Lifecycle[i + 1]]]

\* A call under way has read the state the ticket is still in.
CallsUpToDate ==
    \A k \in KitchenRpcs :
        kitchenCalls[k] # NoCall =>
            /\ tickets[kitchenCalls[k].ticket] \in DOMAIN CallTargets
            /\ kitchenCalls[k].target = CallTargets[tickets[kitchenCalls[k].ticket]]

HistoryInv == EventsTellTheState /\ CallsUpToDate

\* The history of a state is a sequence as long as the states before it.
LEMMA HistoryAt ==
    ASSUME NEW n \in 2..5
    PROVE  History(Lifecycle[n]) = [i \in 1..(n - 1) |-> EventOf[Lifecycle[i + 1]]]
<1>1. Lifecycle[n] \in ConfirmedStates
  BY DEF Lifecycle, ConfirmedStates
<1>2. \A i \in 1..5 : Lifecycle[i] = Lifecycle[n] => i = n
  BY DEF Lifecycle
<1>3. (CHOOSE i \in 1..5 : Lifecycle[i] = Lifecycle[n]) = n
  BY <1>2
<1> QED BY <1>1, <1>3 DEF History

\* Going on to the next state adds its event.
LEMMA HistoryGrows ==
    ASSUME NEW n \in 2..4
    PROVE  History(Lifecycle[n + 1])
              = Append(History(Lifecycle[n]), EventOf[Lifecycle[n + 1]])
<1> DEFINE E == {EventOf[t] : t \in ConfirmedStates}
           s == [i \in 1..(n - 1) |-> EventOf[Lifecycle[i + 1]]]
           t == [i \in 1..n |-> EventOf[Lifecycle[i + 1]]]
           e == EventOf[Lifecycle[n + 1]]
<1>1. History(Lifecycle[n]) = s
  <2>1. n \in 2..5
    OBVIOUS
  <2> QED BY <2>1, HistoryAt
<1>2. History(Lifecycle[n + 1]) = t
  <2>1. n + 1 \in 2..5 /\ (n + 1) - 1 = n
    OBVIOUS
  <2> QED BY <2>1, HistoryAt
<1>3. \A i \in 1..n : EventOf[Lifecycle[i + 1]] \in E
  <2>1. \A i \in 1..n : Lifecycle[i + 1] \in ConfirmedStates
    BY DEF Lifecycle, ConfirmedStates
  <2> QED BY <2>1
<1>4. e \in E
  BY <1>3
<1>5. s \in Seq(E) /\ Len(s) = n - 1
  BY <1>3
<1>6. t \in Seq(E) /\ Len(t) = n
  BY <1>3
<1>7. t[n] = e /\ \A i \in 1..(n - 1) : t[i] = s[i]
  OBVIOUS
<1> HIDE DEF E, s, t, e
<1>8. t = Append(s, e)
  BY <1>4, <1>5, <1>6, <1>7
<1> QED BY <1>1, <1>2, <1>8 DEF e

\* The state a call writes has one event more than the state it reads.
LEMMA HistoryOfTarget ==
    ASSUME NEW state \in DOMAIN CallTargets
    PROVE  /\ History(CallTargets[state])
                = Append(History(state), EventOf[CallTargets[state]])
           /\ CallTargets[state] \in ConfirmedStates
<1>1. PICK n \in 2..4 : /\ state = Lifecycle[n]
                        /\ CallTargets[state] = Lifecycle[n + 1]
  BY DEF CallTargets, Lifecycle
<1>2. CallTargets[state] \in ConfirmedStates
  BY DEF CallTargets, ConfirmedStates
<1> QED BY <1>1, <1>2, HistoryGrows

\* Confirming publishes the first event.
LEMMA HistoryOfConfirmed ==
    History("AwaitingAcceptance") = Append(<<>>, EventOf["AwaitingAcceptance"])
<1>1. Lifecycle[2] = "AwaitingAcceptance"
  BY DEF Lifecycle
<1>2. History("AwaitingAcceptance") = [i \in 1..(2 - 1) |-> EventOf[Lifecycle[i + 1]]]
  BY <1>1, HistoryAt
<1>3. [i \in 1..(2 - 1) |-> EventOf[Lifecycle[i + 1]]]
        = Append(<<>>, EventOf["AwaitingAcceptance"])
  BY <1>1
<1> QED BY <1>2, <1>3

-----------------------------------------------------------------------------
\* A kitchen with no tickets has published nothing.
LEMMA HistoryInit == KitchenInit => HistoryInv
<1> SUFFICES ASSUME KitchenInit PROVE HistoryInv
  OBVIOUS
<1>1. EventsTellTheState
  <2>1. \A o \in Orders : kitchenEvents[o] = <<>> /\ tickets[o] \notin ConfirmedStates
    BY DEF KitchenInit, ConfirmedStates
  <2> QED BY <2>1 DEF EventsTellTheState
<1>2. CallsUpToDate
  BY DEF KitchenInit, CallsUpToDate
<1> QED BY <1>1, <1>2 DEF HistoryInv

\* Nothing the history speaks of changes.
LEMMA HistoryStutter ==
    ASSUME HistoryInv, UNCHANGED <<tickets, kitchenEvents, kitchenCalls>>
    PROVE  HistoryInv'
<1>1. EventsTellTheState'
  BY DEF HistoryInv, EventsTellTheState
<1>2. CallsUpToDate'
  BY DEF HistoryInv, CallsUpToDate
<1> QED BY <1>1, <1>2 DEF HistoryInv

\* A ticket no call is on moves, and its events with it.
LEMMA TicketMoves ==
    ASSUME KitchenTypeOK, HistoryInv, NEW o \in Orders, NEW state,
           tickets[o] \notin DOMAIN CallTargets, SetTicket(o, state),
           UNCHANGED kitchenCalls,
           kitchenEvents'[o] = History(state),
           \A p \in Orders \ {o} : kitchenEvents'[p] = kitchenEvents[p]
    PROVE  HistoryInv'
<1>1. /\ tickets \in [Orders -> TicketStates]
      /\ kitchenCalls \in [KitchenRpcs -> Calls \cup {NoCall}]
  BY DEF KitchenTypeOK
<1>2. tickets'[o] = state /\ \A p \in Orders \ {o} : tickets'[p] = tickets[p]
  BY <1>1 DEF SetTicket
<1>3. EventsTellTheState'
  <2>1. \A p \in Orders : kitchenEvents[p] = History(tickets[p])
    BY DEF HistoryInv, EventsTellTheState, History
  <2>2. \A p \in Orders : kitchenEvents'[p] = History(tickets'[p])
    BY <2>1, <1>2
  <2> QED BY <2>2 DEF EventsTellTheState, History
<1>4. CallsUpToDate'
  <2> SUFFICES ASSUME NEW k \in KitchenRpcs, kitchenCalls[k] # NoCall
               PROVE  /\ tickets'[kitchenCalls[k].ticket] \in DOMAIN CallTargets
                      /\ kitchenCalls[k].target
                            = CallTargets[tickets'[kitchenCalls[k].ticket]]
    BY DEF CallsUpToDate
  <2>1. kitchenCalls[k].ticket \in Orders \ {o}
    BY <1>1 DEF HistoryInv, CallsUpToDate, Calls
  <2> QED BY <2>1, <1>2 DEF HistoryInv, CallsUpToDate
<1> QED BY <1>3, <1>4 DEF HistoryInv

\* A ticket moves between states that publish nothing.
LEMMA SilentMove ==
    ASSUME KitchenTypeOK, HistoryInv, NEW o \in Orders,
           NEW state \in {"CreatePending", "Cancelled"},
           tickets[o] \in {"None", "CreatePending"}, SetTicket(o, state),
           UNCHANGED <<kitchenCalls, kitchenEvents>>
    PROVE  HistoryInv'
<1>1. tickets[o] \notin DOMAIN CallTargets
  BY DEF CallTargets
<1>2. tickets[o] \notin ConfirmedStates /\ state \notin ConfirmedStates
  BY DEF ConfirmedStates
<1>3. kitchenEvents'[o] = History(state)
  BY <1>2 DEF HistoryInv, EventsTellTheState, History
<1> QED BY <1>1, <1>3, TicketMoves

\* The consumer's commands, however often they come (consumer.rs:181-302).
LEMMA ConsumerHistory ==
    ASSUME KitchenTypeOK, HistoryInv, pending \subseteq Messages,
           KitchenConsumerNext
    PROVE  HistoryInv'
<1>1. ASSUME NEW m \in pending, HandleCreateTicket(m)
      PROVE  HistoryInv'
  <2>1. CASE CreateTicketInserts(m)
    <3>1. m.order \in Orders
      BY DEF Messages
    <3> QED BY <2>1, <3>1, SilentMove DEF CreateTicketInserts
  <2>2. CASE CreateTicketRefused(m) \/ CreateTicketPanics(m)
    BY <2>2, HistoryStutter
       DEF CreateTicketRefused, CreateTicketPanics, kitchenVars
  <2> QED BY <1>1, <2>1, <2>2 DEF HandleCreateTicket
<1>2. ASSUME NEW m \in pending, HandleConfirmTicket(m)
      PROVE  HistoryInv'
  <2>1. CASE ~ConfirmWrites(tickets[m.order])
    BY <1>2, <2>1, HistoryStutter DEF HandleConfirmTicket
  <2>2. CASE ConfirmWrites(tickets[m.order])
    <3>1. PICK o \in Orders : o = m.order
      BY DEF Messages
    <3>2. /\ tickets[o] = "CreatePending"
          /\ SetTicket(o, "AwaitingAcceptance")
          /\ kitchenEvents' = [kitchenEvents EXCEPT ![o] =
                                  Append(@, EventOf["AwaitingAcceptance"])]
          /\ UNCHANGED kitchenCalls
      BY <1>2, <2>2, <3>1 DEF HandleConfirmTicket, ConfirmWrites, Publish
    <3>3. kitchenEvents[o] = <<>>
      BY <3>2 DEF HistoryInv, EventsTellTheState, ConfirmedStates
    <3>4. tickets[o] \notin DOMAIN CallTargets
      BY <3>2 DEF CallTargets
    <3>5. DOMAIN kitchenEvents = Orders
      BY DEF KitchenTypeOK
    <3>6. /\ kitchenEvents'[o] = History("AwaitingAcceptance")
          /\ \A p \in Orders \ {o} : kitchenEvents'[p] = kitchenEvents[p]
      BY <3>2, <3>3, <3>5, HistoryOfConfirmed
    <3> QED BY <3>2, <3>4, <3>6, TicketMoves
  <2> QED BY <2>1, <2>2
<1>3. ASSUME NEW m \in pending, HandleCancelTicket(m)
      PROVE  HistoryInv'
  <2>1. CASE ~CancelWrites(tickets[m.order])
    BY <1>3, <2>1, HistoryStutter DEF HandleCancelTicket
  <2>2. CASE CancelWrites(tickets[m.order])
    <3>1. m.order \in Orders
      BY DEF Messages
    <3> QED BY <1>3, <2>2, <3>1, SilentMove DEF HandleCancelTicket, CancelWrites
  <2> QED BY <2>1, <2>2
<1>4. ASSUME NEW r \in Restaurants, KitchenLearnsRestaurant(r)
      PROVE  HistoryInv'
  BY <1>4, HistoryStutter DEF KitchenLearnsRestaurant
<1> QED BY <1>1, <1>2, <1>3, <1>4 DEF KitchenConsumerNext

\* One gRPC call at a time writes the state after the one that still is
\* (rpc.rs:153-357).
LEMMA OneCallHistory ==
    ASSUME \A j, k \in KitchenRpcs : j = k,
           KitchenTypeOK, HistoryInv, KitchenRpcNext
    PROVE  HistoryInv'
<1>1. /\ tickets \in [Orders -> TicketStates]
      /\ kitchenCalls \in [KitchenRpcs -> Calls \cup {NoCall}]
      /\ DOMAIN kitchenEvents = Orders
  BY DEF KitchenTypeOK
<1>2. ASSUME NEW k \in KitchenRpcs, NEW o \in Orders, CallReads(k, o)
      PROVE  HistoryInv'
  <2>1. EventsTellTheState'
    BY <1>2 DEF CallReads, HistoryInv, EventsTellTheState
  <2>2. /\ kitchenCalls'[k] = [ticket |-> o, target |-> CallTargets[tickets[o]]]
        /\ tickets' = tickets /\ tickets[o] \in DOMAIN CallTargets
    BY <1>1, <1>2 DEF CallReads
  <2>3. CallsUpToDate'
    BY <2>2 DEF CallsUpToDate
  <2> QED BY <2>1, <2>3 DEF HistoryInv
<1>3. ASSUME NEW k \in KitchenRpcs, CallWrites(k)
      PROVE  HistoryInv'
  <2> DEFINE o == kitchenCalls[k].ticket
             state == kitchenCalls[k].target
  <2>1. /\ kitchenCalls[k] # NoCall
        /\ tickets' = [tickets EXCEPT ![o] = state]
        /\ kitchenEvents' = [kitchenEvents EXCEPT ![o] = Append(@, EventOf[state])]
        /\ kitchenCalls' = [kitchenCalls EXCEPT ![k] = NoCall]
    BY <1>3 DEF CallWrites, SetTicket, Publish
  <2>2. /\ o \in Orders /\ tickets[o] \in DOMAIN CallTargets
        /\ state = CallTargets[tickets[o]]
    BY <1>1, <2>1 DEF HistoryInv, CallsUpToDate, Calls
  <2>3. History(state) = Append(History(tickets[o]), EventOf[state])
    BY <2>2, HistoryOfTarget
  <2>4. \A p \in Orders : kitchenEvents[p] = History(tickets[p])
    BY DEF HistoryInv, EventsTellTheState, History
  <2>5. kitchenCalls'[k] = NoCall
    BY <1>1, <2>1
  <2> HIDE DEF o, state
  <2>6. /\ tickets'[o] = state /\ kitchenEvents'[o] = History(state)
        /\ \A p \in Orders \ {o} :
              tickets'[p] = tickets[p] /\ kitchenEvents'[p] = kitchenEvents[p]
    BY <1>1, <2>1, <2>2, <2>3, <2>4
  <2>7. \A p \in Orders : kitchenEvents'[p] = History(tickets'[p])
    BY <2>4, <2>6
  <2>8. EventsTellTheState'
    BY <2>7 DEF EventsTellTheState, History
  <2>9. CallsUpToDate'
    BY <2>5 DEF CallsUpToDate
  <2> QED BY <2>8, <2>9 DEF HistoryInv
<1> QED BY <1>2, <1>3 DEF KitchenRpcNext
=============================================================================
