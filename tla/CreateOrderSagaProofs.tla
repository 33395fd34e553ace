------------------------ MODULE CreateOrderSagaProofs ------------------------
(***************************************************************************)
(* Theorems about the create-order saga with all its participants, for any *)
(* number of orders, consumers, restaurants and concurrent gRPC calls, any *)
(* totals and any number of redeliveries.  The inductive invariant SagaInv *)
(* joins those of the services by what the messages carry from one to the  *)
(* other: every command, reply and operation in flight is about an order   *)
(* that has been created, so that create_order meets a saga nobody has     *)
(* moved yet.  The first part is about the order service alone: what the   *)
(* saga manager does to a saga row, Advance as a table, and the two action *)
(* properties that no repeated or late message can break.                  *)
(***************************************************************************)
EXTENDS CreateOrderSaga, AccountingProofs, KitchenProofs

-----------------------------------------------------------------------------
\* The steps that have something to run forward are 1..5, and of those
\* ahead next reaches the nearest (saga/mod.rs:188-229).
LEMMA AdvanceForward ==
    ASSUME NEW s \in SagaRows, ~s.compensating
    PROVE  /\ s.current = 5 => Advance(s) = [s EXCEPT !.ended = TRUE]
           /\ s.current \in 0..4 =>
                Advance(s) = [s EXCEPT !.current = s.current + 1,
                                       !.request = s.request + 1]
           /\ s.current = -1 =>
                Advance(s) = [s EXCEPT !.current = 1, !.request = s.request + 1]
<1>1. s.current \in -1..5
  BY DEF SagaRows
<1>2. \A i \in Steps : ActionAt(s, i) # "None" <=> i \in 1..5
  BY DEF ActionAt, Invoke, Steps
<1>3. StepsAhead(s) = {i \in 1..5 : i > s.current}
  BY <1>2 DEF StepsAhead, Steps
<1>4. s.current = 5 => StepsAhead(s) = {}
  BY <1>3
<1>5. ASSUME NEW k \in 1..5, s.current < k,
             \A i \in 1..5 : i > s.current => k <= i
      PROVE  StepsAhead(s) # {} /\ NextStep(s) = k
  <2>1. k \in StepsAhead(s) /\ \A i \in StepsAhead(s) : k <= i
    BY <1>3, <1>5
  <2>2. \A j \in StepsAhead(s) : (\A i \in StepsAhead(s) : j <= i) => j = k
    BY <2>1, <1>3
  <2> QED BY <2>1, <2>2 DEF NextStep
<1>6. s.current \in 0..4 => StepsAhead(s) # {} /\ NextStep(s) = s.current + 1
  <2> SUFFICES ASSUME s.current \in 0..4
               PROVE  StepsAhead(s) # {} /\ NextStep(s) = s.current + 1
    OBVIOUS
  <2>1. s.current + 1 \in 1..5
    OBVIOUS
  <2> QED BY <2>1, <1>5
<1>7. s.current = -1 => StepsAhead(s) # {} /\ NextStep(s) = 1
  BY <1>5
<1> QED BY <1>1, <1>4, <1>6, <1>7 DEF Advance

\* Backwards the steps to run are 3, 2 and 0.
LEMMA AdvanceBack ==
    ASSUME NEW s \in SagaRows, s.compensating
    PROVE  /\ s.current \in -1..0 => Advance(s) = [s EXCEPT !.ended = TRUE]
           /\ s.current \in 1..2 =>
                Advance(s) = [s EXCEPT !.current = 0, !.request = s.request + 1]
           /\ s.current = 3 =>
                Advance(s) = [s EXCEPT !.current = 2, !.request = s.request + 1]
           /\ s.current \in 4..5 =>
                Advance(s) = [s EXCEPT !.current = 3, !.request = s.request + 1]
<1>1. s.current \in -1..5
  BY DEF SagaRows
<1>2. \A i \in Steps : ActionAt(s, i) # "None" <=> i \in {0, 2, 3}
  BY DEF ActionAt, Compensate, Steps
<1>3. StepsAhead(s) = {i \in {0, 2, 3} : i < s.current}
  BY <1>2 DEF StepsAhead, Steps
<1>4. s.current \in -1..0 => StepsAhead(s) = {}
  BY <1>3
<1>5. ASSUME NEW k \in {0, 2, 3}, k < s.current,
             \A i \in {0, 2, 3} : i < s.current => i <= k
      PROVE  StepsAhead(s) # {} /\ NextStep(s) = k
  <2>1. k \in StepsAhead(s) /\ \A i \in StepsAhead(s) : i <= k
    BY <1>3, <1>5
  <2>2. \A j \in StepsAhead(s) : (\A i \in StepsAhead(s) : i <= j) => j = k
    BY <2>1, <1>3
  <2> QED BY <2>1, <2>2 DEF NextStep
<1>6. s.current \in 1..2 => StepsAhead(s) # {} /\ NextStep(s) = 0
  BY <1>5
<1>7. s.current = 3 => StepsAhead(s) # {} /\ NextStep(s) = 2
  BY <1>5
<1>8. s.current \in 4..5 => StepsAhead(s) # {} /\ NextStep(s) = 3
  BY <1>5
<1> QED BY <1>4, <1>6, <1>7, <1>8 DEF Advance

\* next keeps the direction, and what it has the new step run is a command.
LEMMA AdvanceType ==
    ASSUME NEW s \in SagaRows
    PROVE  /\ Advance(s) \in SagaRows
           /\ Advance(s).compensating = s.compensating
           /\ s.compensating => Advance(s).current <= s.current
           /\ Advance(s).request # s.request =>
                ActionAt(Advance(s), Advance(s).current) \in CommandTypes
<1>1. s.current \in -1..5 /\ s.request \in Nat
  BY DEF SagaRows
<1>2. CASE ~s.compensating
  <2>1. CASE s.current = 5
    <3>1. Advance(s) = [s EXCEPT !.ended = TRUE]
      BY <1>2, <2>1, AdvanceForward
    <3> QED BY <3>1, <1>1, <1>2 DEF SagaRows
  <2>2. CASE s.current # 5
    <3>1. PICK k \in 1..5 :
             Advance(s) = [s EXCEPT !.current = k, !.request = s.request + 1]
      <4> DEFINE To(k) == [s EXCEPT !.current = k, !.request = s.request + 1]
      <4>1. s.current = -1 => Advance(s) = To(1)
        BY <1>2, AdvanceForward
      <4>2. s.current \in 0..4 => Advance(s) = To(s.current + 1)
        BY <1>2, AdvanceForward
      <4>3. s.current \in 0..4 => s.current + 1 \in 1..5
        OBVIOUS
      <4> HIDE DEF To
      <4>4. \E k \in 1..5 : Advance(s) = To(k)
        BY <1>1, <2>2, <4>1, <4>2, <4>3
      <4> QED BY <4>4 DEF To
    <3>2. Advance(s) \in SagaRows
      <4>1. k \in -1..5 /\ s.request + 1 \in Nat
        BY <1>1
      <4> QED BY <3>1, <4>1 DEF SagaRows
    <3>3. Advance(s).current = k /\ Advance(s).compensating = s.compensating
      BY <3>1 DEF SagaRows
    <3>4. Invoke[k] \in CommandTypes
      BY DEF Invoke, Steps, CommandTypes
    <3>5. ActionAt(Advance(s), Advance(s).current) \in CommandTypes
      BY <3>3, <3>4, <1>2 DEF ActionAt
    <3> QED BY <3>2, <3>3, <3>5, <1>2
  <2> QED BY <2>1, <2>2
<1>3. CASE s.compensating
  <2>1. CASE s.current \in -1..0
    <3>1. Advance(s) = [s EXCEPT !.ended = TRUE]
      BY <1>3, <2>1, AdvanceBack
    <3>2. Advance(s) \in SagaRows
      BY <3>1 DEF SagaRows
    <3>3. /\ Advance(s).compensating = s.compensating
          /\ Advance(s).current = s.current
          /\ Advance(s).request = s.request
      BY <3>1 DEF SagaRows
    <3> QED BY <3>2, <3>3, <1>1
  <2>2. CASE s.current \in 1..5
    <3>1. PICK k \in {0, 2, 3} :
             /\ k <= s.current
             /\ Advance(s) = [s EXCEPT !.current = k, !.request = s.request + 1]
      <4> DEFINE To(k) == [s EXCEPT !.current = k, !.request = s.request + 1]
      <4>1. s.current \in 1..2 => Advance(s) = To(0)
        BY <1>3, AdvanceBack
      <4>2. s.current = 3 => Advance(s) = To(2)
        BY <1>3, AdvanceBack
      <4>3. s.current \in 4..5 => Advance(s) = To(3)
        BY <1>3, AdvanceBack
      <4> HIDE DEF To
      <4>4. \E k \in {0, 2, 3} : k <= s.current /\ Advance(s) = To(k)
        BY <2>2, <4>1, <4>2, <4>3
      <4> QED BY <4>4 DEF To
    <3>2. Advance(s) \in SagaRows
      <4>1. k \in -1..5 /\ s.request + 1 \in Nat
        BY <1>1
      <4> QED BY <3>1, <4>1 DEF SagaRows
    <3>3. Advance(s).current = k /\ Advance(s).compensating = s.compensating
      BY <3>1 DEF SagaRows
    <3>4. Compensate[k] \in CommandTypes
      BY DEF Compensate, Steps, CommandTypes
    <3>5. ActionAt(Advance(s), Advance(s).current) \in CommandTypes
      BY <3>3, <3>4, <1>3 DEF ActionAt
    <3> QED BY <3>1, <3>2, <3>3, <3>5, <1>3
  <2> QED BY <1>1, <2>1, <2>2
<1> QED BY <1>2, <1>3 DEF SagaRows

\* process: whatever the reply says, a saga that compensates goes on doing
\* so and does not move up (saga/mod.rs:131-180).
LEMMA ProcessType ==
    ASSUME NEW s \in SagaRows, NEW succeed \in BOOLEAN
    PROVE  /\ Process(s, succeed) \in SagaRows
           /\ s.compensating => /\ Process(s, succeed).compensating
                                /\ Process(s, succeed).current <= s.current
           /\ Process(s, succeed).request # s.request =>
                ActionAt(Process(s, succeed), Process(s, succeed).current)
                    \in CommandTypes
<1>1. CASE succeed
  BY <1>1, AdvanceType DEF Process, SagaRows
<1>2. CASE ~succeed /\ ~s.compensating
  <2> DEFINE turned == [s EXCEPT !.compensating = TRUE]
  <2>1. turned \in SagaRows /\ turned.request = s.request
    BY DEF SagaRows
  <2>2. Process(s, succeed) = Advance(turned)
    BY <1>2 DEF Process
  <2> HIDE DEF turned
  <2>3. /\ Advance(turned) \in SagaRows
        /\ Advance(turned).request # turned.request =>
             ActionAt(Advance(turned), Advance(turned).current) \in CommandTypes
    BY <2>1, AdvanceType
  <2> QED BY <1>2, <2>1, <2>2, <2>3
<1>3. CASE ~succeed /\ s.compensating
  <2>1. Process(s, succeed) = [s EXCEPT !.ended = TRUE, !.failed = TRUE]
    BY <1>3 DEF Process
  <2>2. Process(s, succeed) \in SagaRows
    BY <2>1 DEF SagaRows
  <2>3. /\ Process(s, succeed).compensating = s.compensating
        /\ Process(s, succeed).current = s.current
        /\ Process(s, succeed).request = s.request
    BY <2>1 DEF SagaRows
  <2>4. s.current \in Int
    BY DEF SagaRows
  <2> QED BY <2>2, <2>3, <2>4, <1>3
<1> QED BY <1>1, <1>2, <1>3

\* The command sent, if one is, is a message about that order.
LEMMA CommandsType ==
    ASSUME NEW o \in Orders, NEW s \in SagaRows, NEW succeed \in BOOLEAN
    PROVE  /\ CommandsOf(o, s, Process(s, succeed)) \subseteq Messages
           /\ \A m \in CommandsOf(o, s, Process(s, succeed)) : m.order = o
<1> DEFINE new == Process(s, succeed)
<1>1. new \in SagaRows
  BY ProcessType
<1>2. new.request # s.request => ActionAt(new, new.current) \in CommandTypes
  BY ProcessType
<1> HIDE DEF new
<1>3. new.request \in Nat
  BY <1>1 DEF SagaRows
<1>4. /\ CommandsOf(o, s, new) \subseteq Messages
      /\ \A m \in CommandsOf(o, s, new) : m.order = o
  <2>1. ASSUME new.request # s.request
        PROVE  Command(o, new.request, ActionAt(new, new.current)) \in Messages
    BY <1>2, <1>3, <2>1 DEF Command, Messages
  <2>2. Command(o, new.request, ActionAt(new, new.current)).order = o
    BY DEF Command
  <2> QED BY <2>1, <2>2 DEF CommandsOf
<1> QED BY <1>4 DEF new

-----------------------------------------------------------------------------
\* Every message in flight is about an order that has been created.
MessagesOfOrders == \A m \in pending : orders[m.order] # "None"

\* An order that has not been created has the row that create will insert.
FreshSagas == \A o \in Orders : orders[o] = "None" => sagas[o] = NewSaga

OrderInv == OrderTypeOK /\ FreshSagas

\* The order service starts in the invariant.
LEMMA OrderInitInv == OrderInit => OrderInv
BY DEF OrderInit, OrderInv, OrderTypeOK, FreshSagas, OrderStates, NewSaga,
       SagaRows, OrderEventKinds

\* What the action properties say of one step: a decision stands and is not
\* announced again, a compensating saga goes on compensating.
DecisionsStand ==
    \A o \in Orders :
        orders[o] \in {"Approved", "Rejected"} =>
            orders'[o] = orders[o] /\ orderEvents'[o] = orderEvents[o]

CompensationGoesOn ==
    \A o \in Orders :
        sagas[o].compensating =>
            sagas'[o].compensating /\ sagas'[o].current <= sagas[o].current

\* What every step of the order service does for the rest of the system.
OrderStepOK ==
    /\ OrderInv'
    /\ \A o \in Orders : orders[o] # "None" => orders'[o] # "None"
    /\ DecisionsStand
    /\ CompensationGoesOn

\* A step number can be compared.
LEMMA CurrentIsInt ==
    ASSUME OrderInv
    PROVE  \A o \in Orders : sagas[o].current \in Int
<1> SUFFICES ASSUME NEW o \in Orders PROVE sagas[o].current \in Int
  OBVIOUS
<1>1. sagas[o] \in SagaRows
  BY DEF OrderInv, OrderTypeOK
<1>2. sagas[o].current \in -1..5
  BY <1>1 DEF SagaRows
<1> QED BY <1>2

\* A step that leaves the order service alone.
LEMMA OrderStutter ==
    ASSUME OrderInv, UNCHANGED <<orderRestaurants, orders, orderEvents, sagas>>,
           orderUp' \in BOOLEAN
    PROVE  OrderStepOK
<1>1. OrderInv'
  BY DEF OrderInv, OrderTypeOK, FreshSagas
<1>2. \A o \in Orders : sagas[o].current <= sagas[o].current
  BY CurrentIsInt
<1> QED BY <1>1, <1>2 DEF OrderStepOK, DecisionsStand, CompensationGoesOn

\* RestaurantCreated (app/consumer.rs:112-148).
LEMMA OrderLearnsRestaurantOK ==
    ASSUME OrderInv, NEW r \in Restaurants, OrderLearnsRestaurant(r)
    PROVE  OrderStepOK
<1>1. /\ orderRestaurants' = orderRestaurants \cup {r}
      /\ UNCHANGED <<orders, orderEvents, sagas, orderUp>>
  BY DEF OrderLearnsRestaurant
<1>2. OrderInv'
  BY <1>1 DEF OrderInv, OrderTypeOK, FreshSagas
<1>3. \A o \in Orders : sagas[o].current <= sagas[o].current
  BY CurrentIsInt
<1> QED BY <1>1, <1>2, <1>3 DEF OrderStepOK, DecisionsStand, CompensationGoesOn

\* create_order (app/rpc.rs:60-147): the order is new, and so is its saga.
LEMMA CreateOrderOK ==
    ASSUME OrderInv, NEW o \in Orders, CreateOrder(o)
    PROVE  /\ OrderStepOK
           /\ orders'[o] # "None"
           /\ \E out \in SUBSET Messages :
                 /\ pending' = pending \cup out
                 /\ \A m \in out : m.order = o
<1> DEFINE new == Process(NewSaga, TRUE)
<1>1. /\ orders[o] = "None"
      /\ orders' = [orders EXCEPT ![o] = "ApprovalPending"]
      /\ orderEvents' = [orderEvents EXCEPT ![o] = Append(@, "OrderCreated")]
      /\ sagas' = [sagas EXCEPT ![o] = new]
      /\ pending' = pending \cup CommandsOf(o, NewSaga, new)
      /\ UNCHANGED <<orderRestaurants, orderUp>>
  BY DEF CreateOrder
<1>2. NewSaga \in SagaRows
  BY DEF NewSaga, SagaRows
<1>3. new \in SagaRows
  BY <1>2, ProcessType
<1>4. /\ CommandsOf(o, NewSaga, new) \subseteq Messages
      /\ \A m \in CommandsOf(o, NewSaga, new) : m.order = o
  BY <1>2, CommandsType
<1> HIDE DEF new
<1>5. /\ orders \in [Orders -> OrderStates]
      /\ orderEvents \in [Orders -> Seq(OrderEventKinds)]
      /\ sagas \in [Orders -> SagaRows]
  BY DEF OrderInv, OrderTypeOK
<1>6. orders' \in [Orders -> OrderStates] /\ orders'[o] = "ApprovalPending"
      /\ \A p \in Orders \ {o} : orders'[p] = orders[p]
  BY <1>1, <1>5 DEF OrderStates
<1>7. orderEvents' \in [Orders -> Seq(OrderEventKinds)]
      /\ \A p \in Orders \ {o} : orderEvents'[p] = orderEvents[p]
  <2>1. "OrderCreated" \in OrderEventKinds
    BY DEF OrderEventKinds
  <2>2. Append(orderEvents[o], "OrderCreated") \in Seq(OrderEventKinds)
    BY <2>1, <1>5
  <2> QED BY <2>2, <1>1, <1>5
<1>8. sagas' \in [Orders -> SagaRows]
      /\ \A p \in Orders \ {o} : sagas'[p] = sagas[p]
  BY <1>1, <1>3, <1>5
<1>9. OrderInv'
  BY <1>1, <1>6, <1>7, <1>8 DEF OrderInv, OrderTypeOK, FreshSagas
<1>10. DecisionsStand
  BY <1>1, <1>6, <1>7 DEF DecisionsStand
<1>11. CompensationGoesOn
  <2>1. ~sagas[o].compensating
    BY <1>1 DEF OrderInv, FreshSagas, NewSaga
  <2>2. \A p \in Orders : sagas[p].current \in Int
    BY CurrentIsInt
  <2> QED BY <2>1, <2>2, <1>8 DEF CompensationGoesOn
<1> QED BY <1>1, <1>4, <1>6, <1>9, <1>10, <1>11 DEF OrderStepOK

\* handle_reply moves the saga on and sends what its new step runs
\* (saga/mod.rs:88-180).
LEMMA HandleReplyOK ==
    ASSUME OrderInv, pending \subseteq Messages, MessagesOfOrders,
           NEW m \in pending, HandleReply(m)
    PROVE  /\ OrderStepOK
           /\ \E out \in SUBSET Messages :
                 /\ Consume(orderUp, m, out)
                 /\ \A n \in out : n.order = m.order
<1> DEFINE o   == m.order
           new == Process(sagas[o], m.ok)
           out == CommandsOf(o, sagas[o], new)
<1>1. m \in Messages
  OBVIOUS
<1>2. o \in Orders /\ m.ok \in BOOLEAN
  BY <1>1 DEF Messages
<1>3. /\ sagas' = [sagas EXCEPT ![o] = new]
      /\ Consume(orderUp, m, out)
      /\ UNCHANGED <<orderRestaurants, orders, orderEvents, orderUp>>
  BY DEF HandleReply
<1>4. /\ orders[o] # "None"
      /\ sagas \in [Orders -> SagaRows]
  BY DEF OrderInv, OrderTypeOK, MessagesOfOrders
<1>5. sagas[o] \in SagaRows
  BY <1>2, <1>4
<1>6. /\ new \in SagaRows
      /\ sagas[o].compensating =>
           new.compensating /\ new.current <= sagas[o].current
  BY <1>2, <1>5, ProcessType
<1>7. out \subseteq Messages /\ \A n \in out : n.order = m.order
  BY <1>2, <1>5, CommandsType
<1> HIDE DEF new, out, o
<1>8. /\ sagas' \in [Orders -> SagaRows]
      /\ sagas'[o] = new
      /\ \A p \in Orders \ {o} : sagas'[p] = sagas[p]
  BY <1>2, <1>3, <1>4, <1>6
<1>9. OrderInv'
  BY <1>2, <1>3, <1>4, <1>8 DEF OrderInv, OrderTypeOK, FreshSagas
<1>10. DecisionsStand
  BY <1>3 DEF DecisionsStand
<1>11. CompensationGoesOn
  BY <1>6, <1>8, CurrentIsInt DEF CompensationGoesOn
<1> QED BY <1>3, <1>7, <1>9, <1>10, <1>11 DEF OrderStepOK

\* The reply that panics the consumer changes nothing else.
LEMMA HandleReplyPanicsOK ==
    ASSUME OrderInv, NEW m \in pending, HandleReplyPanics(m)
    PROVE  OrderStepOK /\ UNCHANGED messageVars
<1>1. /\ orderUp' = FALSE
      /\ UNCHANGED <<orderRestaurants, orders, orderEvents, sagas>>
      /\ UNCHANGED messageVars
  BY DEF HandleReplyPanics
<1> QED BY <1>1, OrderStutter

\* Approve and Reject decide an order that is still pending, and no other
\* (command_handlers.rs:16-64).
LEMMA HandleOrderCommandOK ==
    ASSUME OrderInv, pending \subseteq Messages,
           NEW m \in pending, HandleOrderCommand(m)
    PROVE  /\ OrderStepOK
           /\ \E ok \in BOOLEAN :
                 Consume(orderUp, m, {ReplyTo(m, ok, FALSE)})
<1> DEFINE o == m.order
<1>1. m \in Messages
  OBVIOUS
<1>2. o \in Orders
  BY <1>1 DEF Messages
<1>3. /\ Consume(orderUp, m, {ReplyTo(m, MayDecide(o), FALSE)})
      /\ UNCHANGED <<orderRestaurants, sagas, orderUp>>
  BY DEF HandleOrderCommand
<1>4. MayDecide(o) \in BOOLEAN
  BY DEF MayDecide
<1>5. /\ orders \in [Orders -> OrderStates]
      /\ orderEvents \in [Orders -> Seq(OrderEventKinds)]
  BY DEF OrderInv, OrderTypeOK
<1>6. CASE ~MayDecide(o)
  <2>1. UNCHANGED <<orders, orderEvents>>
    BY <1>6 DEF HandleOrderCommand
  <2>2. orderUp' \in BOOLEAN
    BY <1>3 DEF OrderInv, OrderTypeOK
  <2>3. OrderStepOK
    BY <1>3, <2>1, <2>2, OrderStutter
  <2> QED BY <1>3, <1>4, <2>3
<1>7. CASE MayDecide(o)
  <2> DEFINE to == IF m.type = "ApproveOrder" THEN "Approved" ELSE "Rejected"
  <2>1. /\ orders' = [orders EXCEPT ![o] = to]
        /\ orderEvents' = [orderEvents EXCEPT ![o] =
                              Append(@, "OrderAuthorized")]
    BY <1>7 DEF HandleOrderCommand
  <2>2. to \in OrderStates \ {"None"}
    BY DEF OrderStates
  <2> HIDE DEF to, o
  <2>3. /\ orders' \in [Orders -> OrderStates]
        /\ orders'[o] # "None"
        /\ \A p \in Orders \ {o} : orders'[p] = orders[p]
    BY <1>2, <1>5, <2>1, <2>2
  <2>4. /\ orderEvents' \in [Orders -> Seq(OrderEventKinds)]
        /\ \A p \in Orders \ {o} : orderEvents'[p] = orderEvents[p]
    <3>1. "OrderAuthorized" \in OrderEventKinds
      BY DEF OrderEventKinds
    <3>2. Append(orderEvents[o], "OrderAuthorized") \in Seq(OrderEventKinds)
      BY <1>2, <1>5, <3>1
    <3> QED BY <1>2, <1>5, <2>1, <3>2
  <2>5. orders[o] = "ApprovalPending"
    BY <1>7 DEF MayDecide
  <2>6. OrderInv'
    BY <1>3, <2>3, <2>4, <2>5 DEF OrderInv, OrderTypeOK, FreshSagas
  <2>7. DecisionsStand
    BY <2>3, <2>4, <2>5 DEF DecisionsStand
  <2>8. CompensationGoesOn
    BY <1>3, CurrentIsInt DEF CompensationGoesOn
  <2>9. OrderStepOK
    BY <2>3, <2>6, <2>7, <2>8 DEF OrderStepOK
  <2> QED BY <1>3, <1>4, <2>9 DEF o
<1> QED BY <1>6, <1>7

-----------------------------------------------------------------------------
\* Every command the accounting service is working on is about an order
\* that has been created.
OperationsOfOrders ==
    \A p \in Processes :
        operations[p] # NoOperation /\ operations[p].message # NoMessage =>
            orders[operations[p].message.order] # "None"

SagaInv ==
    /\ AccountingInv
    /\ KitchenInv
    /\ OrderInv
    /\ ConsumerTypeOK
    /\ MessagesOfOrders
    /\ OperationsOfOrders

\* No order disappears.
OrdersStay == \A o \in Orders : orders[o] # "None" => orders'[o] # "None"

\* What a step of any service does to the messages: it takes one about a
\* created order and sends others about the same order, or it sends none.
SoundTraffic ==
    \/ pending' \subseteq pending /\ MessagesTypeOK'
    \/ \E up \in BOOLEAN, m \in Messages, out \in SUBSET Messages :
          /\ orders[m.order] # "None"
          /\ Consume(up, m, out)
          /\ \A n \in out : n.order = m.order

-----------------------------------------------------------------------------
\* Such a step leaves well-formed messages about created orders.
LEMMA TrafficInv ==
    ASSUME MessagesTypeOK, MessagesOfOrders, OrdersStay, SoundTraffic
    PROVE  MessagesTypeOK' /\ MessagesOfOrders'
<1>1. pending \subseteq Messages
  BY DEF MessagesTypeOK
<1>2. \A m \in Messages : m.order \in Orders
  BY DEF Messages
<1>3. CASE pending' \subseteq pending /\ MessagesTypeOK'
  BY <1>1, <1>2, <1>3 DEF MessagesOfOrders, OrdersStay
<1>4. ASSUME NEW up \in BOOLEAN, NEW m \in Messages, NEW out \in SUBSET Messages,
             orders[m.order] # "None", Consume(up, m, out),
             \A n \in out : n.order = m.order
      PROVE  MessagesTypeOK' /\ MessagesOfOrders'
  <2>1. MessagesTypeOK'
    BY <1>4, ConsumeType
  <2>2. Again(m).order = m.order
    BY DEF Again, Messages
  <2>3. \A n \in pending' : n \in pending \/ n \in out \/ n = Again(m)
    BY <1>4 DEF Consume
  <2>4. m.order \in Orders
    BY <1>2
  <2>5. \A n \in pending' : n.order \in Orders /\ orders[n.order] # "None"
    BY <1>1, <1>2, <1>4, <2>2, <2>3, <2>4 DEF MessagesOfOrders
  <2>6. MessagesOfOrders'
    BY <2>5 DEF MessagesOfOrders, OrdersStay
  <2> QED BY <2>1, <2>6
<1> QED BY <1>3, <1>4 DEF SoundTraffic

\* A handler that answers one command is such a step
\* (AcceptedMessage::reply).
LEMMA ReplyTraffic ==
    ASSUME NEW up \in BOOLEAN, NEW m \in Messages, orders[m.order] # "None",
           NEW ok \in BOOLEAN, NEW body \in BOOLEAN,
           Consume(up, m, {ReplyTo(m, ok, body)})
    PROVE  SoundTraffic
<1> DEFINE out == {ReplyTo(m, ok, body)}
<1>1. out \in SUBSET Messages
  BY ReplyIsMessage
<1>2. ReplyTo(m, ok, body).order = m.order
  BY DEF ReplyTo
<1>3. \A n \in out : n.order = m.order
  BY <1>2
<1>4. Consume(up, m, out)
  OBVIOUS
<1> HIDE DEF out
<1> QED BY <1>1, <1>3, <1>4 DEF SoundTraffic

\* Operations stay about created orders when none starts.
LEMMA OperationsKept ==
    ASSUME AccountingTypeOK, OperationsOfOrders, OrdersStay,
           UNCHANGED operations
    PROVE  OperationsOfOrders'
<1> SUFFICES ASSUME NEW p \in Processes, operations[p] # NoOperation,
                    operations[p].message # NoMessage
             PROVE  orders'[operations[p].message.order] # "None"
  BY DEF OperationsOfOrders
<1>1. operations[p] \in Operations
  BY DEF AccountingTypeOK
<1>2. operations[p].message \in Messages
  BY <1>1 DEF Operations
<1>3. operations[p].message.order \in Orders
  BY <1>2 DEF Messages
<1> QED BY <1>3 DEF OperationsOfOrders, OrdersStay

\* The accounting service keeps its invariant while another service acts.
LEMMA OtherServiceActs ==
    ASSUME SagaInv, OrdersStay, SoundTraffic, UNCHANGED accountingVars
    PROVE  AccountingInv' /\ MessagesOfOrders' /\ OperationsOfOrders'
<1>1. MessagesTypeOK /\ MessagesOfOrders /\ AccountingTypeOK
  BY DEF SagaInv, AccountingInv
<1>2. MessagesTypeOK' /\ MessagesOfOrders'
  BY <1>1, TrafficInv
<1>3. AccountingInv'
  BY <1>2, AccountingStutter DEF SagaInv
<1>4. UNCHANGED operations
  BY DEF accountingVars
<1> QED BY <1>1, <1>2, <1>3, <1>4, OperationsKept DEF SagaInv

-----------------------------------------------------------------------------
\* The saga's own service (app/consumer.rs, saga/mod.rs).
LEMMA OrderConsumerStepInv ==
    ASSUME SagaInv, OrderConsumerStep
    PROVE  SagaInv' /\ OrderStepOK
<1>1. /\ OrderConsumerNext
      /\ UNCHANGED <<consumerVars, kitchenVars, accountingVars>>
  BY DEF OrderConsumerStep
<1>2. /\ OrderInv /\ MessagesOfOrders /\ MessagesTypeOK
      /\ pending \subseteq Messages
      /\ orderUp \in BOOLEAN
  BY DEF SagaInv, AccountingInv, MessagesTypeOK, OrderInv, OrderTypeOK
<1>3. OrderStepOK /\ SoundTraffic
  <2>1. ASSUME NEW m \in pending, HandleReply(m)
        PROVE  OrderStepOK /\ SoundTraffic
    <3>1. m \in Messages /\ orders[m.order] # "None"
      BY <1>2 DEF MessagesOfOrders
    <3>2. OrderStepOK
      BY <1>2, <2>1, HandleReplyOK
    <3>3. \E out \in SUBSET Messages :
             Consume(orderUp, m, out) /\ \A n \in out : n.order = m.order
      BY <1>2, <2>1, HandleReplyOK
    <3> QED BY <1>2, <3>1, <3>2, <3>3 DEF SoundTraffic
  <2>2. ASSUME NEW m \in pending, HandleReplyPanics(m)
        PROVE  OrderStepOK /\ SoundTraffic
    <3>1. OrderStepOK /\ UNCHANGED messageVars
      BY <1>2, <2>2, HandleReplyPanicsOK
    <3>2. pending' = pending /\ MessagesTypeOK'
      BY <1>2, <3>1 DEF messageVars, MessagesTypeOK
    <3> QED BY <3>1, <3>2 DEF SoundTraffic
  <2>3. ASSUME NEW m \in pending, HandleOrderCommand(m)
        PROVE  OrderStepOK /\ SoundTraffic
    <3>1. m \in Messages /\ orders[m.order] # "None"
      BY <1>2 DEF MessagesOfOrders
    <3>2. /\ OrderStepOK
          /\ \E ok \in BOOLEAN : Consume(orderUp, m, {ReplyTo(m, ok, FALSE)})
      BY <1>2, <2>3, HandleOrderCommandOK
    <3>3. PICK ok \in BOOLEAN : Consume(orderUp, m, {ReplyTo(m, ok, FALSE)})
      BY <3>2
    <3> QED BY <1>2, <3>1, <3>2, <3>3, ReplyTraffic
  <2>4. ASSUME NEW r \in Restaurants, OrderLearnsRestaurant(r)
        PROVE  OrderStepOK /\ SoundTraffic
    <3>1. OrderStepOK
      BY <1>2, <2>4, OrderLearnsRestaurantOK
    <3>2. pending' = pending /\ MessagesTypeOK'
      BY <1>2, <2>4 DEF OrderLearnsRestaurant, messageVars, MessagesTypeOK
    <3> QED BY <3>1, <3>2 DEF SoundTraffic
  <2> QED BY <1>1, <2>1, <2>2, <2>3, <2>4 DEF OrderConsumerNext
<1>4. OrdersStay /\ OrderInv'
  BY <1>3 DEF OrderStepOK, OrdersStay
<1>5. AccountingInv' /\ MessagesOfOrders' /\ OperationsOfOrders'
  BY <1>1, <1>3, <1>4, OtherServiceActs
<1>6. KitchenInv'
  BY <1>1, KitchenStutter DEF SagaInv, kitchenVars
<1>7. ConsumerTypeOK'
  BY <1>1 DEF SagaInv, ConsumerTypeOK, consumerVars
<1> QED BY <1>3, <1>4, <1>5, <1>6, <1>7 DEF SagaInv

\* create_order (app/rpc.rs:60-147): the first messages about an order.
LEMMA OrderRpcStepInv ==
    ASSUME SagaInv, OrderRpcStep
    PROVE  SagaInv' /\ OrderStepOK
<1>1. PICK o \in Orders : CreateOrder(o)
  BY DEF OrderRpcStep, OrderRpcNext
<1>2. UNCHANGED <<consumerVars, kitchenVars, accountingVars>>
  BY DEF OrderRpcStep
<1>3. /\ OrderInv /\ MessagesOfOrders /\ MessagesTypeOK /\ AccountingTypeOK
      /\ pending \subseteq Messages
  BY DEF SagaInv, AccountingInv, MessagesTypeOK
<1>4. OrderStepOK /\ orders'[o] # "None"
  BY <1>1, <1>3, CreateOrderOK
<1>5. PICK out \in SUBSET Messages :
         pending' = pending \cup out /\ \A m \in out : m.order = o
  BY <1>1, <1>3, CreateOrderOK
<1>6. OrdersStay /\ OrderInv'
  BY <1>4 DEF OrderStepOK, OrdersStay
<1>7. MessagesTypeOK'
  BY <1>1, <1>3, <1>5 DEF CreateOrder, MessagesTypeOK
<1>8. MessagesOfOrders'
  <2> SUFFICES ASSUME NEW m \in pending' PROVE orders'[m.order] # "None"
    BY DEF MessagesOfOrders
  <2>1. CASE m \in out
    BY <1>4, <1>5, <2>1
  <2>2. CASE m \in pending
    <3>1. m \in Messages
      BY <1>3, <2>2
    <3>2. m.order \in Orders
      BY <3>1 DEF Messages
    <3> QED BY <1>3, <1>6, <2>2, <3>2 DEF MessagesOfOrders, OrdersStay
  <2> QED BY <1>5, <2>1, <2>2
<1>9. AccountingInv' /\ OperationsOfOrders'
  <2>1. UNCHANGED operations
    BY <1>2 DEF accountingVars
  <2> QED BY <1>2, <1>3, <1>6, <1>7, <2>1, AccountingStutter, OperationsKept
          DEF SagaInv
<1>10. KitchenInv' /\ ConsumerTypeOK'
  BY <1>2, KitchenStutter
     DEF SagaInv, kitchenVars, ConsumerTypeOK, consumerVars
<1> QED BY <1>4, <1>6, <1>8, <1>9, <1>10 DEF SagaInv

\* The consumer service answers ValidateOrder, and registers consumers.
LEMMA ConsumerStepsInv ==
    ASSUME SagaInv, ConsumerConsumerStep \/ ConsumerRpcStep
    PROVE  SagaInv' /\ UNCHANGED orderVars
<1>1. UNCHANGED <<orderVars, kitchenVars, accountingVars>>
  BY DEF ConsumerConsumerStep, ConsumerRpcStep
<1>2. /\ MessagesOfOrders /\ MessagesTypeOK /\ ConsumerTypeOK
      /\ pending \subseteq Messages
  BY DEF SagaInv, AccountingInv, MessagesTypeOK
<1>3. SoundTraffic /\ ConsumerTypeOK'
  <2>1. ASSUME NEW m \in pending, HandleValidateOrder(m)
        PROVE  SoundTraffic /\ ConsumerTypeOK'
    <3> DEFINE ok == KnownConsumer(ConsumerOf[m.order])
    <3>1. /\ Consume(TRUE, m, {ReplyTo(m, ok, FALSE)})
          /\ UNCHANGED consumers
      BY <2>1 DEF HandleValidateOrder, consumerVars
    <3>2. ok \in BOOLEAN
      BY DEF KnownConsumer
    <3> HIDE DEF ok
    <3>3. SoundTraffic
      BY <1>2, <3>1, <3>2, ReplyTraffic DEF MessagesOfOrders
    <3> QED BY <1>2, <3>1, <3>3 DEF ConsumerTypeOK
  <2>2. ASSUME NEW c \in Consumers, CreateConsumer(c)
        PROVE  SoundTraffic /\ ConsumerTypeOK'
    <3>1. /\ consumers' = consumers \cup {c}
          /\ consumerEvents' = consumerEvents \cup {c}
          /\ UNCHANGED <<pending, redeliveries>>
      BY <2>2 DEF CreateConsumer
    <3>2. MessagesTypeOK' /\ ConsumerTypeOK'
      BY <1>2, <3>1 DEF MessagesTypeOK, ConsumerTypeOK
    <3> QED BY <3>1, <3>2 DEF SoundTraffic
  <2> QED BY <2>1, <2>2 DEF ConsumerConsumerStep, ConsumerRpcStep
<1>4. OrdersStay /\ OrderInv'
  BY <1>1 DEF OrdersStay, orderVars, SagaInv, OrderInv, OrderTypeOK, FreshSagas
<1>5. AccountingInv' /\ MessagesOfOrders' /\ OperationsOfOrders'
  BY <1>1, <1>3, <1>4, OtherServiceActs
<1>6. KitchenInv'
  BY <1>1, KitchenStutter DEF SagaInv, kitchenVars
<1> QED BY <1>1, <1>3, <1>4, <1>5, <1>6 DEF SagaInv

\* The kitchen's handlers answer what they take, and its gRPC calls send
\* nothing (kitchen consumer.rs, rpc.rs).
LEMMA KitchenTraffic ==
    ASSUME MessagesTypeOK, MessagesOfOrders, KitchenTypeOK,
           KitchenConsumerNext \/ KitchenRpcNext
    PROVE  SoundTraffic
<1>1. pending \subseteq Messages /\ kitchenUp \in BOOLEAN
  BY DEF MessagesTypeOK, KitchenTypeOK
<1>2. ASSUME UNCHANGED messageVars PROVE SoundTraffic
  BY <1>2 DEF messageVars, MessagesTypeOK, SoundTraffic
<1>3. ASSUME NEW m \in pending, HandleCreateTicket(m)
      PROVE  SoundTraffic
  <2>1. CASE CreateTicketRefused(m)
    BY <1>1, <2>1, ReplyTraffic DEF CreateTicketRefused, MessagesOfOrders
  <2>2. CASE CreateTicketInserts(m)
    BY <1>1, <2>2, ReplyTraffic DEF CreateTicketInserts, MessagesOfOrders
  <2>3. CASE CreateTicketPanics(m)
    BY <1>2, <2>3 DEF CreateTicketPanics
  <2> QED BY <1>3, <2>1, <2>2, <2>3 DEF HandleCreateTicket
<1>4. ASSUME NEW m \in pending, HandleConfirmTicket(m)
      PROVE  SoundTraffic
  <2> DEFINE ok == ConfirmSucceeds(tickets[m.order])
  <2>1. Consume(kitchenUp, m, {ReplyTo(m, ok, FALSE)})
    BY <1>4 DEF HandleConfirmTicket
  <2>2. ok \in BOOLEAN
    BY DEF ConfirmSucceeds
  <2> HIDE DEF ok
  <2> QED BY <1>1, <2>1, <2>2, ReplyTraffic DEF MessagesOfOrders
<1>5. ASSUME NEW m \in pending, HandleCancelTicket(m)
      PROVE  SoundTraffic
  <2> DEFINE state == tickets[m.order]
             ok    == CancelWrites(state) \/ state = "Cancelled"
  <2>1. Consume(kitchenUp, m, {ReplyTo(m, ok, FALSE)})
    BY <1>5 DEF HandleCancelTicket
  <2>2. ok \in BOOLEAN
    OBVIOUS
  <2> HIDE DEF ok
  <2> QED BY <1>1, <2>1, <2>2, ReplyTraffic DEF MessagesOfOrders
<1>6. ASSUME NEW r \in Restaurants, KitchenLearnsRestaurant(r)
      PROVE  SoundTraffic
  BY <1>2, <1>6 DEF KitchenLearnsRestaurant
<1>7. CASE KitchenRpcNext
  BY <1>2, <1>7 DEF KitchenRpcNext, CallReads, CallWrites
<1> QED BY <1>3, <1>4, <1>5, <1>6, <1>7 DEF KitchenConsumerNext

\* The kitchen's steps.
LEMMA KitchenStepsInv ==
    ASSUME SagaInv, KitchenConsumerStep \/ KitchenRpcStep
    PROVE  SagaInv' /\ UNCHANGED orderVars
<1>1. /\ KitchenConsumerNext \/ KitchenRpcNext
      /\ UNCHANGED <<orderVars, consumerVars, accountingVars>>
  BY DEF KitchenConsumerStep, KitchenRpcStep
<1>2. /\ MessagesOfOrders /\ MessagesTypeOK /\ KitchenInv
      /\ pending \subseteq Messages /\ KitchenTypeOK
  BY DEF SagaInv, AccountingInv, MessagesTypeOK, KitchenInv
<1>3. SoundTraffic
  BY <1>1, <1>2, KitchenTraffic
<1>4. KitchenInv'
  BY <1>1, <1>2, KitchenConsumerInv, KitchenRpcInv
<1>5. OrdersStay /\ OrderInv'
  BY <1>1 DEF OrdersStay, orderVars, SagaInv, OrderInv, OrderTypeOK, FreshSagas
<1>6. AccountingInv' /\ MessagesOfOrders' /\ OperationsOfOrders'
  BY <1>1, <1>3, <1>5, OtherServiceActs
<1>7. ConsumerTypeOK'
  BY <1>1 DEF SagaInv, ConsumerTypeOK, consumerVars
<1> QED BY <1>1, <1>4, <1>5, <1>6, <1>7 DEF SagaInv

\* A process that begins on a command carries a message about a created
\* order; one that ends carries nothing (accounting consumer.rs, service.rs).
LEMMA AccountingMessages ==
    ASSUME SagaInv, NEW accounts,
           AccountingConsumerNext \/ AccountingRpcNext(accounts),
           UNCHANGED orders
    PROVE  SoundTraffic /\ OperationsOfOrders'
<1>1. /\ MessagesTypeOK /\ AccountingTypeOK
      /\ MessagesOfOrders /\ OperationsOfOrders
      /\ pending \subseteq Messages
  BY DEF SagaInv, AccountingInv, MessagesTypeOK
<1>2. OrdersStay
  BY DEF OrdersStay
<1>3. KafkaConsumer \in Processes /\ AccountingRpcs \subseteq Processes
  BY DEF Processes
<1>4. ASSUME UNCHANGED messageVars PROVE SoundTraffic
  BY <1>1, <1>4 DEF messageVars, MessagesTypeOK, SoundTraffic
<1>5. ASSUME NEW p \in Processes, NEW a, NEW kind, NEW amount,
             NEW m, Start(p, a, kind, amount, m),
             m = NoMessage \/ m \in pending
      PROVE  SoundTraffic /\ OperationsOfOrders'
  <2> DEFINE succeed == Decide(kind, amount, balance[a])
             op == [account |-> a, last |-> LastOf(sequences[a]), kind |-> kind,
                    succeed |-> succeed,
                    delta |-> IF succeed THEN Delta(kind, amount) ELSE 0,
                    message |-> m]
  <2>1. operations' = [operations EXCEPT ![p] = op] /\ op.message = m
    BY <1>5 DEF Start
  <2> HIDE DEF op
  <2>2. \A q \in Processes :
           operations'[q] = IF q = p THEN op ELSE operations[q]
    BY <1>1, <2>1 DEF AccountingTypeOK
  <2>3. m # NoMessage => orders[m.order] # "None"
    BY <1>1, <1>5 DEF MessagesOfOrders
  <2>4. OperationsOfOrders'
    BY <1>1, <2>1, <2>2, <2>3 DEF OperationsOfOrders
  <2>5. UNCHANGED messageVars
    BY <1>5 DEF Start
  <2> QED BY <1>4, <2>4, <2>5
<1>6. ASSUME NEW p \in Processes, operations[p] # NoOperation,
             NEW out \in SUBSET {ReplyTo(operations[p].message,
                                          operations[p].succeed, FALSE)},
             Finish(p, out)
      PROVE  SoundTraffic /\ OperationsOfOrders'
  <2> DEFINE m == operations[p].message
  <2>1. operations' = [operations EXCEPT ![p] = NoOperation]
    BY <1>6 DEF Finish
  <2>2. \A q \in Processes :
           operations'[q] = IF q = p THEN NoOperation ELSE operations[q]
    BY <1>1, <2>1 DEF AccountingTypeOK
  <2>3. OperationsOfOrders'
    BY <1>1, <2>2 DEF OperationsOfOrders
  <2>4. CASE m = NoMessage
    BY <1>4, <1>6, <2>3, <2>4 DEF Finish
  <2>5. CASE m # NoMessage
    <3>1. operations[p] \in Operations
      BY <1>1, <1>6 DEF AccountingTypeOK
    <3>2. m \in Messages /\ operations[p].succeed \in BOOLEAN
      BY <2>5, <3>1 DEF Operations
    <3>3. orders[m.order] # "None"
      BY <1>1, <1>6, <2>5 DEF OperationsOfOrders
    <3>4. PICK up \in BOOLEAN : Consume(up, m, out)
      BY <1>6, <2>5 DEF Finish
    <3>5. /\ ReplyTo(m, operations[p].succeed, FALSE) \in Messages
          /\ ReplyTo(m, operations[p].succeed, FALSE).order = m.order
      BY <3>2, ReplyIsMessage DEF ReplyTo
    <3>6. out \in SUBSET Messages /\ \A n \in out : n.order = m.order
      BY <1>6, <3>5
    <3>7. SoundTraffic
      BY <3>2, <3>3, <3>4, <3>6 DEF SoundTraffic
    <3> QED BY <2>3, <3>7
  <2> QED BY <2>4, <2>5
<1>7. ASSUME NEW p \in Processes, AppendCommits(p) \/ AppendFails(p)
      PROVE  SoundTraffic /\ OperationsOfOrders'
  <2> DEFINE answer == ReplyTo(operations[p].message,
                               operations[p].succeed, FALSE)
  <2>1. operations[p] # NoOperation
    BY <1>7 DEF AppendCommits, AppendFails
  <2>2. \E out \in SUBSET {answer} : Finish(p, out)
    BY <1>7 DEF AppendCommits, AppendFails
  <2> QED BY <1>6, <2>1, <2>2
<1>8. ASSUME NEW m \in pending, StartCommand(m)
      PROVE  SoundTraffic /\ OperationsOfOrders'
  BY <1>3, <1>5, <1>8 DEF StartCommand
<1>9. ASSUME NEW p \in AccountingRpcs, NEW a, NEW kind, NEW amount,
             RpcStart(p, a, kind, amount)
      PROVE  SoundTraffic /\ OperationsOfOrders'
  BY <1>3, <1>5, <1>9 DEF RpcStart
<1>10. ASSUME NEW a \in Consumers, OpenAccount(a) \/ OpenAccountPanics(a)
       PROVE  SoundTraffic /\ OperationsOfOrders'
  <2>1. UNCHANGED operations
    BY <1>10 DEF OpenAccount, OpenAccountPanics
  <2>2. OperationsOfOrders'
    BY <1>1, <1>2, <2>1, OperationsKept
  <2>3. CASE OpenAccount(a)
    <3>1. ConsumeConsumerEvent(a)
      BY <2>3 DEF OpenAccount
    <3>2. pending' = pending /\ MessagesTypeOK'
      BY <1>1, <3>1, SagaConstants DEF ConsumeConsumerEvent, MessagesTypeOK
    <3> QED BY <2>2, <3>2 DEF SoundTraffic
  <2>4. CASE OpenAccountPanics(a)
    BY <1>4, <2>2, <2>4 DEF OpenAccountPanics
  <2> QED BY <1>10, <2>3, <2>4
<1>11. CASE AccountingConsumerNext
  BY <1>3, <1>7, <1>8, <1>10, <1>11 DEF AccountingConsumerNext
<1>12. CASE AccountingRpcNext(accounts)
  BY <1>3, <1>7, <1>9, <1>12 DEF AccountingRpcNext
<1> QED BY <1>11, <1>12

\* The accounting service's steps.
LEMMA AccountingStepsInv ==
    ASSUME SagaInv, AccountingConsumerStep \/ AccountingRpcStep
    PROVE  SagaInv' /\ UNCHANGED orderVars
<1>1. /\ AccountingConsumerNext \/ AccountingRpcNext(consumers)
      /\ UNCHANGED <<orderVars, consumerVars, kitchenVars>>
  BY DEF AccountingConsumerStep, AccountingRpcStep
<1>2. AccountingRpcNext(consumers) => AccountingRpcNext(Consumers)
  BY DEF AccountingRpcNext, SagaInv, ConsumerTypeOK
<1>3. AccountingInv'
  BY <1>1, <1>2, AccountingConsumerInv, AccountingRpcInv DEF SagaInv
<1>4. UNCHANGED orders
  BY <1>1 DEF orderVars
<1>5. SoundTraffic /\ OperationsOfOrders'
  BY <1>1, <1>4, AccountingMessages
<1>6. OrdersStay /\ OrderInv'
  BY <1>1 DEF OrdersStay, orderVars, SagaInv, OrderInv, OrderTypeOK, FreshSagas
<1>7. MessagesOfOrders'
  BY <1>5, <1>6, TrafficInv DEF SagaInv, AccountingInv
<1>8. KitchenInv' /\ ConsumerTypeOK'
  BY <1>1, KitchenStutter
     DEF SagaInv, kitchenVars, ConsumerTypeOK, consumerVars
<1> QED BY <1>1, <1>3, <1>5, <1>6, <1>7, <1>8 DEF SagaInv

-----------------------------------------------------------------------------
\* A step that changes nothing about the orders decides and turns nothing.
LEMMA OrdersAlone ==
    ASSUME OrderInv, UNCHANGED orderVars
    PROVE  DecisionsStand /\ CompensationGoesOn
<1>1. /\ UNCHANGED <<orderRestaurants, orders, orderEvents, sagas>>
      /\ orderUp' \in BOOLEAN
  BY DEF orderVars, OrderInv, OrderTypeOK
<1> QED BY <1>1, OrderStutter DEF OrderStepOK

\* The invariant holds at the start.
LEMMA SagaInitInv == Init => SagaInv
<1> SUFFICES ASSUME Init PROVE SagaInv
  OBVIOUS
<1>1. MessagesTypeOK /\ MessagesOfOrders
  BY SagaConstants DEF Init, MessagesInit, MessagesTypeOK, MessagesOfOrders
<1>2. AccountingInv
  BY <1>1, AccountingInitInv DEF Init
<1>3. KitchenInv /\ OrderInv
  BY KitchenInitInv, OrderInitInv DEF Init
<1>4. ConsumerTypeOK
  BY DEF Init, ConsumerInit, ConsumerTypeOK
<1>5. OperationsOfOrders
  BY DEF Init, AccountingInit, OperationsOfOrders
<1> QED BY <1>1, <1>2, <1>3, <1>4, <1>5 DEF SagaInv

\* Every step keeps the invariant, leaves decided orders alone and turns no
\* compensation round.
LEMMA SagaStep ==
    ASSUME SagaInv, [Next]_vars
    PROVE  SagaInv' /\ DecisionsStand /\ CompensationGoesOn
<1>1. OrderInv
  BY DEF SagaInv
<1>2. CASE OrderConsumerStep \/ OrderRpcStep
  BY <1>2, OrderConsumerStepInv, OrderRpcStepInv DEF OrderStepOK
<1>3. CASE ConsumerConsumerStep \/ ConsumerRpcStep
  BY <1>1, <1>3, ConsumerStepsInv, OrdersAlone
<1>4. CASE KitchenConsumerStep \/ KitchenRpcStep
  BY <1>1, <1>4, KitchenStepsInv, OrdersAlone
<1>5. CASE AccountingConsumerStep \/ AccountingRpcStep
  BY <1>1, <1>5, AccountingStepsInv, OrdersAlone
<1>6. CASE UNCHANGED vars
  <2>1. UNCHANGED <<messageVars, orderVars, consumerVars, kitchenVars,
                    accountingVars>>
    BY <1>6 DEF vars
  <2>2. pending' \subseteq pending /\ MessagesTypeOK'
    BY <2>1 DEF messageVars, MessagesTypeOK, SagaInv, AccountingInv
  <2>3. OrdersStay /\ OrderInv'
    BY <2>1 DEF OrdersStay, orderVars, SagaInv, OrderInv, OrderTypeOK,
                FreshSagas
  <2>4. AccountingInv' /\ MessagesOfOrders' /\ OperationsOfOrders'
    BY <2>1, <2>2, <2>3, OtherServiceActs DEF SoundTraffic
  <2>5. KitchenInv' /\ ConsumerTypeOK'
    BY <2>1, KitchenStutter
       DEF SagaInv, kitchenVars, ConsumerTypeOK, consumerVars
  <2>6. SagaInv'
    BY <2>3, <2>4, <2>5 DEF SagaInv
  <2> QED BY <1>1, <2>1, <2>6, OrdersAlone
<1> QED BY <1>2, <1>3, <1>4, <1>5, <1>6 DEF Next

-----------------------------------------------------------------------------
\* SagaInv is an invariant of the composed system.
THEOREM SagaInvariant == Spec => []SagaInv
<1>1. SagaInv /\ [Next]_vars => SagaInv'
  BY SagaStep
<1> QED BY <1>1, SagaInitInv, PTL DEF Spec

\* Every variable of every service keeps its type.
THEOREM SagaTypeCorrect == Spec => []TypeOK
<1>1. SagaInv => TypeOK
  BY DEF SagaInv, AccountingInv, KitchenInv, OrderInv, TypeOK
<1> QED BY <1>1, SagaInvariant, PTL

\* Every step of the composed system is one of the accounting service or
\* leaves it alone.
LEMMA AccountingActs ==
    ASSUME SagaInv, [Next]_vars
    PROVE  \/ UNCHANGED accountingVars
           \/ \E accounts \in SUBSET Consumers :
                 AccountingConsumerNext \/ AccountingRpcNext(accounts)
<1>1. consumers \in SUBSET Consumers
  BY DEF SagaInv, ConsumerTypeOK
<1> QED
  BY <1>1 DEF Next, OrderConsumerStep, OrderRpcStep, ConsumerConsumerStep,
              ConsumerRpcStep, KitchenConsumerStep, KitchenRpcStep,
              AccountingConsumerStep, AccountingRpcStep, vars

(***************************************************************************)
(* Orders, refunds and gRPC calls together overdraw an account only by a   *)
(* deposit of a negative amount: a call's, or the refund of an order with  *)
(* a negative total (service.rs:117-186, order models' line items).        *)
(***************************************************************************)
THEOREM SagaWithdrawalsCovered == Spec => OverdrawnByDepositsOnly
<1>1. SagaInv /\ [Next]_vars =>
        [\A a \in Consumers : FallsByDeposit(a)]_accountingVars
  BY AccountingActs, ServiceFalls DEF SagaInv
<1> QED BY <1>1, SagaInvariant, PTL DEF Spec, OverdrawnByDepositsOnly

(***************************************************************************)
(* If no total and no amount is negative, no account is ever overdrawn by  *)
(* orders, refunds and gRPC calls together, for any redeliveries.          *)
(***************************************************************************)
THEOREM SagaNeverOverdrawn ==
    ASSUME NoNegativeAmounts
    PROVE  Spec => []BalanceNeverNegative
<1>1. Init => SolventInv
  BY SolventInit DEF Init
<1>2. SagaInv /\ SagaInv' /\ SolventInv /\ [Next]_vars => SolventInv'
  BY AccountingActs, ServiceSolvent, SolventStutter DEF SagaInv
<1>3. SolventInv => BalanceNeverNegative
  BY DEF SolventInv
<1> QED BY <1>1, <1>2, <1>3, SagaInvariant, PTL DEF Spec

\* No two tickets of a restaurant ever have the same number (kitchen
\* consumer.rs:114-123).
THEOREM NumbersNeverShared == Spec => []TicketNumbersDistinct
<1>1. SagaInv => TicketNumbersDistinct
  BY DEF SagaInv, KitchenInv
<1> QED BY <1>1, SagaInvariant, PTL

\* With one gRPC call of the kitchen at a time, what it has published about a
\* ticket is the history of the ticket's state, however often the commands are
\* delivered (kitchen consumer.rs:181-302, rpc.rs:153-357).
THEOREM EventsAreHistory ==
    ASSUME \A j, k \in KitchenRpcs : j = k
    PROVE  Spec => []EventsTellTheState
<1>1. Init => HistoryInv
  BY HistoryInit DEF Init
<1>2. SagaInv /\ HistoryInv /\ [Next]_vars => HistoryInv'
  <2> SUFFICES ASSUME SagaInv, HistoryInv, [Next]_vars PROVE HistoryInv'
    OBVIOUS
  <2>1. KitchenTypeOK /\ pending \subseteq Messages
    BY DEF SagaInv, AccountingInv, MessagesTypeOK, KitchenInv
  <2>2. CASE KitchenConsumerStep
    BY <2>1, <2>2, ConsumerHistory DEF KitchenConsumerStep
  <2>3. CASE KitchenRpcStep
    BY <2>1, <2>3, OneCallHistory DEF KitchenRpcStep
  <2>4. CASE \/ OrderConsumerStep \/ OrderRpcStep
             \/ ConsumerConsumerStep \/ ConsumerRpcStep
             \/ AccountingConsumerStep \/ AccountingRpcStep
             \/ UNCHANGED vars
    <3>1. UNCHANGED kitchenVars
      BY <2>4 DEF OrderConsumerStep, OrderRpcStep, ConsumerConsumerStep,
                  ConsumerRpcStep, AccountingConsumerStep, AccountingRpcStep, vars
    <3> QED BY <3>1, HistoryStutter DEF kitchenVars
  <2> QED BY <2>2, <2>3, <2>4 DEF Next
<1>3. HistoryInv => EventsTellTheState
  BY DEF HistoryInv
<1> QED BY <1>1, <1>2, <1>3, SagaInvariant, PTL DEF Spec

\* A decided order stays decided and is announced once, however often its
\* commands are delivered (command_handlers.rs:20-25, 45-50).
THEOREM DecisionsAreFinal == Spec => DecidedOnce
<1>1. SagaInv /\ [Next]_vars => [DecisionsStand]_vars
  BY SagaStep
<1>2. [DecisionsStand]_vars =>
        [\A o \in Orders :
            orders[o] \in {"Approved", "Rejected"} =>
                orders'[o] = orders[o] /\ orderEvents'[o] = orderEvents[o]]_vars
  BY DEF DecisionsStand
<1> QED BY <1>1, <1>2, SagaInvariant, PTL DEF Spec, DecidedOnce

\* No late or repeated reply turns a compensating saga round
\* (saga/mod.rs:131-231).
THEOREM NoWayBack == Spec => CompensationOneWay
<1>1. SagaInv /\ [Next]_vars => [CompensationGoesOn]_vars
  BY SagaStep
<1>2. [CompensationGoesOn]_vars =>
        [\A o \in Orders :
            sagas[o].compensating =>
                sagas'[o].compensating
                /\ sagas'[o].current <= sagas[o].current]_vars
  BY DEF CompensationGoesOn
<1> QED BY <1>1, <1>2, SagaInvariant, PTL DEF Spec, CompensationOneWay
=============================================================================
