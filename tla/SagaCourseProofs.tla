-------------------------- MODULE SagaCourseProofs --------------------------
(***************************************************************************)
(* What the create-order saga guarantees when every message is delivered   *)
(* once, for any number of orders, consumers, restaurants and concurrent   *)
(* gRPC calls.  The inductive invariant is a table: for every step of the  *)
(* saga, in either direction, the state the order, the ticket and the      *)
(* charge are in before and after the step's command has been handled, in  *)
(* three services.  A message in flight is the command of the step the     *)
(* saga is in, or the answer that says what has become of it.              *)
(***************************************************************************)
EXTENDS CreateOrderSagaProofs

-----------------------------------------------------------------------------
\* The world in which step s.current has its command or refusal in flight.
StepBegun(s, order, ticket, charge) ==
    /\ order = "ApprovalPending"
    /\ \/ /\ ~s.compensating
          /\ \/ s.current \in {1, 2} /\ ticket = "None" /\ charge = 0
             \/ s.current = 3 /\ ticket = "CreatePending" /\ charge = 0
             \/ s.current = 4 /\ ticket = "CreatePending" /\ charge = 1
             \/ s.current = 5 /\ ticket \in ConfirmedStates /\ charge = 1
       \/ /\ s.compensating /\ charge = 0
          /\ \/ s.current = 2 /\ ticket = "CreatePending"
             \/ s.current = 0 /\ ticket \in {"None", "Cancelled"}

\* The world once that command has been carried out.
StepDone(s, order, ticket, charge) ==
    \/ /\ order = "ApprovalPending" /\ ~s.compensating
       /\ \/ s.current = 1 /\ ticket = "None" /\ charge = 0
          \/ s.current = 2 /\ ticket = "CreatePending" /\ charge = 0
          \/ s.current = 3 /\ ticket = "CreatePending" /\ charge = 1
          \/ s.current = 4 /\ ticket \in ConfirmedStates /\ charge = 1
    \/ /\ order = "ApprovalPending" /\ s.compensating
       /\ s.current = 2 /\ ticket = "Cancelled" /\ charge = 0
    \/ /\ order = "Approved" /\ ~s.compensating
       /\ s.current = 5 /\ ticket \in ConfirmedStates /\ charge = 1
    \/ /\ order = "Rejected" /\ s.compensating
       /\ s.current = 0 /\ ticket \in {"None", "Cancelled"} /\ charge = 0

\* The same of order o; an order not created yet is untouched everywhere.
Begun(o) == StepBegun(sagas[o], orders[o], tickets[o], charged[o])
Done(o) == StepDone(sagas[o], orders[o], tickets[o], charged[o])
Untouched(o) == orders[o] = "None" /\ tickets[o] = "None" /\ charged[o] = 0

\* Every order is somewhere in the table, and its saga has not given up.
OrderOnCourse(o) ==
    ~sagas[o].failed /\ (Untouched(o) \/ Begun(o) \/ Done(o))

\* A message answers to the last request: it is the command of the step, its
\* grant with the step done, or a refusal with nothing done.
MessageOnCourse(m) ==
    LET s == sagas[m.order]
    IN  /\ m.request = s.request
        /\ \/ m.type = ActionAt(s, s.current) /\ Begun(m.order)
           \/ /\ m.type = "Reply" /\ m.ok /\ Done(m.order)
              /\ ~s.compensating /\ s.current = TicketStep => m.body
           \/ /\ m.type = "Reply" /\ ~m.ok /\ Begun(m.order)
              /\ ~s.compensating /\ s.current \in 1..3

SagaOnCourse ==
    /\ \A o \in Orders : OrderOnCourse(o)
    /\ \A m \in pending : MessageOnCourse(m)
    /\ \A m, n \in pending : m.order = n.order => m = n

CourseInv == SagaInv /\ SagaOnCourse /\ CommandAtHand

-----------------------------------------------------------------------------
\* A saga moves to a step that can begin, or it is over: all is done and the
\* order decided.
MovesOn(s, new, order, ticket, charge) ==
    /\ new.failed = s.failed
    /\ \/ /\ new.request = s.request
          /\ StepDone(new, order, ticket, charge)
          /\ order \in {"Approved", "Rejected"}
       \/ new.request # s.request /\ StepBegun(new, order, ticket, charge)

\* When a step is done the next one has begun, and its command is sent; after
\* the last one nothing is.
LEMMA DoneLeadsOn ==
    ASSUME NEW s \in SagaRows, NEW order \in OrderStates,
           NEW ticket \in TicketStates, NEW charge \in Int,
           StepDone(s, order, ticket, charge)
    PROVE  MovesOn(s, Process(s, TRUE), order, ticket, charge)
<1> DEFINE new == Process(s, TRUE)
<1> SUFFICES MovesOn(s, new, order, ticket, charge)
  OBVIOUS
<1>1. s.current \in -1..5 /\ s.request \in Nat
  BY DEF SagaRows
<1>2. new = Advance(s)
  BY DEF Process
<1>3. new \in SagaRows
  BY ProcessType
<1> HIDE DEF new
<1>4. CASE ~s.compensating /\ s.current \in 1..4
  <2>1. s.current \in 0..4
    BY <1>4
  <2>2. Advance(s) = [s EXCEPT !.current = s.current + 1, !.request = s.request + 1]
    BY <1>4, <2>1, AdvanceForward
  <2>3. /\ new.current = s.current + 1 /\ new.request = s.request + 1
        /\ new.failed = s.failed /\ ~new.compensating
    BY <1>2, <1>4, <2>2 DEF SagaRows
  <2>4. StepBegun(new, order, ticket, charge)
    BY <1>3, <1>1, <1>4, <2>3 DEF StepDone, StepBegun, SagaRows
  <2>5. new.request # s.request
    BY <1>1, <2>3
  <2> QED BY <2>3, <2>4, <2>5 DEF MovesOn
<1>5. CASE \/ ~s.compensating /\ s.current = 5
           \/ s.compensating /\ s.current = 0
  <2>1. Advance(s) = [s EXCEPT !.ended = TRUE]
    <3>1. CASE ~s.compensating /\ s.current = 5
      BY <3>1, AdvanceForward
    <3>2. CASE s.compensating /\ s.current = 0
      <4>1. s.current \in -1..0
        BY <3>2
      <4> QED BY <3>2, <4>1, AdvanceBack
    <3> QED BY <1>5, <3>1, <3>2
  <2>2. /\ new.current = s.current /\ new.request = s.request
        /\ new.failed = s.failed /\ new.compensating = s.compensating
    BY <1>2, <2>1 DEF SagaRows
  <2>3. StepDone(new, order, ticket, charge)
    BY <1>3, <2>2 DEF StepDone, SagaRows
  <2>4. order \in {"Approved", "Rejected"}
    BY <1>5 DEF StepDone
  <2> QED BY <2>2, <2>3, <2>4 DEF MovesOn
<1>6. CASE s.compensating /\ s.current = 2
  <2>1. Advance(s) = [s EXCEPT !.current = 0, !.request = s.request + 1]
    <3>1. s.current \in 1..2
      BY <1>6
    <3> QED BY <1>6, <3>1, AdvanceBack
  <2>2. /\ new.current = 0 /\ new.request = s.request + 1
        /\ new.failed = s.failed /\ new.compensating
    BY <1>2, <1>6, <2>1 DEF SagaRows
  <2>3. StepBegun(new, order, ticket, charge)
    BY <1>3, <1>6, <2>2 DEF StepDone, StepBegun, SagaRows
  <2>4. new.request # s.request
    BY <1>1, <2>2
  <2> QED BY <2>2, <2>3, <2>4 DEF MovesOn
<1>7. \/ ~s.compensating /\ s.current \in 1..4
      \/ ~s.compensating /\ s.current = 5
      \/ s.compensating /\ s.current = 0
      \/ s.compensating /\ s.current = 2
  BY DEF StepDone
<1> QED BY <1>4, <1>5, <1>6, <1>7

\* A step that is refused going forward turns the saga, and the compensation
\* it begins finds what it undoes.
LEMMA RefusalTurns ==
    ASSUME NEW s \in SagaRows, NEW order \in OrderStates,
           NEW ticket \in TicketStates, NEW charge \in Int,
           StepBegun(s, order, ticket, charge),
           ~s.compensating, s.current \in 1..3
    PROVE  MovesOn(s, Process(s, FALSE), order, ticket, charge)
<1> DEFINE turned == [s EXCEPT !.compensating = TRUE]
           new    == Process(s, FALSE)
<1> SUFFICES MovesOn(s, new, order, ticket, charge)
  OBVIOUS
<1>1. /\ turned \in SagaRows /\ turned.compensating
      /\ turned.current = s.current /\ turned.request = s.request
      /\ turned.failed = s.failed /\ s.request \in Nat
  BY DEF SagaRows
<1>2. new = Advance(turned)
  BY DEF Process
<1>3. new \in SagaRows
  BY ProcessType
<1> HIDE DEF turned, new
<1>4. CASE s.current = 3
  <2>1. Advance(turned) = [turned EXCEPT !.current = 2, !.request = turned.request + 1]
    BY <1>1, <1>4, AdvanceBack
  <2>2. /\ new.current = 2 /\ new.request = s.request + 1
        /\ new.compensating /\ new.failed = s.failed
    BY <1>1, <1>2, <2>1 DEF SagaRows
  <2>3. StepBegun(new, order, ticket, charge)
    BY <1>3, <1>4, <2>2 DEF StepBegun, SagaRows
  <2>4. new.request # s.request
    BY <1>1, <2>2
  <2> QED BY <2>2, <2>3, <2>4 DEF MovesOn
<1>5. CASE s.current \in 1..2
  <2>1. Advance(turned) = [turned EXCEPT !.current = 0, !.request = turned.request + 1]
    BY <1>1, <1>5, AdvanceBack
  <2>2. /\ new.current = 0 /\ new.request = s.request + 1
        /\ new.compensating /\ new.failed = s.failed
    BY <1>1, <1>2, <2>1 DEF SagaRows
  <2>3. StepBegun(new, order, ticket, charge)
    BY <1>3, <1>5, <2>2 DEF StepBegun, SagaRows
  <2>4. new.request # s.request
    BY <1>1, <2>2
  <2> QED BY <2>2, <2>3, <2>4 DEF MovesOn
<1>6. s.current = 3 \/ s.current \in 1..2
  OBVIOUS
<1> QED BY <1>4, <1>5, <1>6

\* What a command in flight finds: the world before its step.
LEMMA CommandFinds ==
    ASSUME NEW s \in SagaRows, NEW order \in OrderStates,
           NEW ticket \in TicketStates, NEW charge \in Int,
           StepBegun(s, order, ticket, charge)
    PROVE  LET type == ActionAt(s, s.current)
           IN  /\ type \in CommandTypes \ {"Deposit"}
               /\ type = "ValidateOrder" <=> ~s.compensating /\ s.current = 1
               /\ type = "CreateTicket" <=> ~s.compensating /\ s.current = 2
               /\ type = "Withdraw" <=> ~s.compensating /\ s.current = 3
               /\ type = "ConfirmTicket" <=> ~s.compensating /\ s.current = 4
               /\ type = "ApproveOrder" <=> ~s.compensating /\ s.current = 5
               /\ type = "CancelTicket" <=> s.compensating /\ s.current = 2
               /\ type = "RejectOrder" <=> s.compensating /\ s.current = 0
<1>1. CASE ~s.compensating
  <2>1. s.current \in 1..5
    BY <1>1 DEF StepBegun, SagaRows
  <2> QED BY <1>1, <2>1 DEF ActionAt, Invoke, Steps, CommandTypes
<1>2. CASE s.compensating
  <2>1. s.current \in {0, 2}
    BY <1>2 DEF StepBegun, SagaRows
  <2> QED BY <1>2, <2>1 DEF ActionAt, Compensate, Steps, CommandTypes
<1>3. s.compensating \in BOOLEAN
  BY DEF SagaRows
<1> QED BY <1>1, <1>2, <1>3

-----------------------------------------------------------------------------
\* What SagaInv says of the variables the tables are about.
LEMMA CourseTypes ==
    ASSUME SagaInv
    PROVE  /\ MessagesTypeOK
           /\ sagas \in [Orders -> SagaRows]
           /\ orders \in [Orders -> OrderStates]
           /\ tickets \in [Orders -> TicketStates]
           /\ charged \in [Orders -> Int]
           /\ operations \in [Processes -> Operations \cup {NoOperation}]
           /\ \A m \in pending :
                 m \in Messages /\ m.order \in Orders /\ m.ok \in BOOLEAN
<1>1. MessagesTypeOK /\ AccountingTypeOK /\ OrderTypeOK /\ KitchenTypeOK
  BY DEF SagaInv, AccountingInv, OrderInv, KitchenInv
<1>2. \A m \in Messages : m.order \in Orders /\ m.ok \in BOOLEAN
  BY DEF Messages
<1> QED
  BY <1>1, <1>2 DEF MessagesTypeOK, AccountingTypeOK, OrderTypeOK, KitchenTypeOK

\* The step leaves what the tables tell apart of an order: the kitchen may
\* go on with a confirmed ticket.
SameWorld(o) ==
    /\ sagas'[o] = sagas[o]
    /\ orders'[o] = orders[o]
    /\ charged'[o] = charged[o]
    /\ \/ tickets'[o] = tickets[o]
       \/ {tickets[o], tickets'[o]} \subseteq ConfirmedStates

\* Neither an order nor its messages then leave the table.
LEMMA SameCourse ==
    ASSUME NEW o, SameWorld(o)
    PROVE  /\ OrderOnCourse(o) => OrderOnCourse(o)'
           /\ Begun(o) => Begun(o)'
           /\ Done(o) => Done(o)'
<1>1. ASSUME tickets'[o] = tickets[o]
      PROVE  /\ Begun(o) => Begun(o)'
             /\ Done(o) => Done(o)'
             /\ Untouched(o) => Untouched(o)'
  BY <1>1 DEF SameWorld, Begun, Done, Untouched
<1>2. ASSUME tickets[o] \in ConfirmedStates, tickets'[o] \in ConfirmedStates
      PROVE  /\ Begun(o) => Begun(o)'
             /\ Done(o) => Done(o)'
             /\ Untouched(o) => Untouched(o)'
  <2>1. /\ tickets[o] \notin {"None", "CreatePending", "Cancelled"}
        /\ tickets'[o] \notin {"None", "CreatePending", "Cancelled"}
    BY <1>2 DEF ConfirmedStates
  <2>2. Begun(o) => Begun(o)'
    BY <1>2, <2>1 DEF SameWorld, Begun, StepBegun
  <2>3. Done(o) => Done(o)'
    BY <1>2, <2>1 DEF SameWorld, Done, StepDone
  <2>4. ~Untouched(o)
    BY <2>1 DEF Untouched
  <2> QED BY <2>2, <2>3, <2>4
<1>3. /\ Begun(o) => Begun(o)'
      /\ Done(o) => Done(o)'
      /\ Untouched(o) => Untouched(o)'
  BY <1>1, <1>2 DEF SameWorld
<1> QED BY <1>3 DEF OrderOnCourse, SameWorld

LEMMA SameMessage ==
    ASSUME NEW m, SameWorld(m.order), MessageOnCourse(m)
    PROVE  MessageOnCourse(m)'
<1>1. /\ Begun(m.order) => Begun(m.order)'
      /\ Done(m.order) => Done(m.order)'
  BY SameCourse
<1>2. sagas'[m.order] = sagas[m.order]
  BY DEF SameWorld
<1> QED BY <1>1, <1>2 DEF MessageOnCourse

\* A step that sends nothing and leaves all worlds as they were.
LEMMA QuietCourse ==
    ASSUME SagaInv, SagaOnCourse, pending' \subseteq pending,
           \A o \in Orders : SameWorld(o)
    PROVE  SagaOnCourse'
<1>1. \A o \in Orders : OrderOnCourse(o)'
  BY SameCourse DEF SagaOnCourse
<1>2. \A m \in pending' : MessageOnCourse(m)'
  BY SameMessage, CourseTypes DEF SagaOnCourse
<1>3. \A m, n \in pending' : m.order = n.order => m = n
  BY DEF SagaOnCourse
<1> QED BY <1>1, <1>2, <1>3 DEF SagaOnCourse

\* A step that changes the world of one order alone, takes the messages about
\* it, and sends at most one.
LEMMA OneOrderMoves ==
    ASSUME SagaInv, SagaOnCourse, NEW p \in Orders,
           NEW rest \in SUBSET pending, NEW out, pending' = rest \cup out,
           \A n \in rest : n.order # p,
           \A o \in Orders \ {p} : SameWorld(o),
           OrderOnCourse(p)',
           \A n \in out : n.order = p /\ MessageOnCourse(n)',
           \A k, n \in out : k = n
    PROVE  SagaOnCourse'
<1>1. \A n \in rest : n.order \in Orders \ {p}
  BY CourseTypes
<1>2. \A o \in Orders : OrderOnCourse(o)'
  <2> SUFFICES ASSUME NEW o \in Orders, o # p PROVE OrderOnCourse(o)'
    OBVIOUS
  <2> QED BY SameCourse DEF SagaOnCourse
<1>3. \A n \in pending' : MessageOnCourse(n)'
  <2> SUFFICES ASSUME NEW n \in rest PROVE MessageOnCourse(n)'
    OBVIOUS
  <2>1. SameWorld(n.order) /\ MessageOnCourse(n)
    BY <1>1 DEF SagaOnCourse
  <2> QED BY <2>1, SameMessage
<1>4. \A k, n \in pending' : k.order = n.order => k = n
  BY <1>1 DEF SagaOnCourse
<1> QED BY <1>2, <1>3, <1>4 DEF SagaOnCourse

\* A handler that answers its command by what it did.
LEMMA AnswerCourse ==
    ASSUME SagaInv, SagaOnCourse, NEW m \in pending,
           NEW ok \in BOOLEAN, NEW body \in BOOLEAN,
           pending' = (pending \ {m}) \cup {ReplyTo(m, ok, body)},
           sagas' = sagas,
           \A o \in Orders \ {m.order} : SameWorld(o),
           \/ /\ ok /\ Done(m.order)'
              /\ ~sagas[m.order].compensating /\ sagas[m.order].current = TicketStep
                    => body
           \/ /\ ~ok /\ Begun(m.order)'
              /\ ~sagas[m.order].compensating /\ sagas[m.order].current \in 1..3
    PROVE  SagaOnCourse'
<1> DEFINE r == ReplyTo(m, ok, body)
<1>1. /\ r.order = m.order /\ r.request = m.request /\ r.type = "Reply"
      /\ r.ok = ok /\ r.body = body
  BY DEF ReplyTo
<1>2. OrderOnCourse(m.order) /\ MessageOnCourse(m)
  BY CourseTypes DEF SagaOnCourse
<1>3. OrderOnCourse(m.order)'
  BY <1>2 DEF OrderOnCourse
<1>4. m.request = sagas[m.order].request
  BY <1>2 DEF MessageOnCourse
<1> HIDE DEF r
<1>5. MessageOnCourse(r)'
  <2>1. CASE ok
    BY <1>1, <1>4, <2>1, Zenon DEF MessageOnCourse
  <2>2. CASE ~ok
    <3>1. /\ Begun(m.order)' /\ ~sagas'[m.order].compensating
          /\ sagas'[m.order].current \in 1..3
      BY <2>2
    <3>2. /\ Begun(r.order)' /\ ~sagas'[r.order].compensating
          /\ sagas'[r.order].current \in 1..3
      BY <1>1, <3>1
    <3>3. r.request = sagas'[r.order].request /\ r.type = "Reply" /\ ~r.ok
      BY <1>1, <1>4, <2>2
    <3> QED BY <3>2, <3>3 DEF MessageOnCourse
  <2> QED BY <2>1, <2>2
<1> DEFINE out == {r}
<1>6. /\ \A n \in out : n.order = m.order /\ MessageOnCourse(n)'
      /\ \A k, n \in out : k = n
  BY <1>1, <1>5
<1>7. pending' = (pending \ {m}) \cup out
  BY DEF r
<1>8. /\ m.order \in Orders /\ pending \ {m} \in SUBSET pending
      /\ \A n \in pending \ {m} : n.order # m.order
  BY CourseTypes DEF SagaOnCourse
<1> HIDE DEF out
<1> QED BY <1>3, <1>6, <1>7, <1>8, OneOrderMoves

-----------------------------------------------------------------------------
\* What a step does for the promise to whoever orders.
Promised == [Outcome!Next]_<<orders, charged>>

CourseStep == SagaOnCourse' /\ CommandAtHand' /\ Promised

\* The world a command in flight finds, by its type.
LEMMA CommandWorld ==
    ASSUME CourseInv, NEW m \in pending, m.type # "Reply"
    PROVE  /\ orders[m.order] = "ApprovalPending"
           /\ m.type # "Deposit"
           /\ m.type = "ValidateOrder" =>
                /\ tickets[m.order] = "None" /\ charged[m.order] = 0
                /\ ~sagas[m.order].compensating /\ sagas[m.order].current = 1
           /\ m.type = "CreateTicket" =>
                /\ tickets[m.order] = "None" /\ charged[m.order] = 0
                /\ ~sagas[m.order].compensating /\ sagas[m.order].current = 2
           /\ m.type = "Withdraw" =>
                /\ tickets[m.order] = "CreatePending" /\ charged[m.order] = 0
                /\ ~sagas[m.order].compensating /\ sagas[m.order].current = 3
           /\ m.type = "ConfirmTicket" =>
                /\ tickets[m.order] = "CreatePending" /\ charged[m.order] = 1
                /\ ~sagas[m.order].compensating /\ sagas[m.order].current = 4
           /\ m.type = "ApproveOrder" =>
                /\ tickets[m.order] \in ConfirmedStates /\ charged[m.order] = 1
                /\ ~sagas[m.order].compensating /\ sagas[m.order].current = 5
           /\ m.type = "CancelTicket" =>
                /\ tickets[m.order] = "CreatePending" /\ charged[m.order] = 0
                /\ sagas[m.order].compensating /\ sagas[m.order].current = 2
           /\ m.type = "RejectOrder" =>
                /\ tickets[m.order] \in {"None", "Cancelled"}
                /\ charged[m.order] = 0
                /\ sagas[m.order].compensating /\ sagas[m.order].current = 0
<1> DEFINE s == sagas[m.order]
<1>1. Begun(m.order) /\ m.type = ActionAt(s, s.current)
  BY DEF CourseInv, SagaOnCourse, MessageOnCourse
<1>2. /\ s \in SagaRows /\ orders[m.order] \in OrderStates
      /\ tickets[m.order] \in TicketStates /\ charged[m.order] \in Int
  BY CourseTypes DEF CourseInv
<1>3. StepBegun(s, orders[m.order], tickets[m.order], charged[m.order])
  BY <1>1 DEF Begun
<1> HIDE DEF s
<1>4. /\ m.type # "Deposit"
      /\ m.type = "ValidateOrder" => ~s.compensating /\ s.current = 1
      /\ m.type = "CreateTicket" => ~s.compensating /\ s.current = 2
      /\ m.type = "Withdraw" => ~s.compensating /\ s.current = 3
      /\ m.type = "ConfirmTicket" => ~s.compensating /\ s.current = 4
      /\ m.type = "ApproveOrder" => ~s.compensating /\ s.current = 5
      /\ m.type = "CancelTicket" => s.compensating /\ s.current = 2
      /\ m.type = "RejectOrder" => s.compensating /\ s.current = 0
  <2> DEFINE type == ActionAt(s, s.current)
  <2>1. /\ type \in CommandTypes \ {"Deposit"}
        /\ type = "ValidateOrder" <=> ~s.compensating /\ s.current = 1
        /\ type = "CreateTicket" <=> ~s.compensating /\ s.current = 2
        /\ type = "Withdraw" <=> ~s.compensating /\ s.current = 3
        /\ type = "ConfirmTicket" <=> ~s.compensating /\ s.current = 4
        /\ type = "ApproveOrder" <=> ~s.compensating /\ s.current = 5
        /\ type = "CancelTicket" <=> s.compensating /\ s.current = 2
        /\ type = "RejectOrder" <=> s.compensating /\ s.current = 0
    BY <1>2, <1>3, CommandFinds
  <2> HIDE DEF type
  <2>2. m.type = type
    BY <1>1 DEF type
  <2> QED BY <2>1, <2>2
<1>5. orders[m.order] = "ApprovalPending"
  BY <1>3 DEF StepBegun
<1>6. /\ ~s.compensating /\ s.current \in {1, 2} =>
            tickets[m.order] = "None" /\ charged[m.order] = 0
      /\ ~s.compensating /\ s.current = 3 =>
            tickets[m.order] = "CreatePending" /\ charged[m.order] = 0
      /\ ~s.compensating /\ s.current = 4 =>
            tickets[m.order] = "CreatePending" /\ charged[m.order] = 1
      /\ ~s.compensating /\ s.current = 5 =>
            tickets[m.order] \in ConfirmedStates /\ charged[m.order] = 1
      /\ s.compensating /\ s.current = 2 =>
            tickets[m.order] = "CreatePending" /\ charged[m.order] = 0
      /\ s.compensating /\ s.current = 0 =>
            tickets[m.order] \in {"None", "Cancelled"} /\ charged[m.order] = 0
  BY <1>2, <1>3 DEF StepBegun, SagaRows
<1> QED BY <1>4, <1>5, <1>6 DEF s

\* The accounting consumer keeps hold of its command while other services
\* take messages that are not for it.
LEMMA HandStays ==
    ASSUME CommandAtHand, UNCHANGED operations,
           \A n \in pending :
               n.type \in {"Withdraw", "Deposit"} => n \in pending'
    PROVE  CommandAtHand'
BY DEF CommandAtHand

\* A step that sends nothing, takes no operation up, and goes on at most with
\* confirmed tickets.
LEMMA QuietStep ==
    ASSUME CourseInv, UNCHANGED <<pending, sagas, orders, charged, operations>>,
           \A o \in Orders :
               \/ tickets'[o] = tickets[o]
               \/ {tickets[o], tickets'[o]} \subseteq ConfirmedStates
    PROVE  CourseStep
<1>1. \A o \in Orders : SameWorld(o)
  BY DEF SameWorld
<1>2. SagaOnCourse'
  BY <1>1, QuietCourse DEF CourseInv
<1>3. CommandAtHand'
  BY HandStays DEF CourseInv
<1>4. Promised
  BY DEF Promised
<1> QED BY <1>2, <1>3, <1>4 DEF CourseStep

\* The answer of a service other than accounting.
LEMMA AnswerStep ==
    ASSUME MaxRedeliveries = 0, CourseInv, NEW m \in pending,
           m.type \notin {"Withdraw", "Deposit"},
           NEW up, NEW ok \in BOOLEAN, NEW body \in BOOLEAN,
           Consume(up, m, {ReplyTo(m, ok, body)}),
           UNCHANGED <<sagas, operations>>,
           \A o \in Orders \ {m.order} : SameWorld(o),
           \/ /\ ok /\ Done(m.order)'
              /\ ~sagas[m.order].compensating /\ sagas[m.order].current = TicketStep
                    => body
           \/ /\ ~ok /\ Begun(m.order)'
              /\ ~sagas[m.order].compensating /\ sagas[m.order].current \in 1..3
    PROVE  SagaOnCourse' /\ CommandAtHand'
<1> DEFINE out == {ReplyTo(m, ok, body)}
<1>1. pending' = (pending \ {m}) \cup out
  <2>1. Consume(up, m, out) /\ MessagesTypeOK
    BY CourseTypes DEF CourseInv
  <2> HIDE DEF out
  <2> QED BY <2>1, ConsumeOnce
<1>2. SagaOnCourse'
  BY <1>1, AnswerCourse DEF CourseInv
<1>3. \A n \in pending : n.type \in {"Withdraw", "Deposit"} => n \in pending'
  BY <1>1
<1>4. CommandAtHand'
  BY <1>3, HandStays DEF CourseInv
<1> QED BY <1>2, <1>4

-----------------------------------------------------------------------------
\* The consumer service answers, and nothing else.
LEMMA ValidateCourse ==
    ASSUME MaxRedeliveries = 0, CourseInv, NEW m \in pending,
           HandleValidateOrder(m),
           UNCHANGED <<orderVars, kitchenVars, accountingVars>>
    PROVE  CourseStep
<1> DEFINE ok == KnownConsumer(ConsumerOf[m.order])
<1>1. /\ m.type = "ValidateOrder"
      /\ Consume(TRUE, m, {ReplyTo(m, ok, FALSE)})
  BY DEF HandleValidateOrder
<1>2. UNCHANGED <<sagas, orders, charged, operations, tickets>>
  BY DEF orderVars, kitchenVars, accountingVars
<1>3. /\ orders[m.order] = "ApprovalPending"
      /\ tickets[m.order] = "None" /\ charged[m.order] = 0
      /\ ~sagas[m.order].compensating /\ sagas[m.order].current = 1
  BY <1>1, CommandWorld
<1>4. Begun(m.order)' /\ Done(m.order)'
  BY <1>2, <1>3 DEF Begun, StepBegun, Done, StepDone
<1>5. \A o \in Orders : SameWorld(o)
  BY <1>2 DEF SameWorld
<1>6. ok \in BOOLEAN
  BY DEF KnownConsumer
<1>7. sagas[m.order].current # TicketStep /\ sagas[m.order].current \in 1..3
  BY <1>3 DEF TicketStep
<1>8. m.type \notin {"Withdraw", "Deposit"}
  BY <1>1
<1> HIDE DEF ok
<1>9. SagaOnCourse' /\ CommandAtHand'
  BY <1>1, <1>2, <1>3, <1>4, <1>5, <1>6, <1>7, <1>8, AnswerStep
<1>10. Promised
  BY <1>2 DEF Promised
<1> QED BY <1>9, <1>10 DEF CourseStep

\* The kitchen inserts, confirms and cancels what the saga's step expects.
LEMMA KitchenCommandCourse ==
    ASSUME MaxRedeliveries = 0, CourseInv, NEW m \in pending,
           \/ HandleCreateTicket(m)
           \/ HandleConfirmTicket(m)
           \/ HandleCancelTicket(m),
           UNCHANGED <<orderVars, consumerVars, accountingVars>>
    PROVE  CourseStep
<1>1. UNCHANGED <<sagas, orders, charged, operations>>
  BY DEF orderVars, accountingVars
<1>2. m.order \in Orders /\ tickets \in [Orders -> TicketStates]
  BY CourseTypes DEF CourseInv
<1>3. ASSUME NEW state, tickets' = [tickets EXCEPT ![m.order] = state]
      PROVE  /\ tickets'[m.order] = state
             /\ \A o \in Orders \ {m.order} : SameWorld(o)
  BY <1>1, <1>2, <1>3 DEF SameWorld
<1>4. Promised
  BY <1>1 DEF Promised
<1>5. CASE HandleCreateTicket(m)
  <2>1. /\ orders[m.order] = "ApprovalPending"
        /\ tickets[m.order] = "None" /\ charged[m.order] = 0
        /\ ~sagas[m.order].compensating /\ sagas[m.order].current = 2
        /\ m.type = "CreateTicket"
    BY <1>5, CommandWorld DEF HandleCreateTicket
  <2>2. sagas[m.order].current \in 1..3 /\ m.type \notin {"Withdraw", "Deposit"}
    BY <2>1
  <2>3. CASE CreateTicketRefused(m)
    <3>1. /\ Consume(kitchenUp, m, {ReplyTo(m, FALSE, FALSE)})
          /\ tickets' = tickets
      BY <2>3 DEF CreateTicketRefused, kitchenVars
    <3>2. Begun(m.order)'
      BY <1>1, <2>1, <3>1 DEF Begun, StepBegun
    <3>3. \A o \in Orders : SameWorld(o)
      BY <1>1, <3>1 DEF SameWorld
    <3>4. SagaOnCourse' /\ CommandAtHand'
      BY <1>1, <2>1, <2>2, <3>1, <3>2, <3>3, AnswerStep
    <3> QED BY <1>4, <3>4 DEF CourseStep
  <2>4. CASE CreateTicketInserts(m)
    <3>1. /\ Consume(kitchenUp, m, {ReplyTo(m, TRUE, TRUE)})
          /\ tickets' = [tickets EXCEPT ![m.order] = "CreatePending"]
      BY <2>4 DEF CreateTicketInserts, SetTicket
    <3>2. /\ tickets'[m.order] = "CreatePending"
          /\ \A o \in Orders \ {m.order} : SameWorld(o)
      BY <1>3, <3>1
    <3>3. Done(m.order)'
      BY <1>1, <2>1, <3>2 DEF Done, StepDone
    <3>4. SagaOnCourse' /\ CommandAtHand'
      BY <1>1, <2>2, <3>1, <3>2, <3>3, AnswerStep
    <3> QED BY <1>4, <3>4 DEF CourseStep
  <2>5. CASE CreateTicketPanics(m)
    <3>1. UNCHANGED <<pending, tickets>>
      BY <2>5 DEF CreateTicketPanics, messageVars
    <3> QED BY <1>1, <3>1, QuietStep
  <2> QED BY <1>5, <2>3, <2>4, <2>5 DEF HandleCreateTicket
<1>6. CASE HandleConfirmTicket(m)
  <2>1. /\ orders[m.order] = "ApprovalPending"
        /\ tickets[m.order] = "CreatePending" /\ charged[m.order] = 1
        /\ ~sagas[m.order].compensating /\ sagas[m.order].current = 4
        /\ m.type \notin {"Withdraw", "Deposit"}
    BY <1>6, CommandWorld DEF HandleConfirmTicket
  <2>2. /\ Consume(kitchenUp, m, {ReplyTo(m, TRUE, FALSE)})
        /\ tickets' = [tickets EXCEPT ![m.order] = "AwaitingAcceptance"]
    BY <1>6, <2>1 DEF HandleConfirmTicket, ConfirmWrites, ConfirmSucceeds, SetTicket
  <2>3. /\ tickets'[m.order] = "AwaitingAcceptance"
        /\ \A o \in Orders \ {m.order} : SameWorld(o)
    BY <1>3, <2>2
  <2>4. Done(m.order)'
    BY <1>1, <2>1, <2>3 DEF Done, StepDone, ConfirmedStates
  <2>5. sagas[m.order].current # TicketStep
    BY <2>1 DEF TicketStep
  <2>6. SagaOnCourse' /\ CommandAtHand'
    BY <1>1, <2>1, <2>2, <2>3, <2>4, <2>5, AnswerStep
  <2> QED BY <1>4, <2>6 DEF CourseStep
<1>7. CASE HandleCancelTicket(m)
  <2>1. /\ orders[m.order] = "ApprovalPending"
        /\ tickets[m.order] = "CreatePending" /\ charged[m.order] = 0
        /\ sagas[m.order].compensating /\ sagas[m.order].current = 2
        /\ m.type \notin {"Withdraw", "Deposit"}
    BY <1>7, CommandWorld DEF HandleCancelTicket
  <2>2. /\ Consume(kitchenUp, m, {ReplyTo(m, TRUE, FALSE)})
        /\ tickets' = [tickets EXCEPT ![m.order] = "Cancelled"]
    BY <1>7, <2>1 DEF HandleCancelTicket, CancelWrites, SetTicket
  <2>3. /\ tickets'[m.order] = "Cancelled"
        /\ \A o \in Orders \ {m.order} : SameWorld(o)
    BY <1>3, <2>2
  <2>4. Done(m.order)'
    BY <1>1, <2>1, <2>3 DEF Done, StepDone
  <2>5. SagaOnCourse' /\ CommandAtHand'
    BY <1>1, <2>1, <2>2, <2>3, <2>4, AnswerStep
  <2> QED BY <1>4, <2>5 DEF CourseStep
<1> QED BY <1>5, <1>6, <1>7

\* A gRPC call of the kitchen is on a confirmed ticket, and leaves it so.
LEMMA KitchenRpcCourse ==
    ASSUME CourseInv, KitchenRpcNext,
           UNCHANGED <<orderVars, consumerVars, accountingVars>>
    PROVE  CourseStep
<1>1. UNCHANGED <<sagas, orders, charged, operations, pending>>
  BY DEF orderVars, accountingVars, KitchenRpcNext, CallReads, CallWrites, messageVars
<1>2. ASSUME NEW k \in KitchenRpcs, CallWrites(k), NEW o \in Orders
      PROVE  \/ tickets'[o] = tickets[o]
             \/ {tickets[o], tickets'[o]} \subseteq ConfirmedStates
  <2> DEFINE call == kitchenCalls[k]
  <2>1. /\ call # NoCall
        /\ tickets' = [tickets EXCEPT ![call.ticket] = call.target]
    BY <1>2 DEF CallWrites, SetTicket
  <2>2. KitchenTypeOK /\ CallsOnTickets
    BY DEF CourseInv, SagaInv, KitchenInv
  <2>3. call \in Calls /\ tickets \in [Orders -> TicketStates]
    BY <2>1, <2>2 DEF KitchenTypeOK
  <2>4. tickets[call.ticket] \in ConfirmedStates
    BY <2>1, <2>2 DEF CallsOnTickets
  <2>5. call.ticket \in Orders /\ call.target \in ConfirmedStates
    BY <2>3 DEF Calls, ConfirmedStates
  <2> HIDE DEF call
  <2> QED BY <2>1, <2>3, <2>4, <2>5
<1>3. ASSUME NEW k \in KitchenRpcs, NEW p \in Orders, CallReads(k, p)
      PROVE  tickets' = tickets
  BY <1>3 DEF CallReads
<1> QED BY <1>1, <1>2, <1>3, QuietStep DEF KitchenRpcNext

-----------------------------------------------------------------------------
\* Where a saga has moved on with the world as it was, its order is on course
\* and the command it sends fits.
LEMMA MovedCourse ==
    ASSUME SagaInv, SagaOnCourse, NEW o \in Orders, NEW s, NEW new \in SagaRows,
           NEW rest \in SUBSET pending, NEW out,
           ~s.failed,
           out = CommandsOf(o, s, new),
           sagas' = [sagas EXCEPT ![o] = new],
           MovesOn(s, new, orders'[o], tickets'[o], charged'[o]),
           \A n \in rest : n.order # o,
           pending' = rest \cup out,
           \A p \in Orders \ {o} :
               /\ orders'[p] = orders[p] /\ tickets'[p] = tickets[p]
               /\ charged'[p] = charged[p]
    PROVE  SagaOnCourse'
<1>1. sagas \in [Orders -> SagaRows]
  BY CourseTypes
<1>2. sagas'[o] = new /\ \A p \in Orders \ {o} : sagas'[p] = sagas[p]
  BY <1>1
<1>3. \A p \in Orders \ {o} : SameWorld(p)
  BY <1>2 DEF SameWorld
<1>4. ~new.failed
  BY DEF MovesOn
<1>5. OrderOnCourse(o)'
  BY <1>2, <1>4 DEF MovesOn, OrderOnCourse, Begun, Done
<1>6. /\ \A n \in out : n.order = o /\ MessageOnCourse(n)'
      /\ \A k, n \in out : k = n
  <2> DEFINE c == Command(o, new.request, ActionAt(new, new.current))
  <2>1. CASE new.request = s.request
    <3>1. out = {}
      BY <2>1 DEF CommandsOf
    <3> QED BY <3>1
  <2>2. CASE new.request # s.request
    <3>1. out = {c}
      BY <2>2 DEF CommandsOf
    <3>2. /\ c.order = o /\ c.request = new.request
          /\ c.type = ActionAt(new, new.current)
      BY DEF Command
    <3>3. Begun(o)'
      BY <1>2, <2>2 DEF MovesOn, Begun
    <3> HIDE DEF c
    <3>4. MessageOnCourse(c)'
      BY <1>2, <3>2, <3>3 DEF MessageOnCourse
    <3> QED BY <3>1, <3>2, <3>4
  <2> QED BY <2>1, <2>2
<1> QED BY <1>3, <1>5, <1>6, OneOrderMoves

\* A reply says what has become of the step, and the saga goes on from there.
LEMMA ReplyMovesOn ==
    ASSUME CourseInv, NEW m \in pending, m.type = "Reply"
    PROVE  LET s == sagas[m.order]
           IN  MovesOn(s, Process(s, m.ok), orders[m.order], tickets[m.order],
                       charged[m.order])
<1> DEFINE o == m.order
           s == sagas[o]
           new == Process(s, m.ok)
<1> SUFFICES MovesOn(s, new, orders[o], tickets[o], charged[o])
  OBVIOUS
<1>1. m.type = "Reply"
  OBVIOUS
<1>2. /\ o \in Orders /\ m.ok \in BOOLEAN /\ s \in SagaRows
      /\ orders[o] \in OrderStates /\ tickets[o] \in TicketStates
      /\ charged[o] \in Int
  BY CourseTypes DEF CourseInv
<1>3. MessageOnCourse(m)
  BY DEF CourseInv, SagaOnCourse
<1>4. CASE m.ok
  <2>1. Done(o)
    <3>1. "Reply" \notin CommandTypes
      BY DEF CommandTypes
    <3>2. Begun(o) => ActionAt(s, s.current) \in CommandTypes
      BY <1>2, CommandFinds DEF Begun
    <3> QED BY <1>1, <1>3, <1>4, <3>1, <3>2 DEF MessageOnCourse
  <2>2. StepDone(s, orders[o], tickets[o], charged[o])
    BY <2>1 DEF Done
  <2>3. m.ok = TRUE
    BY <1>2, <1>4
  <2> QED BY <1>2, <2>2, <2>3, DoneLeadsOn
<1>5. CASE ~m.ok
  <2>1. Begun(o) /\ ~s.compensating /\ s.current \in 1..3
    <3>1. "Reply" \notin CommandTypes
      BY DEF CommandTypes
    <3>2. Begun(o) => ActionAt(s, s.current) \in CommandTypes
      BY <1>2, CommandFinds DEF Begun
    <3> QED BY <1>1, <1>3, <1>5, <3>1, <3>2 DEF MessageOnCourse
  <2>2. StepBegun(s, orders[o], tickets[o], charged[o])
    BY <2>1 DEF Begun
  <2>3. m.ok = FALSE
    BY <1>2, <1>5
  <2> QED BY <1>2, <2>1, <2>2, <2>3, RefusalTurns
<1> QED BY <1>4, <1>5

\* handle_reply: a reply says what has become of the step (saga/mod.rs:88-180).
LEMMA HandleReplyCourse ==
    ASSUME MaxRedeliveries = 0, CourseInv, NEW m \in pending, HandleReply(m),
           UNCHANGED <<consumerVars, kitchenVars, accountingVars>>
    PROVE  CourseStep
<1> DEFINE o == m.order
           s == sagas[o]
           new == Process(s, m.ok)
           out == CommandsOf(o, s, new)
<1>1. /\ m.type = "Reply"
      /\ sagas' = [sagas EXCEPT ![o] = new]
      /\ Consume(orderUp, m, out)
  BY DEF HandleReply
<1>2. UNCHANGED <<orders, charged, operations, tickets>>
  BY DEF HandleReply, kitchenVars, accountingVars
<1>3. /\ o \in Orders /\ m.ok \in BOOLEAN /\ s \in SagaRows
      /\ orders[o] \in OrderStates /\ tickets[o] \in TicketStates
      /\ charged[o] \in Int /\ MessagesTypeOK
  BY CourseTypes DEF CourseInv
<1>4. new \in SagaRows
  BY <1>3, ProcessType
<1>5. ~s.failed
  BY <1>3 DEF CourseInv, SagaOnCourse, OrderOnCourse
<1>6. MovesOn(s, new, orders[o], tickets[o], charged[o])
  BY <1>1, ReplyMovesOn
<1> HIDE DEF o, s, new
<1>7. pending' = (pending \ {m}) \cup out
  <2>1. Consume(orderUp, m, out)
    BY <1>1
  <2> HIDE DEF out
  <2> QED BY <1>3, <2>1, ConsumeOnce
<1>8. \A n \in pending \ {m} : n.order # o
  BY DEF CourseInv, SagaOnCourse, o
<1>9. SagaOnCourse'
  <2>1. MovesOn(s, new, orders'[o], tickets'[o], charged'[o])
    BY <1>2, <1>6
  <2>2. pending \ {m} \in SUBSET pending /\ SagaInv /\ SagaOnCourse
    BY DEF CourseInv
  <2> QED BY <1>1, <1>2, <1>3, <1>4, <1>5, <1>7, <1>8, <2>1, <2>2, MovedCourse
<1>10. CommandAtHand'
  <2>1. \A n \in pending : n.type \in {"Withdraw", "Deposit"} => n \in pending'
    BY <1>1, <1>7
  <2> QED BY <1>2, <2>1, HandStays DEF CourseInv
<1>11. Promised
  BY <1>2 DEF Promised
<1> QED BY <1>9, <1>10, <1>11 DEF CourseStep

\* create_order starts a saga in an untouched world (app/rpc.rs:60-147).
LEMMA CreateOrderCourse ==
    ASSUME CourseInv, NEW o \in Orders, CreateOrder(o),
           UNCHANGED <<consumerVars, kitchenVars, accountingVars>>
    PROVE  CourseStep
<1> DEFINE new == Process(NewSaga, TRUE)
           out == CommandsOf(o, NewSaga, new)
<1>1. /\ orders[o] = "None"
      /\ orders' = [orders EXCEPT ![o] = "ApprovalPending"]
      /\ sagas' = [sagas EXCEPT ![o] = new]
      /\ pending' = pending \cup out
  BY DEF CreateOrder
<1>2. UNCHANGED <<charged, operations, tickets>>
  BY DEF kitchenVars, accountingVars
<1>3. orders \in [Orders -> OrderStates] /\ \A m \in pending : orders[m.order] # "None"
  BY CourseTypes DEF CourseInv, SagaInv, MessagesOfOrders
<1>4. tickets[o] = "None" /\ charged[o] = 0
  <2>1. Untouched(o) \/ Begun(o) \/ Done(o)
    BY DEF CourseInv, SagaOnCourse, OrderOnCourse
  <2>2. ~Begun(o) /\ ~Done(o)
    BY <1>1 DEF Begun, StepBegun, Done, StepDone
  <2> QED BY <2>1, <2>2 DEF Untouched
<1>5. NewSaga \in SagaRows /\ ~NewSaga.compensating /\ NewSaga.current = -1
      /\ NewSaga.request = 0 /\ ~NewSaga.failed
  BY DEF NewSaga, SagaRows
<1>6. new \in SagaRows
  BY <1>5, ProcessType
<1>7. new = [NewSaga EXCEPT !.current = 1, !.request = NewSaga.request + 1]
  BY <1>5, AdvanceForward DEF Process
<1>8. /\ new.current = 1 /\ new.request = NewSaga.request + 1
      /\ ~new.compensating /\ new.failed = NewSaga.failed
  BY <1>5, <1>7 DEF SagaRows
<1> HIDE DEF new
<1>9. orders'[o] = "ApprovalPending" /\ \A p \in Orders \ {o} : orders'[p] = orders[p]
  BY <1>1, <1>3
<1>10. MovesOn(NewSaga, new, orders'[o], tickets'[o], charged'[o])
  <2>1. StepBegun(new, orders'[o], tickets'[o], charged'[o])
    BY <1>2, <1>4, <1>8, <1>9 DEF StepBegun
  <2>2. new.request # NewSaga.request /\ new.failed = NewSaga.failed
    BY <1>5, <1>8
  <2> QED BY <2>1, <2>2 DEF MovesOn
<1>11. SagaOnCourse'
  <2>1. pending \in SUBSET pending /\ SagaInv /\ SagaOnCourse
        /\ \A n \in pending : n.order # o
    BY <1>1, <1>3 DEF CourseInv
  <2> HIDE DEF out
  <2>2. out = CommandsOf(o, NewSaga, new)
    BY DEF out
  <2> QED BY <1>1, <1>2, <1>5, <1>6, <1>9, <1>10, <2>1, <2>2, MovedCourse
<1>12. CommandAtHand'
  BY <1>1, <1>2, HandStays DEF CourseInv
<1>13. Promised
  <2>1. Outcome!Place(o)
    BY <1>1, <1>2 DEF Outcome!Place, Outcome!Move
  <2> QED BY <2>1 DEF Promised, Outcome!Next
<1> QED BY <1>11, <1>12, <1>13 DEF CourseStep

\* Approve comes when the order is paid, Reject when it is not
\* (command_handlers.rs:16-64).
LEMMA OrderCommandCourse ==
    ASSUME MaxRedeliveries = 0, CourseInv, NEW m \in pending,
           HandleOrderCommand(m),
           UNCHANGED <<consumerVars, kitchenVars, accountingVars>>
    PROVE  CourseStep
<1> DEFINE o == m.order
           to == IF m.type = "ApproveOrder" THEN "Approved" ELSE "Rejected"
<1>1. /\ m.type \in {"ApproveOrder", "RejectOrder"}
      /\ UNCHANGED <<sagas, charged, operations, tickets>>
  BY DEF HandleOrderCommand, kitchenVars, accountingVars
<1>2. /\ orders[o] = "ApprovalPending"
      /\ m.type = "ApproveOrder" =>
            /\ tickets[o] \in ConfirmedStates /\ charged[o] = 1
            /\ ~sagas[o].compensating /\ sagas[o].current = 5
      /\ m.type = "RejectOrder" =>
            /\ tickets[o] \in {"None", "Cancelled"} /\ charged[o] = 0
            /\ sagas[o].compensating /\ sagas[o].current = 0
  BY <1>1, CommandWorld
<1>3. /\ orders' = [orders EXCEPT ![o] = to]
      /\ Consume(orderUp, m, {ReplyTo(m, TRUE, FALSE)})
  BY <1>2 DEF HandleOrderCommand, MayDecide
<1>4. o \in Orders /\ orders \in [Orders -> OrderStates]
  BY CourseTypes DEF CourseInv
<1> HIDE DEF o
<1>5. orders'[o] = to /\ \A p \in Orders \ {o} : SameWorld(p)
  BY <1>1, <1>3, <1>4 DEF SameWorld
<1>6. Done(o)'
  <2>1. CASE m.type = "ApproveOrder"
    BY <1>1, <1>2, <1>5, <2>1 DEF Done, StepDone
  <2>2. CASE m.type = "RejectOrder"
    BY <1>1, <1>2, <1>5, <2>2 DEF Done, StepDone
  <2> QED BY <1>1, <2>1, <2>2
<1>7. sagas[o].current # TicketStep \/ sagas[o].compensating
  BY <1>1, <1>2 DEF TicketStep
<1>8. SagaOnCourse' /\ CommandAtHand'
  <2>1. m.type \notin {"Withdraw", "Deposit"}
    BY <1>1
  <2> QED BY <1>1, <1>3, <1>5, <1>6, <1>7, <2>1, AnswerStep DEF o
<1>9. Promised
  <2>1. CASE m.type = "ApproveOrder"
    <3>1. Outcome!Approve(o)
      BY <1>1, <1>2, <1>3, <2>1 DEF Outcome!Approve, Outcome!Move
    <3> QED BY <1>4, <3>1 DEF Promised, Outcome!Next
  <2>2. CASE m.type = "RejectOrder"
    <3>1. Outcome!Reject(o)
      BY <1>1, <1>2, <1>3, <2>2 DEF Outcome!Reject, Outcome!Move
    <3> QED BY <1>4, <3>1 DEF Promised, Outcome!Next
  <2> QED BY <1>1, <2>1, <2>2
<1> QED BY <1>8, <1>9 DEF CourseStep

-----------------------------------------------------------------------------
\* The beginning of an operation: only the consumer takes up a command.
LEMMA StartCourse ==
    ASSUME CourseInv, NEW p \in Processes, NEW a, NEW kind, NEW amount, NEW m,
           Start(p, a, kind, amount, m),
           \/ m = NoMessage
           \/ /\ m \in pending /\ m.type \in {"Withdraw", "Deposit"}
              /\ p = KafkaConsumer,
           UNCHANGED <<orderVars, kitchenVars>>
    PROVE  CourseStep
<1> DEFINE succeed == Decide(kind, amount, balance[a])
           op == [account |-> a, last |-> LastOf(sequences[a]), kind |-> kind,
                  succeed |-> succeed,
                  delta |-> IF succeed THEN Delta(kind, amount) ELSE 0,
                  message |-> m]
<1>1. /\ UNCHANGED <<pending, sagas, orders, charged, tickets>>
      /\ operations' = [operations EXCEPT ![p] = op] /\ op.message = m
  BY DEF Start, orderVars, kitchenVars, messageVars
<1> HIDE DEF op
<1>2. \A q \in Processes :
         operations'[q] = IF q = p THEN op ELSE operations[q]
  BY <1>1, CourseTypes DEF CourseInv
<1>3. CommandAtHand'
  BY <1>1, <1>2 DEF CourseInv, CommandAtHand
<1>4. SagaOnCourse'
  BY <1>1, QuietCourse DEF CourseInv, SameWorld
<1>5. Promised
  BY <1>1 DEF Promised
<1> QED BY <1>3, <1>4, <1>5 DEF CourseStep

\* The end of an operation that answers no command.
LEMMA RpcEndsCourse ==
    ASSUME CourseInv, NEW p \in Processes, NEW out,
           operations[p].message = NoMessage, Finish(p, out),
           charged' = charged, UNCHANGED <<orderVars, kitchenVars>>
    PROVE  CourseStep
<1>1. /\ UNCHANGED <<pending, sagas, orders, charged, tickets>>
      /\ operations' = [operations EXCEPT ![p] = NoOperation]
  BY DEF Finish, orderVars, kitchenVars, messageVars
<1>2. \A q \in Processes :
         operations'[q] = IF q = p THEN NoOperation ELSE operations[q]
  BY <1>1, CourseTypes DEF CourseInv
<1>3. CommandAtHand'
  BY <1>1, <1>2 DEF CourseInv, CommandAtHand
<1>4. SagaOnCourse'
  BY <1>1, QuietCourse DEF CourseInv, SameWorld
<1>5. Promised
  BY <1>1 DEF Promised
<1> QED BY <1>3, <1>4, <1>5 DEF CourseStep

\* The end of the consumer's work on a command, which was a Withdraw of an
\* order not charged yet.
LEMMA CommandEndsCourse ==
    ASSUME MaxRedeliveries = 0, CourseInv,
           NEW p \in Processes, operations[p] # NoOperation,
           operations[p].message # NoMessage,
           NEW out, Finish(p, out)
    PROVE  LET m == operations[p].message
           IN  /\ m \in pending /\ m.type = "Withdraw"
               /\ orders[m.order] = "ApprovalPending"
               /\ tickets[m.order] = "CreatePending" /\ charged[m.order] = 0
               /\ ~sagas[m.order].compensating /\ sagas[m.order].current = 3
               /\ pending' = (pending \ {m}) \cup out
               /\ CommandAtHand'
<1> DEFINE m == operations[p].message
<1>1. /\ p = KafkaConsumer /\ m \in pending
      /\ m.type \in {"Withdraw", "Deposit"}
  BY DEF CourseInv, CommandAtHand
<1>2. /\ m.type = "Withdraw"
      /\ orders[m.order] = "ApprovalPending"
      /\ tickets[m.order] = "CreatePending" /\ charged[m.order] = 0
      /\ ~sagas[m.order].compensating /\ sagas[m.order].current = 3
  BY <1>1, CommandWorld
<1>3. pending' = (pending \ {m}) \cup out
  <2>1. Consume(stuckOn = NoConsumer, m, out) /\ MessagesTypeOK
    BY CourseTypes DEF Finish, CourseInv
  <2> QED BY <2>1, ConsumeOnce
<1>4. \A q \in Processes :
         operations'[q] = IF q = p THEN NoOperation ELSE operations[q]
  BY CourseTypes DEF Finish, CourseInv
<1>5. CommandAtHand'
  BY <1>1, <1>4 DEF CourseInv, CommandAtHand
<1> QED BY <1>1, <1>2, <1>3, <1>5

\* A withdrawal that is answered by what was recorded: the Charge of the
\* promise, or nothing.
LEMMA WithdrawAnswered ==
    ASSUME CourseInv, NEW m \in pending, NEW ok \in BOOLEAN,
           orders[m.order] = "ApprovalPending",
           tickets[m.order] = "CreatePending", charged[m.order] = 0,
           ~sagas[m.order].compensating, sagas[m.order].current = 3,
           UNCHANGED <<sagas, orders, tickets>>,
           charged' = IF ok THEN [charged EXCEPT ![m.order] = 1] ELSE charged,
           pending' = (pending \ {m}) \cup {ReplyTo(m, ok, FALSE)}
    PROVE  SagaOnCourse' /\ Promised
<1> DEFINE o == m.order
<1>1. o \in Orders /\ charged \in [Orders -> Int]
  BY CourseTypes DEF CourseInv
<1>2. sagas[o].current \in 1..3 /\ sagas[o].current # TicketStep
  BY DEF TicketStep
<1>3. CASE ok
  <2>1. charged'[o] = 1 /\ \A q \in Orders \ {o} : charged'[q] = charged[q]
    BY <1>1, <1>3
  <2>2. Done(o)'
    BY <2>1 DEF Done, StepDone
  <2>3. \A q \in Orders \ {o} : SameWorld(q)
    BY <2>1 DEF SameWorld
  <2>4. SagaOnCourse'
    BY <1>2, <1>3, <2>2, <2>3, AnswerCourse DEF CourseInv
  <2>5. Outcome!Charge(o)
    BY <1>3 DEF Outcome!Charge, Outcome!Pay
  <2> QED BY <1>1, <2>4, <2>5 DEF Promised, Outcome!Next
<1>4. CASE ~ok
  <2>1. charged' = charged
    BY <1>4
  <2>2. Begun(o)'
    BY <2>1 DEF Begun, StepBegun
  <2>3. \A q \in Orders : SameWorld(q)
    BY <2>1 DEF SameWorld
  <2>4. SagaOnCourse'
    BY <1>2, <1>4, <2>2, <2>3, AnswerCourse DEF CourseInv
  <2> QED BY <2>1, <2>4 DEF Promised
<1> QED BY <1>3, <1>4

\* The withdrawal and its answer are one step (service.rs:131-183).
LEMMA CommitCourse ==
    ASSUME MaxRedeliveries = 0, CourseInv, NEW p \in Processes,
           AppendCommits(p), UNCHANGED <<orderVars, kitchenVars>>
    PROVE  CourseStep
<1> DEFINE op == operations[p]
           m == op.message
           r == ReplyTo(m, op.succeed, FALSE)
<1>1. /\ op # NoOperation /\ Finish(p, {r})
      /\ charged' =
            IF m = NoMessage \/ ~op.succeed THEN charged
            ELSE [charged EXCEPT ![m.order] =
                     IF m.type = "Withdraw" THEN @ + 1 ELSE @ - 1]
      /\ UNCHANGED <<sagas, orders, tickets>>
  BY DEF AppendCommits, orderVars, kitchenVars
<1>2. CASE m = NoMessage
  BY <1>1, <1>2, RpcEndsCourse
<1>3. CASE m # NoMessage
  <2>1. /\ m \in pending /\ m.type = "Withdraw"
        /\ orders[m.order] = "ApprovalPending"
        /\ tickets[m.order] = "CreatePending" /\ charged[m.order] = 0
        /\ ~sagas[m.order].compensating /\ sagas[m.order].current = 3
        /\ pending' = (pending \ {m}) \cup {r}
        /\ CommandAtHand'
    BY <1>1, <1>3, CommandEndsCourse
  <2>2. op.succeed \in BOOLEAN
    BY <1>1, CourseTypes DEF CourseInv, Operations
  <2>3. charged' =
           IF op.succeed THEN [charged EXCEPT ![m.order] = 1] ELSE charged
    <3>1. CASE op.succeed
      <4>1. charged' = [charged EXCEPT ![m.order] = charged[m.order] + 1]
        BY <1>1, <1>3, <2>1, <3>1
      <4>2. charged[m.order] + 1 = 1
        BY <2>1
      <4> QED BY <3>1, <4>1, <4>2
    <3>2. CASE ~op.succeed
      BY <1>1, <3>2
    <3> QED BY <3>1, <3>2
  <2>4. PICK n \in pending, ok \in BOOLEAN : n = m /\ ok = op.succeed
    BY <2>1, <2>2
  <2> HIDE DEF op, m, r
  <2>5. pending' = (pending \ {n}) \cup {ReplyTo(n, ok, FALSE)}
    BY <2>1, <2>4 DEF r
  <2>6. SagaOnCourse' /\ Promised
    BY <1>1, <2>1, <2>3, <2>4, <2>5, WithdrawAnswered
  <2> QED BY <2>1, <2>6 DEF CourseStep
<1> QED BY <1>2, <1>3

\* A failed append takes its command with it: the saga hears no more, and no
\* table is left (service.rs:105, 176).
LEMMA FailCourse ==
    ASSUME MaxRedeliveries = 0, CourseInv, NEW p \in Processes,
           AppendFails(p), UNCHANGED <<orderVars, kitchenVars>>
    PROVE  CourseStep
<1> DEFINE m == operations[p].message
<1>1. /\ operations[p] # NoOperation /\ Finish(p, {})
      /\ UNCHANGED <<sagas, orders, tickets, charged>>
  BY DEF AppendFails, orderVars, kitchenVars
<1>2. CASE m = NoMessage
  BY <1>1, <1>2, RpcEndsCourse
<1>3. CASE m # NoMessage
  <2>1. pending' = (pending \ {m}) \cup {} /\ CommandAtHand'
    BY <1>1, <1>3, CommandEndsCourse
  <2>2. SagaOnCourse'
    BY <1>1, <2>1, QuietCourse DEF CourseInv, SameWorld
  <2>3. Promised
    BY <1>1 DEF Promised
  <2> QED BY <2>1, <2>2, <2>3 DEF CourseStep
<1> QED BY <1>2, <1>3

-----------------------------------------------------------------------------
LEMMA CourseInit == Init => SagaOnCourse /\ CommandAtHand
<1> SUFFICES ASSUME Init PROVE SagaOnCourse /\ CommandAtHand
  OBVIOUS
<1>1. /\ pending = {}
      /\ \A o \in Orders : Untouched(o) /\ ~sagas[o].failed
  BY DEF Init, MessagesInit, OrderInit, KitchenInit, AccountingInit, Untouched,
         NewSaga
<1>2. CommandAtHand
  BY DEF Init, AccountingInit, CommandAtHand
<1> QED BY <1>1, <1>2 DEF SagaOnCourse, OrderOnCourse

\* The order service's steps.
LEMMA OrderStepsCourse ==
    ASSUME MaxRedeliveries = 0, CourseInv, OrderConsumerStep \/ OrderRpcStep
    PROVE  CourseStep
<1>1. UNCHANGED <<consumerVars, kitchenVars, accountingVars>>
  BY DEF OrderConsumerStep, OrderRpcStep
<1>2. UNCHANGED <<tickets, charged, operations>>
  BY <1>1 DEF kitchenVars, accountingVars
<1>3. ASSUME NEW m \in pending, HandleReplyPanics(m) PROVE CourseStep
  <2>1. UNCHANGED <<pending, sagas, orders>>
    BY <1>3 DEF HandleReplyPanics, messageVars
  <2> QED BY <1>2, <2>1, QuietStep
<1>4. ASSUME NEW r \in Restaurants, OrderLearnsRestaurant(r) PROVE CourseStep
  <2>1. UNCHANGED <<pending, sagas, orders>>
    BY <1>4 DEF OrderLearnsRestaurant, messageVars
  <2> QED BY <1>2, <2>1, QuietStep
<1> QED
  BY <1>1, <1>3, <1>4, HandleReplyCourse, OrderCommandCourse, CreateOrderCourse
  DEF OrderConsumerStep, OrderConsumerNext, OrderRpcStep, OrderRpcNext

\* The accounting service's steps.
LEMMA AccountingStepsCourse ==
    ASSUME MaxRedeliveries = 0, CourseInv,
           AccountingConsumerStep \/ AccountingRpcStep
    PROVE  CourseStep
<1>1. UNCHANGED <<orderVars, kitchenVars>>
  BY DEF AccountingConsumerStep, AccountingRpcStep
<1>2. KafkaConsumer \in Processes /\ AccountingRpcs \subseteq Processes
  BY DEF Processes
<1>3. ASSUME NEW m \in pending, StartCommand(m) PROVE CourseStep
  BY <1>1, <1>2, <1>3, StartCourse DEF StartCommand
<1>4. ASSUME NEW p \in AccountingRpcs, NEW a, NEW kind, NEW amount,
             RpcStart(p, a, kind, amount)
      PROVE  CourseStep
  BY <1>1, <1>2, <1>4, StartCourse DEF RpcStart
<1>5. ASSUME NEW p \in Processes, AppendCommits(p) \/ AppendFails(p)
      PROVE  CourseStep
  BY <1>1, <1>5, CommitCourse, FailCourse
<1>6. ASSUME NEW a \in Consumers, OpenAccount(a) \/ OpenAccountPanics(a)
      PROVE  CourseStep
  <2>1. UNCHANGED <<pending, operations, charged>>
    BY <1>6
    DEF OpenAccount, OpenAccountPanics, ConsumeConsumerEvent, messageVars
  <2>2. UNCHANGED <<sagas, orders, tickets>>
    BY <1>1 DEF orderVars, kitchenVars
  <2> QED BY <2>1, <2>2, QuietStep
<1>7. CASE AccountingConsumerStep
  BY <1>2, <1>3, <1>5, <1>6, <1>7
  DEF AccountingConsumerStep, AccountingConsumerNext
<1>8. CASE AccountingRpcStep
  BY <1>2, <1>4, <1>5, <1>8 DEF AccountingRpcStep, AccountingRpcNext
<1> QED BY <1>7, <1>8

\* Every step keeps all orders on course and the promise to whoever orders.
LEMMA CourseOfStep ==
    ASSUME MaxRedeliveries = 0, CourseInv, [Next]_vars
    PROVE  CourseStep
<1>1. CASE ConsumerConsumerStep
  BY <1>1, ValidateCourse DEF ConsumerConsumerStep
<1>2. CASE ConsumerRpcStep
  <2>1. UNCHANGED <<pending, sagas, orders, charged, operations, tickets>>
    BY <1>2
    DEF ConsumerRpcStep, CreateConsumer, orderVars, kitchenVars, accountingVars
  <2> QED BY <2>1, QuietStep
<1>3. CASE KitchenConsumerStep
  <2>1. UNCHANGED <<orderVars, consumerVars, accountingVars>>
    BY <1>3 DEF KitchenConsumerStep
  <2>2. ASSUME NEW r \in Restaurants, KitchenLearnsRestaurant(r)
        PROVE  CourseStep
    <3>1. UNCHANGED <<pending, sagas, orders, charged, operations, tickets>>
      BY <2>1, <2>2
      DEF KitchenLearnsRestaurant, messageVars, orderVars, accountingVars
    <3> QED BY <3>1, QuietStep
  <2> QED BY <1>3, <2>1, <2>2, KitchenCommandCourse
          DEF KitchenConsumerStep, KitchenConsumerNext
<1>4. CASE KitchenRpcStep
  BY <1>4, KitchenRpcCourse DEF KitchenRpcStep
<1>5. CASE UNCHANGED vars
  <2>1. UNCHANGED <<pending, sagas, orders, charged, operations, tickets>>
    BY <1>5 DEF vars, messageVars, orderVars, kitchenVars, accountingVars
  <2> QED BY <2>1, QuietStep
<1> QED
  BY <1>1, <1>2, <1>3, <1>4, <1>5, OrderStepsCourse, AccountingStepsCourse
  DEF Next

\* With every command delivered once, an order, its ticket and its charge are
\* where the saga's step says they are.
THEOREM CourseInvariant ==
    ASSUME MaxRedeliveries = 0
    PROVE  Spec => []CourseInv
<1>1. SagaInv /\ SagaOnCourse /\ CommandAtHand /\ [Next]_vars
        => SagaOnCourse' /\ CommandAtHand'
  BY CourseOfStep DEF CourseInv, CourseStep
<1>2. SagaInv /\ SagaOnCourse /\ CommandAtHand => CourseInv
  BY DEF CourseInv
<1> QED BY <1>1, <1>2, CourseInit, SagaInvariant, PTL DEF Spec

-----------------------------------------------------------------------------
(* A saga waits for something. *)

\* An undecided order has a message in flight, or its reply was dropped.
NoneForgotten ==
    \A o \in Orders :
        orders[o] = "ApprovalPending" /\ o \notin dropped =>
            \E m \in pending : m.order = o

\* Nobody is forgotten in a step that leaves or answers each message.
LEMMA EachAnswered ==
    ASSUME NoneForgotten,
           \A o \in Orders :
               orders'[o] = "ApprovalPending" => orders[o] = "ApprovalPending",
           \A m \in pending : m.order \notin dropped' =>
               \E n \in pending' : n.order = m.order,
           dropped \subseteq dropped'
    PROVE  NoneForgotten'
BY DEF NoneForgotten

\* A command that is handled is answered.
LEMMA AnswersRemember ==
    ASSUME MaxRedeliveries = 0, CourseInv, NoneForgotten,
           NEW m \in pending, NEW up, NEW ok, NEW body,
           Consume(up, m, {ReplyTo(m, ok, body)}),
           \A o \in Orders :
               orders'[o] = "ApprovalPending" => orders[o] = "ApprovalPending",
           dropped' = dropped
    PROVE  NoneForgotten'
<1> DEFINE out == {ReplyTo(m, ok, body)}
<1>1. pending' = (pending \ {m}) \cup out
  <2>1. Consume(up, m, out) /\ MessagesTypeOK
    BY CourseTypes DEF CourseInv
  <2> HIDE DEF out
  <2> QED BY <2>1, ConsumeOnce
<1>2. ReplyTo(m, ok, body).order = m.order
  BY DEF ReplyTo
<1>3. \A k \in pending : \E n \in pending' : n.order = k.order
  BY <1>1, <1>2
<1> QED BY <1>3, EachAnswered

\* A reply is followed by the command of the next step, or it was the last.
LEMMA RepliesRemember ==
    ASSUME MaxRedeliveries = 0, CourseInv, NoneForgotten,
           NEW m \in pending, HandleReply(m), dropped' = dropped
    PROVE  NoneForgotten'
<1> DEFINE o == m.order
           s == sagas[o]
           new == Process(s, m.ok)
           out == CommandsOf(o, s, new)
<1>1. m.type = "Reply" /\ Consume(orderUp, m, out) /\ UNCHANGED orders
  BY DEF HandleReply
<1>2. MovesOn(s, new, orders[o], tickets[o], charged[o])
  BY <1>1, ReplyMovesOn
<1> HIDE DEF o, s, new
<1>3. pending' = (pending \ {m}) \cup out
  <2>1. Consume(orderUp, m, out) /\ MessagesTypeOK
    BY <1>1, CourseTypes DEF CourseInv
  <2> HIDE DEF out
  <2> QED BY <2>1, ConsumeOnce
<1>4. CASE new.request = s.request
  <2>1. orders[o] # "ApprovalPending"
    BY <1>2, <1>4 DEF MovesOn
  <2> SUFFICES ASSUME NEW p \in Orders, orders'[p] = "ApprovalPending",
                      p \notin dropped'
               PROVE  \E n \in pending' : n.order = p
    BY DEF NoneForgotten
  <2>2. PICK n \in pending : n.order = p
    BY <1>1 DEF NoneForgotten
  <2>3. n # m
    BY <1>1, <2>1, <2>2 DEF o
  <2> QED BY <1>3, <2>2, <2>3
<1>5. CASE new.request # s.request
  <2> DEFINE c == Command(o, new.request, ActionAt(new, new.current))
  <2>1. out = {c}
    BY <1>5 DEF CommandsOf
  <2>2. c.order = o
    BY DEF Command
  <2> HIDE DEF c, out
  <2>3. \A k \in pending : \E n \in pending' : n.order = k.order
    BY <1>3, <2>1, <2>2 DEF o
  <2> QED BY <1>1, <2>3, EachAnswered
<1> QED BY <1>4, <1>5

\* A new saga sends its first command.
LEMMA CreateRemembers ==
    ASSUME CourseInv, NoneForgotten, NEW o \in Orders, CreateOrder(o),
           dropped' = dropped
    PROVE  NoneForgotten'
<1> DEFINE new == Process(NewSaga, TRUE)
           out == CommandsOf(o, NewSaga, new)
           c == Command(o, new.request, ActionAt(new, new.current))
<1>1. /\ orders' = [orders EXCEPT ![o] = "ApprovalPending"]
      /\ pending' = pending \cup out
  BY DEF CreateOrder
<1>2. NewSaga \in SagaRows /\ ~NewSaga.compensating /\ NewSaga.current = -1
      /\ NewSaga.request = 0
  BY DEF NewSaga, SagaRows
<1>3. new = [NewSaga EXCEPT !.current = 1, !.request = NewSaga.request + 1]
  BY <1>2, AdvanceForward DEF Process
<1>4. new.request = NewSaga.request + 1
  BY <1>2, <1>3 DEF SagaRows
<1> HIDE DEF new
<1>5. out = {c}
  BY <1>2, <1>4 DEF CommandsOf
<1>6. c.order = o
  BY DEF Command
<1> HIDE DEF c, out
<1>7. \A p \in Orders \ {o} : orders'[p] = orders[p]
  BY <1>1, CourseTypes DEF CourseInv
<1> QED BY <1>1, <1>5, <1>6, <1>7 DEF NoneForgotten

\* A withdrawal is answered with its append, or dropped with it.
LEMMA AppendsRemember ==
    ASSUME MaxRedeliveries = 0, CourseInv, NoneForgotten,
           NEW p \in Processes, AppendCommits(p) \/ AppendFails(p),
           UNCHANGED orders
    PROVE  NoneForgotten'
<1> DEFINE op == operations[p]
           m == op.message
<1>1. op # NoOperation /\ \E out : Finish(p, out)
  BY DEF AppendCommits, AppendFails
<1>2. dropped \subseteq dropped'
  BY DEF AppendCommits, AppendFails
<1>3. CASE m = NoMessage
  <2>1. pending' = pending
    BY <1>1, <1>3 DEF Finish, messageVars
  <2> QED BY <1>2, <2>1, EachAnswered
<1>4. CASE m # NoMessage /\ AppendCommits(p)
  <2>1. /\ m \in pending
        /\ Consume(stuckOn = NoConsumer, m, {ReplyTo(m, op.succeed, FALSE)})
        /\ dropped' = dropped
    BY <1>1, <1>4 DEF CourseInv, CommandAtHand, AppendCommits, Finish
  <2> HIDE DEF op, m
  <2> QED BY <2>1, AnswersRemember
<1>5. CASE m # NoMessage /\ AppendFails(p)
  <2>1. pending' = (pending \ {m}) \cup {} /\ dropped' = dropped \cup {m.order}
    BY <1>1, <1>5, CommandEndsCourse DEF AppendFails
  <2> HIDE DEF m
  <2>2. \A k \in pending : k.order \notin dropped' =>
            \E n \in pending' : n.order = k.order
    BY <2>1
  <2> QED BY <1>2, <2>2, EachAnswered
<1> QED BY <1>3, <1>4, <1>5

\* No step forgets an order.
LEMMA StepRemembers ==
    ASSUME MaxRedeliveries = 0, CourseInv, NoneForgotten, [Next]_vars
    PROVE  NoneForgotten'
<1>1. CASE UNCHANGED <<pending, orders, dropped>>
  BY <1>1, EachAnswered
<1>2. CASE OrderConsumerStep \/ OrderRpcStep
  <2>1. dropped' = dropped
    BY <1>2 DEF OrderConsumerStep, OrderRpcStep, accountingVars
  <2>2. ASSUME NEW m \in pending, HandleOrderCommand(m) PROVE NoneForgotten'
    <3>1. \A o \in Orders :
             orders'[o] = "ApprovalPending" => orders[o] = "ApprovalPending"
      BY <2>2, CourseTypes DEF HandleOrderCommand, CourseInv
    <3>2. Consume(orderUp, m, {ReplyTo(m, MayDecide(m.order), FALSE)})
      BY <2>2 DEF HandleOrderCommand
    <3> QED BY <2>1, <3>1, <3>2, AnswersRemember
  <2>3. ASSUME \/ \E m \in pending : HandleReplyPanics(m)
               \/ \E r \in Restaurants : OrderLearnsRestaurant(r)
        PROVE  UNCHANGED <<pending, orders, dropped>>
    BY <2>1, <2>3 DEF HandleReplyPanics, OrderLearnsRestaurant, messageVars
  <2> QED BY <1>1, <1>2, <2>1, <2>2, <2>3, RepliesRemember, CreateRemembers
          DEF OrderConsumerStep, OrderConsumerNext, OrderRpcStep, OrderRpcNext
<1>3. CASE ConsumerConsumerStep
  <2>1. UNCHANGED <<orders, dropped>>
    BY <1>3 DEF ConsumerConsumerStep, orderVars, accountingVars
  <2> QED BY <1>3, <2>1, AnswersRemember
          DEF ConsumerConsumerStep, HandleValidateOrder
<1>4. CASE KitchenConsumerStep
  <2>1. UNCHANGED <<orders, dropped>>
    BY <1>4 DEF KitchenConsumerStep, orderVars, accountingVars
  <2>2. ASSUME NEW m \in pending, HandleCreateTicket(m) PROVE NoneForgotten'
    <3>1. CASE CreateTicketPanics(m)
      BY <1>1, <2>1, <3>1 DEF CreateTicketPanics, messageVars
    <3> QED BY <2>1, <2>2, <3>1, AnswersRemember
            DEF HandleCreateTicket, CreateTicketRefused, CreateTicketInserts
  <2>3. ASSUME NEW m \in pending, HandleConfirmTicket(m) \/ HandleCancelTicket(m)
        PROVE  NoneForgotten'
    BY <2>1, <2>3, AnswersRemember DEF HandleConfirmTicket, HandleCancelTicket
  <2>4. ASSUME NEW r \in Restaurants, KitchenLearnsRestaurant(r)
        PROVE  UNCHANGED <<pending, orders, dropped>>
    BY <2>1, <2>4 DEF KitchenLearnsRestaurant, messageVars
  <2> QED BY <1>1, <1>4, <2>2, <2>3, <2>4
          DEF KitchenConsumerStep, KitchenConsumerNext
<1>5. CASE AccountingConsumerStep \/ AccountingRpcStep
  <2>1. UNCHANGED orders
    BY <1>5 DEF AccountingConsumerStep, AccountingRpcStep, orderVars
  <2>2. ASSUME NEW p \in Processes, AppendCommits(p) \/ AppendFails(p)
        PROVE  NoneForgotten'
    BY <2>1, <2>2, AppendsRemember
  <2>3. ASSUME NEW p, NEW a, NEW kind, NEW amount, NEW m,
               Start(p, a, kind, amount, m)
        PROVE  UNCHANGED <<pending, orders, dropped>>
    BY <2>1, <2>3 DEF Start, messageVars
  <2>4. ASSUME NEW a, OpenAccount(a) \/ OpenAccountPanics(a)
        PROVE  UNCHANGED <<pending, orders, dropped>>
    BY <2>1, <2>4
       DEF OpenAccount, OpenAccountPanics, ConsumeConsumerEvent, messageVars
  <2>5. KafkaConsumer \in Processes /\ AccountingRpcs \subseteq Processes
    BY DEF Processes
  <2>6. CASE AccountingConsumerStep
    BY <1>1, <2>2, <2>3, <2>4, <2>5, <2>6
       DEF AccountingConsumerStep, AccountingConsumerNext, StartCommand
  <2>7. CASE AccountingRpcStep
    BY <1>1, <2>2, <2>3, <2>5, <2>7
       DEF AccountingRpcStep, AccountingRpcNext, RpcStart
  <2> QED BY <1>5, <2>6, <2>7
<1>6. CASE ConsumerRpcStep \/ KitchenRpcStep \/ UNCHANGED vars
  <2>1. UNCHANGED <<pending, orders, dropped>>
    BY <1>6 DEF ConsumerRpcStep, CreateConsumer, KitchenRpcStep, KitchenRpcNext,
                CallReads, CallWrites, vars, messageVars, orderVars, accountingVars
  <2> QED BY <1>1, <2>1
<1> QED BY <1>2, <1>3, <1>4, <1>5, <1>6 DEF Next

LEMMA NoneForgottenInvariant ==
    ASSUME MaxRedeliveries = 0
    PROVE  Spec => []NoneForgotten
<1>1. Init => NoneForgotten
  BY DEF Init, OrderInit, NoneForgotten
<1>2. CourseInv /\ NoneForgotten /\ [Next]_vars => NoneForgotten'
  BY StepRemembers
<1> QED BY <1>1, <1>2, CourseInvariant, PTL DEF Spec

\* An order is in no stage that approves it unpaid or its ticket unconfirmed
\* (create_order.rs:243-277).
THEOREM ApprovedMeansPaid ==
    ASSUME MaxRedeliveries = 0
    PROVE  Spec => []ApprovedIsPaidAndConfirmed
<1>1. CourseInv => ApprovedIsPaidAndConfirmed
  BY DEF CourseInv, SagaOnCourse, OrderOnCourse, Untouched, Begun, StepBegun,
         Done, StepDone, ApprovedIsPaidAndConfirmed
<1> QED BY <1>1, CourseInvariant, PTL

\* A rejected order has been released by every step that had succeeded
\* (saga/mod.rs:151-164, 188-231).
THEOREM RejectedMeansReleased ==
    ASSUME MaxRedeliveries = 0
    PROVE  Spec => []RejectedIsReleased
<1>1. CourseInv => RejectedIsReleased
  BY DEF CourseInv, SagaOnCourse, OrderOnCourse, Untouched, Begun, StepBegun,
         Done, StepDone, RejectedIsReleased
<1> QED BY <1>1, CourseInvariant, PTL

\* The kitchen never works on what is not paid (create_order.rs:243-277).
THEOREM KitchenWorkIsPaid ==
    ASSUME MaxRedeliveries = 0
    PROVE  Spec => []KitchenWorksOnPaidOrders
<1>1. CourseInv => KitchenWorksOnPaidOrders
  BY DEF CourseInv, SagaOnCourse, OrderOnCourse, Untouched, Begun, StepBegun,
         Done, StepDone, KitchenWorksOnPaidOrders, ConfirmedStates
<1> QED BY <1>1, CourseInvariant, PTL

\* handle_reply need not compare request ids, as there is only one request, and
\* there is one until the order is decided (saga/mod.rs:88-129), unless accounting
\* has dropped the reply (service.rs:105, 176).
THEOREM RequestsOneAtATime ==
    ASSUME MaxRedeliveries = 0
    PROVE  Spec => []OneRequestOutstanding
<1>1. CourseInv /\ NoneForgotten => OneRequestOutstanding
  BY DEF CourseInv, SagaOnCourse, MessageOnCourse, NoneForgotten,
         OneRequestOutstanding
<1> QED BY <1>1, CourseInvariant, NoneForgottenInvariant, PTL

\* No saga ends in the state nobody resolves (saga/mod.rs:165-169).
THEOREM CompensationsSucceed ==
    ASSUME MaxRedeliveries = 0
    PROVE  Spec => []CompensationNeverFails
<1>1. CourseInv => CompensationNeverFails
  BY DEF CourseInv, SagaOnCourse, OrderOnCourse, CompensationNeverFails
<1> QED BY <1>1, CourseInvariant, PTL

(***************************************************************************)
(* To whoever orders, four services and the saga between them are the one  *)
(* OrderOutcome promises: CreateOrder is its Place, the append of the      *)
(* withdrawal its Charge, and the two order commands its Approve and       *)
(* Reject; every other step is a stutter.                                  *)
(***************************************************************************)
THEOREM SagaKeepsPromise ==
    ASSUME MaxRedeliveries = 0
    PROVE  Spec => KeepsPromise
<1>1. Init => Outcome!Init
  BY DEF Init, OrderInit, AccountingInit, Outcome!Init
<1>2. CourseInv /\ [Next]_vars => [Outcome!Next]_Outcome!outcomeVars
  BY CourseOfStep DEF CourseStep, Promised, Outcome!outcomeVars
<1> QED BY <1>1, <1>2, CourseInvariant, PTL DEF Spec, KeepsPromise, Outcome!Spec
=============================================================================
