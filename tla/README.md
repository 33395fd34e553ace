# FTGO in TLA+

A verification project for ftgo-rust, a food-to-go system of seven Rust services that
talk over gRPC and Kafka. The modules model the code under `src/`; TLC checks them on
small instances and TLAPS proves theorems about them for every value of the constants.

Contents: 1 the system · 2 the modules · 3 the runs · 4 bounds, fairness, deadlock ·
5 the proofs · 6 what the runs found · 7 what is not modelled · 8 the plan

## 1. The system

`compose.yaml` runs each service as up to four processes on one Postgres database of
its own: an *rpc* process (gRPC), a *producer* (outbox to Kafka), a *consumer* (Kafka to
handlers), and in accounting a *projector*; one replica of each, restarted 5 s after a
failure.

| Component | State it keeps | Operations that change it | What makes it correct |
|---|---|---|---|
| Create-order saga (`ftgo-order-service/src/saga`) | `saga_instances`: step, direction, last request id, end state | `create`, `handle_reply`, `process`, `next` | one request outstanding; compensation undoes exactly what succeeded and never turns round |
| Order service | `orders`, replica of the restaurants, outbox | `create_order`, Approve, Reject, RestaurantCreated | an order is decided once, and announced as what it is |
| Consumer service | `consumers`, outbox | `create_consumer`, ValidateOrderByConsumer | the answer is the table's |
| Kitchen service | `tickets` with a number per restaurant, replica of the restaurants, outbox | Create-, Confirm-, CancelTicket; `accept_`, `preparing_`, `ready_for_pickup_ticket` | the events tell the ticket's history; numbers are distinct; only paid orders are cooked |
| Accounting, write side | `events`, `event_stream` (event sourcing, optimistic append) | `create`, `deposit`, `withdraw`, from Kafka and from gRPC | no withdrawal overdraws; a stream has no gaps; the answer is what the stream holds |
| Accounting, producer and projector | checkpoints, two projections | read streams, send or project, store the checkpoint | every event is sent and projected, once per crash too often at most |
| Outbox relays, consumer loops | outbox rows, Kafka offsets | send and delete; poll, process, commit | at least once, nothing lost, causes before effects |
| List queries (order, kitchen, accounting, gateway) | a client's cursor | `list_order`, `list_tickets`, `list_accounts`, `list_orders` of the gateway | the pages are one list, nothing in it skipped or repeated |
| Delivery service | `couriers`, `deliveries`, `courier_actions`, replica of the restaurants, outbox, the consumer's offset | schedule on TicketAccepted; create courier, availability, pickup, dropoff | what is accepted gets a courier, and the courier its work; planned and announced no more often than failures and overlaps explain |
| Restaurant service | `restaurants`, outbox | `create_restaurant` | a restaurant is announced when it is there |
| Auth service | `users`, three grant tables | sign-up; `grant_consumer`, `-restaurant`, `-courier` | who has a grant may act for what is granted |
| API gateway | nothing; a request between its two calls | register consumer, restaurant, courier; access check and one call | what is created gets its owner |

How they interact. `create_order` stores the order and a saga instance and puts the
first command in the outbox, in one transaction. A producer sends outbox rows to Kafka;
the consumer of the addressed service runs one handler per record in one transaction,
and the handler puts a reply in its own outbox. The reply comes back to the order
service's consumer, where `SagaManager::handle_reply` moves the saga on:

    forward:      1 ValidateOrder  2 CreateTicket  3 Withdraw  4 ConfirmTicket  5 ApproveOrder
    compensating: 3 Deposit  2 CancelTicket  0 RejectOrder

A ticket the restaurant accepts is announced to the delivery service, which picks an
available courier for it. Users reach all of this through the gateway: it has the owning
service create a consumer, a restaurant or a courier, has the auth service grant it to the
user, and from then on lets that user order, cook or drive.

Accounting has no outbox: the reply is an event of the account's stream
(CommandReplyRequested), and the producer turns it into the record. ConsumerCreated and
RestaurantCreated events travel beside the commands on topics of their own.

What is hard. (a) Delivery is at least once, and unordered across topics: relays and
consumers die between an effect and the commit that records it. (b) The saga matches
neither REQUEST-ID nor end state when it takes a reply. (c) The accounting service
decides on a balance read before anything is locked, and each append overwrites
`last_sequence` of *all* streams because its UPDATE has no filter. (d) The kitchen's
gRPC calls read a ticket unlocked and write it by id. (e) Consumer loops `expect` every
handler to succeed: one record that fails stops the consumer on each restart.
(f) `deposit` and `withdraw` discard an append's failure, and the reply with it. (g) Producer
and projector of accounting read streams that grow, and store the checkpoint in another
transaction than the effect. (h) Lists are paged by cursor while rows appear and change.
(i) The delivery consumer works without a transaction, its pickup asks the kitchen before the
transaction that relies on the answer, its dropoff reads a row unlocked; and a registration
is two calls with nothing to take the first one back. The file-and-line list is `hazards` in `PROJECT.json`.

## 2. The modules

| Module | Models | State (code) |
|---|---|---|
| `SagaMessages` | commands, replies and ConsumerCreated events in flight | `pending`, `consumerEvents`, `redeliveries` |
| `OrderService` | order service and saga manager | `orders`, `orderEvents`, `sagas` (`saga_instances`), `orderRestaurants`, `orderUp` |
| `ConsumerService` | consumer service | `consumers` |
| `KitchenService` | kitchen service | `tickets`, `ticketNumber` (`tickets.sequence`), `kitchenEvents`, `kitchenCalls` (calls between SELECT and UPDATE), `kitchenRestaurants`, `kitchenUp` |
| `AccountingService` | event store, `service.rs`, its consumer and gRPC calls | `sequences` and `balance` (the events of a stream and what they fold to), `lastSequence` (`event_stream`), `operations` (between read and append), `stuckOn`; history: `charged`, `dropped` |
| `Accounting` | the accounting service on its own, with its environment | - |
| `CreateOrderSaga` | the four services composed | - |
| `CheckpointStore` | streams and checkpointed reading, shared by the next two | `streams`, `checkpoint`, `rows` (of the running query), `crashes` |
| `AccountingProducer` | `app/producer.rs` of accounting | `log` (records sent per account), `sent` |
| `AccountingProjector` | `app/projector.rs` and the two projections | `details`, `infos` (the two tables), `phase`, `panicked` |
| `OutboxRelay` | outbox table, producer process, topic, consumer loop | `outbox`, `held` and `sent` (relays), `log`, `offset`, `position`, `polled`; `writing` (open transactions); history: `atOnce` and others |
| `AtLeastOnce` | the abstract channel `OutboxRelay` implements | `posted`, `handled` |
| `OrderOutcome` | the abstract promise `CreateOrderSaga` implements | `outcome`, `paid` |
| `DeliveryService` | delivery service: couriers, Kafka consumer, pickup and dropoff | `couriers`, `deliveryState`, `assignedCourier`, `pickupTime`, `deliveryTime` (`deliveries`), `plans` (`courier_actions`), `deliveryCalls`, `accepted` (the topic), `offset`, `position`, `polled`, `chosen`, `planned`; `pickedUp`, `dropoffs` (events sent) |
| `AuthService`, `RestaurantService` | users and grants; restaurants | `users`, `grants`; `restaurants` |
| `ApiGateway` | registrations and access checks, composed with auth, consumer, restaurant, kitchen and delivery service | `requests` (between the two calls) |
| `OrderPages` | `list_order` and the gateway's `list_orders`, with a client | `table`, `request`, `seen`, `done` |
| `MC...` | the instances TLC checks | - |
| `KitchenProofs` | lemmas of the kitchen; those of accounting and of the order service open `AccountingProofs` and `CreateOrderSagaProofs` | - |
| `AccountingProofs`, `CreateOrderSagaProofs`, `SagaCourseProofs`, `OutboxProofs`, `DeliveryProofs`, `CheckpointProofs`, `PagesProofs` | the theorems | - |

One action is one transaction of the code. A handler of a Kafka record is one action,
with the commands or replies it puts in the outbox. A kitchen gRPC call is two
(`CallReads`, `CallWrites`), since its SELECT locks nothing, and a deposit or a withdrawal
is two (`Start`, then `AppendCommits` or `AppendFails`), since the balance is read before
the stream is locked. A call that is refused by its first read changes nothing and is no
step.

**Messages.** A message is one member of a set from the commit that inserts its row to
the commit of the handler that takes it. The set has no order, because topics are
independent and relays may reorder an outbox. A handler either takes the message away or
leaves a further copy of it: that is the relay that sends a row again, and the consumer
that dies before it commits its offset. Copies are numbered, so that a copy and the
message itself can both be in flight, and so can the replies to both.

**Stopped consumers.** When a handler fails, `expect` kills the process; it is restarted,
reads from the committed offset, and dies on the same record again. Before it dies it
may handle other records (of other partitions, or in front of the bad one in a batch), but it
never commits an offset. So after `orderUp`, `kitchenUp` or `stuckOn` says a consumer
is down, its handlers can still run as redeliveries, and the message stays.

**Saga.** A saga row is the step (`currently_executing`, -1 before the first), the number of
request ids drawn, the direction and the end state. `Advance` is `next`: the nearest step
ahead, in the present direction, whose closure is not None. Steps passed over change
nothing that stays. `Process` is `process`. A random UUID is the count of ids drawn.

**Accounts.** A stream is the set of its sequence numbers together with the sum of its
amounts. `RowsAfter` is the unfiltered UPDATE. `IndexAllows` is the unique index on
(stream, sequence). `MayDeadlock` is Postgres aborting one of two appends to different
streams, each of which holds a row the other one's UPDATE wants. `charged` counts
withdrawals minus refunds recorded for an order and `dropped` the orders whose reply was
lost with a failed append; the code has neither, properties need them. Amounts, decimals of any
sign in the code, are integers here: adding and comparing is all it does with them.

**Accounting's feed.** `CheckpointStore` is the part that `producer.rs` and `projector.rs` share: a
query (`Load`) returns the events after the checkpoints as they are when it runs, the process goes
through the rows in memory, and stores a checkpoint after each. Write side and process interleave
freely. The producer's steps are `ProducerSend`, then `ProducerStore`. The projector's are `ProjectDetails`,
`ProjectInfos` and `ProjectorStore`, three transactions, with a `ProjectorCrash` possible between any two. A
projection that fails panics the process (`Panic`). The write side is `AppendEvents`, whose streams are
gapless by the theorem `NeverGaps`; it may append to a stream that was never opened, because
the code may.

**Relay and consumer loop.** Five services have the same `app/producer.rs`, and the order
service's consumer loop stands for the others. A transaction takes ids when it inserts rows and shows
them when it commits (`Insert`, `Commit`), so ids may become visible out of order. A relay
locks the first free row (`Lock`), sends it, deletes it and commits, and may fail between any
two of these. A consumer polls a batch, handles its records one by one, commits the
offset, and goes back to it when it fails. `AtLeastOnce` says what is left of this for a
sender: what is handled was posted, any number of times, in any order. That is the set of messages
of `SagaMessages`; `ImplementsChannel` is the refinement, by step and by proof.

**From sign-up to drop-off.** `ApiGateway` composes what lies around the saga. A registration is two
steps, `Register...` and `RegistrationEnds`, with `RegistrationFails` in place of the second. An
access check and the call it lets through are one step, because a grant, once made, is never taken
away; a refused call changes nothing and is no step. A kitchen call is its two halves here too:
`CookReads` is the access check and the unlocked read, `CookCommits` the write and the event in
the topic; calls overlap, and then take a ticket back (finding 2 of section 6). One part that another
module takes apart is one step: `PlaceOrder` is the saga from CreateOrder to ConfirmTicket (`CreateOrderSaga`).

**Delivery.** Each statement of the consumer is a step, as each commits by itself: `ChooseCourier` reads,
`InsertActions` inserts, `UpdateDelivery` updates and ends the record; `CommitOffset` follows
the last record of the batch. `ConsumerCrashes` comes between any two. `RecordPanics` is a record that cannot
be handled. Either way the process starts again at the committed offset. A pickup is two steps since it
asks the kitchen first, a dropoff two since its SELECT locks nothing. RestaurantCreated is handled
beside this loop (`DeliveryHears`): its handler inserts on conflict do nothing, so where its record stands
in a batch makes no difference. Three things the repository leaves open are parameters: nothing in it inserts a
delivery (`DeliveryAppears` is external); `pickup_time` of the row (`WithPickupTime`) and
`ready_by` of the record (`WithReadyBy`) are optional. The kitchen as it is never sends a `ready_by`:
`WithReadyBy = {}` is the system at this commit, in which no delivery is ever scheduled. The
runs and theorems are about the delivery service with any sender.

**Pages.** A client asks for a page, then for the page after the last row it was given, until a page is
empty. Pages of size 0, which `list_order` serves, are always empty. Rows are created and orders decided in between. `created_at` is any time, because it is
taken before a transaction that may commit much later; two orders may share it. ORDER BY and LIMIT are said in sets:
`Limited` is the candidates that fewer of them than the page size precede, `Granted` what the gateway leaves of
them, and `Listed` the one sequence that lists a set in the order of the query. No search and no sorting
is in the model, so the proofs are about the order alone.

Left out as data: line items, menus, prices, names and addresses (an order has a total, a
consumer and a restaurant), and failures of the database inside a handler, which roll the
transaction back and kill the process: the same as a record that is delivered again.

## 3. The runs

| Run | Instance | Properties | Shows |
|---|---|---|---|
| `AccountingTwoStreams` | 2 accounts, 1 order each, one with a negative total, 2 concurrent gRPC calls with amounts of both signs | `AloneTypeOK`, `OverdrawnByDepositsOnly`, `StreamsGapless`, `AnswersMatchStream` | appends of three processes that overwrite each other's rows let through neither a withdrawal that is not covered nor a gap; a reply and its event stand or fall together |
| `SagaExactlyOnce` | 2 orders, 1 consumer, 1 unit of money at a time, no redelivery, fair consumers | `TypeOK`, `ApprovedIsPaidAndConfirmed`, `RejectedIsReleased`, `KitchenWorksOnPaidOrders`, `OneRequestOutstanding`, `CompensationNeverFails`, `TicketNumbersDistinct`, `KeepsPromise`, `EveryOrderDecided` | every order ends consistent in all four services, also when orders compete for the money and the kitchen works in between; and it ends, unless one of the named dead ends is reached |
| `SagaRedelivery` | 1 order, 2 redeliveries | `EventsTellTheState`, `DecidedOnce`, `CompensationOneWay` | what survives repeated, late and reordered messages |
| `AccountingProducer` | 2 streams of up to 3 events, 2 crashes, fair process | `SentInOrder`, `OneRepeatPerCrash`, `EveryEventSent` | every stream is sent whole and in order, once too often at most per crash; no event is left behind, also in a stream that is new |
| `AccountingProjector` | 2 streams of up to 4 events, 2 crashes, fair process | `TablesMatchStream`, `CheckpointIsProjected`, `PanicIsForGood`, `ProjectionsCatchUp` | both tables say what the streams say, whatever was projected twice, and catch up, except with an account the projector has panicked on and those behind it, which stand still for good |
| `OutboxRelay` | 2 writers, 2 relays, 3 rows, 1 failure on each side, fair relays and consumer | `TypeOK`, `NothingLost`, `CausesFirst`, `RepeatsArePaid`, `OffsetIsHandled`, `ImplementsChannel`, `EverythingDelivered` | nothing lost, nothing repeated that no failure repeats, no effect before its cause while relays do not overlap; the pipeline is an at-least-once channel and delivers |
| `OrderPages` | 3 orders at 2 times, pages of 0, 1 or 2 | `PagesAreOneList`, `NothingSkipped` | paging by consumer skips and repeats nothing |
| `CourierDelivery` | 1 user, 1 order, 1 courier, 2 overlapping kitchen and 2 overlapping delivery calls, 1 repeated record, 1 failure on each side, fair consumer | `TypeOK`, `ScheduledHasPlan`, `PlansArePaid`, `OnlyOwnedCouriersPlanned`, `OrphansArePaid`, `PickedUpWhenReady`, `DropoffsPerCall`, `EveryAcceptedScheduled` | what crashes, panics, repeats and overlapping calls cost between sign-up and drop-off, and that they cost no more |
| four violation runs | see section 6 | one each | where the code disagrees with what its own assertions, comments or events say |

The properties in a sentence each:

- `OverdrawnByDepositsOnly`: an action property. A step that lowers a balance to below zero is the append of a deposit of a
  negative amount. A withdrawal never is one, though it was decided on a balance read before anything was locked.
- `AnswersMatchStream`: while the answer to a withdrawal is on its way, the order is charged
  once if it says yes and not if it says no.
- `ApprovedIsPaidAndConfirmed`, `RejectedIsReleased`: an approved order is charged once and its
  ticket is in the kitchen; a rejected one is not charged and has no live ticket.
- `KitchenWorksOnPaidOrders`: a ticket goes to the kitchen only after the charge, which
  another service records.
- `KeepsPromise`: with `orders` for the outcome and `charged` for the money, the four services
  implement `OrderOutcome`: an order is approved when it is paid, rejected when it is not, and
  no money moves before it is placed or after it is decided.
- `OneRequestOutstanding`: the only message in flight for an order carries the saga's last
  request id. This is what `handle_reply` takes for granted. And until the order is decided there is one, unless the
  accounting service has dropped the reply: no saga waits for what nobody will send.
- `CompensationNeverFails`: no saga ends failed.
- `EventsTellTheState`: the events published about a ticket are those of the states up to
  its present one, each once, in order.
- `DecidedOnce`, `CompensationOneWay`: action properties; see section 5.
- `SentInOrder`: an event is sent for the first time after all before it in its stream, so the
  reply to a command comes after the event it reports.
- `CheckpointIsProjected`: what lies behind a checkpoint, which is never read again, is in both
  tables.
- `PanicIsForGood`: an action property. Once the projector has panicked on an account, no step of anyone moves that
  account's checkpoint, or anything of an account that comes after it in the query.
- `OneRepeatPerCrash`, `RepeatsArePaid`: repeats are bounded by the crashes there were.
- `TablesMatchStream`: a row of either table shows what the stream adds up to at the event the row was
  last updated for, though an event may be projected again after a crash.
- `CausesFirst`: a row is sent before every row inserted after it was committed, or after it in its
  transaction, unless two relays have held rows at the same time (`atOnce`), which the one relay
  of `compose.yaml` never does. With two that overlap it is false.
- `NothingLost`, `OffsetIsHandled`: a committed row is in the outbox until it is in the log;
  the committed offset never passes a record that was not handled.
- `PagesAreOneList`, `NothingSkipped`: the orders a client was given are sorted and distinct, and
  at the empty page include each of its orders that matched the query all the time.
- `ScheduledHasPlan`: a delivery that shows as scheduled is in the plan of the courier it shows;
  `get_delivery_status` looks the courier's two actions up.
- `PlansArePaid`: a delivery is planned once per record of its acceptance, and once more per failure. Panicking at the
  first record of a batch, which a missing courier makes the consumer do over and over, plans
  nothing again.
- `OnlyOwnedCouriersPlanned`, `OrphansArePaid`: who is given work belongs to a user who can see the plan; what
  is nobody's is being registered, or one failed registration accounts for it.
- `PickedUpWhenReady`: what is picked up was reported ready, and is ready, unless overlapping kitchen calls have
  published an event of the ticket twice and thrown it back. The exception is needed: the kitchen's answer may be stale
  when the pickup is recorded, and TLC finds pickups of a ticket in preparation without it.
- `DropoffsPerCall`: a dropoff is announced at most as often as calls can overlap.
- `EveryAcceptedScheduled`: if from some time on a courier is available and every record can be handled, every
  accepted ticket gets a courier. The premise is about *every* record because one that cannot be handled stops
  those behind it.

The properties that name exactly-once delivery really need it: with one redelivery the saga
takes a late reply for the answer to its next command, and an order may be approved
without a charge. What still holds then is what `SagaRedelivery` checks.

Every property has a mutant in `PROJECT.json`: a plausible bug of the code (a dropped
check, a wrong step order, a missing compensation) under which TLC finds it violated.

## 4. Bounds, fairness, deadlock

- `MaxRedeliveries` bounds how often a message is delivered once too often. 0 is a system in
  which no process dies between two commits; 2 is enough to have a late copy of a
  command meet a late copy of its reply. The theorems hold for every number.
- `MaxSequence` bounds the length of a stream at which a *gRPC* operation starts. Saga
  commands are always handled. 2 or 3 leaves room for opening, paying in and competing for the
  money. `RpcAmounts = {1}` with totals of 1: one deposit pays for one order, so that
  two orders compete. `AccountingTwoStreams` has amounts 1 and -1, totals 1 and -1, and a bound of 1: the calls start on a new
  stream or one with an event, and overlap each other, the command and the opening, which the bound does not stop.
- `KitchenRpcs`, `AccountingRpcs`: concurrent calls. One call already interleaves with the
  consumer. Two race each other (`AccountingTwoStreams`, `SagaKitchenCalls`).
- Two orders are enough to meet at an account, at a restaurant's ticket numbers and
  in `MayDeadlock`; two accounts are enough for an append to overwrite a foreign row.
- `MaxEvents`, `MaxCrashes`: an opening, a deposit with its reply and a withdrawal are
  enough for each kind to be repeated, and for a stream to grow while a query's rows are worked
  through. With two crashes an event can be projected three times. Two streams are enough
  for a panic on one to starve the other.
- `MaxRows`, `MaxFailures`: three rows let a transaction of two overlap another one. One
  failure on each side already repeats a record in the log and a batch at the consumer.
  One topic with one partition is modelled: topics share nothing but the outbox.
- `MaxRepeats`, `MaxDeliveryFailures`, `MaxGatewayFailures`: with one repeated record, one failure
  and two calls that both accept the ticket, a delivery is already planned six times, and the courier may go off duty in between.
  A failure is a crash, or a panic behind the first record of a batch; panics at the first record
  change nothing and are not counted. With one user who owns
  everything, a registration that fails leaves what nobody can grant again. Two
  delivery calls overlap; a third would only repeat them, and the theorems hold for every number.
- `MaxTicketEvents` bounds what the kitchen publishes of a ticket, calls under way included: 5 are the four events of its
  life and one that calls which overlap repeat, the least with which a ticket can be thrown back. One order is
  enough for that, and for batches of up to three records of it; with a second one the overlapping
  calls make millions of states.
- `Orders`, `Times`, `MaxFirst`: of three orders at two times two share a time, and with pages of one
  or two they lie on both sides of a page's border. Size 0 is included.
- Symmetry is used for the two gRPC calls of `AccountingTwoStreams`, which do the same things, and nowhere else: the model values of orders and consumers are named in the definitions of
  who pays for what, and runs that check liveness must not have it.

Fairness (`FairSpec`, `FairProducerSpec`, `FairProjectorSpec`, ...): weak fairness of the four consumer steps, since the consumers poll in a
loop for ever and `compose.yaml` restarts them. The relay is part of the message set, so
its fairness is that of the handlers. gRPC calls are never fair: nobody has to call.
`EveryOrderDecided` needs no more, and no less: it fails without fairness of any of the consumers.
In the other runs with liveness the fair parts are the process that reads
(`ProducerLoop`, `ProjectorLoop`), each relay, and the consumer, each as a whole: the loops run one
step after the other. Appending, writing and committing are not fair, and crashes are bounded, since
nothing is promised of a process that crashes for ever. In `CourierDelivery` only the
delivery consumer's loop (`Scheduling`) is fair; users, calls and events are not. `ProjectionsCatchUp` and
`EverythingDelivered` say that the reader has caught up for good when nothing more is
written: the bounds on events and rows see to it that writing stops.

`CHECK_DEADLOCK FALSE`: the system may come to rest. When every order is decided, no message is in
flight and no client calls, nothing is left to do. The run that asks whether it
rests too early is `EveryOrderDecided`.

## 5. The proofs

Checked by TLAPS, for any sets of orders, consumers and restaurants, any integer totals and amounts, any number of
gRPC calls in flight, and any number of redeliveries; and for any number of writers, relays,
rows and failures; any users, couriers, delivery calls, accounts and crashes:

| Theorem | States |
|---|---|
| `AccountingProofs!TypeCorrect`, `WithdrawalsCovered`, `NeverGaps` | `AloneTypeOK`, `OverdrawnByDepositsOnly`, `StreamsGapless` of the accounting service on its own |
| `NeverOverdrawn` | no balance is negative, if no total and no gRPC amount is (`NoNegativeAmounts`; proved only) |
| `AccountingProofs!AnswersAreTrue` | `AnswersMatchStream`, when every command is delivered once |
| `CreateOrderSagaProofs!SagaTypeCorrect` | `TypeOK` of the composed system |
| `SagaWithdrawalsCovered` | `OverdrawnByDepositsOnly` of the composed system |
| `SagaNeverOverdrawn` | no balance is negative in the composed system, if no total and no gRPC amount is (proved only) |
| `NumbersNeverShared` | `TicketNumbersDistinct` |
| `EventsAreHistory` | `EventsTellTheState`, when the kitchen has one gRPC call at a time |
| `DecisionsAreFinal`, `NoWayBack` | the action properties `DecidedOnce`, `CompensationOneWay` |
| `SagaCourseProofs!ApprovedMeansPaid`, `RejectedMeansReleased`, `KitchenWorkIsPaid` | `ApprovedIsPaidAndConfirmed`, `RejectedIsReleased`, `KitchenWorksOnPaidOrders`, when every command is delivered once |
| `RequestsOneAtATime`, `CompensationsSucceed` | `OneRequestOutstanding`, `CompensationNeverFails`, likewise |
| `SagaKeepsPromise` | `KeepsPromise`, likewise: `CreateOrderSaga` implements `OrderOutcome` |
| `CourseInvariant` | the table of steps these follow from, likewise (proved only) |
| `OutboxProofs!OutboxTypeCorrect`, `OutboxLosesNothing`, `ConsumerSkipsNothing` | `TypeOK`, `NothingLost`, `OffsetIsHandled` of the pipeline |
| `OutboxImplementsChannel` | `ImplementsChannel`: `OutboxRelay` implements `AtLeastOnce` |
| `CausesBeforeEffects`, `RepeatsPaidFor` | `CausesFirst`, `RepeatsArePaid` |
| `DeliveryProofs!GatewayTypeCorrect`, `ScheduledIsPlanned`, `PlannedIsOwned` | `TypeOK`, `ScheduledHasPlan`, `OnlyOwnedCouriersPlanned` of `ApiGateway` |
| `PlansOncePerFailure`, `OrphansOnePerFailure`, `DropoffsBounded` | the counts `PlansArePaid`, `OrphansArePaid`, `DropoffsPerCall` |
| `PickupsOnlyWhenReady` | `PickedUpWhenReady` |
| `AcceptancesNotLost` | every acceptance the committed offset has passed is scheduled (proved only) |
| `CheckpointProofs!EventsInOrder`, `RepeatsBounded` | `SentInOrder`, `OneRepeatPerCrash` of the producer |
| `ProducerSkipsNothing`, `ProducerSleepsWhenDone` | no checkpoint passes an event that was not sent; when nothing is in hand and the query finds nothing, all has been sent (proved only) |
| `ProjectorTypeCorrect`, `ProjectorSleepsWhenDone` | the types of the projector's state; when nothing is in hand and the query finds nothing, both tables show everything (proved only) |
| `TablesShowStream`, `CheckpointsAreProjected` | `TablesMatchStream`, `CheckpointIsProjected` of the projector |
| `PanicsAreForGood` | the action property `PanicIsForGood` |
| `PagesProofs!PagesJoin`, `PagesSkipNothing` | `PagesAreOneList`, `NothingSkipped` |

Assumptions: `SagaConstants`, `AccountingConstants`, `NoCallIsNone`, `NoOperationIsNone`, `RelayConstants`, `DeliveryConstants`, `GatewayConstants`, `StoreConstants`, which say
that the constants have their types and that the null values are none of the real ones; that
the concurrent calls of delivery are finitely many; that consumers, restaurants and couriers have
ids of their own; and that account ids are ordered like numbers, which stands for uuids. TLC
evaluates them in every run.

**Accounting** (`AccountingProofs`). The natural invariant, that `last_sequence` of a
row is the last number in its stream, is false: any append to another stream overwrites it. The
inductive invariant `AccountingInv` says nothing about the rows. It says that each
stream is 0..n-1 (`StreamsDense`), and that a process between read and append has seen a prefix,
and, if nothing was appended since, a balance that still covers its decision (`OperationsSound`).
An append (`AppendPlace`) requires the row to equal what it saw and the numbers after it to be
unused. If something had been appended since the read, the number after the one it saw would be
taken; so a commit means nothing was, whatever the row says by chance. Hence the stream
stays dense and the balance covered. The condition and the index are both needed: the mutant that
reads the stream again for the condition overdraws, the one that drops NoStream leaves a gap.
`WithdrawalsCovered` is what is left when amounts have any sign: a withdrawal that commits is covered, and one of a
negative amount gives. `NeverOverdrawn` adds `NoNegativeAmounts`, under which a deposit gives too (`DepositsGive`, of
the deposits under way). The hypothesis is named because the code does not see to it (section 6). `AnswersAreTrue` needs
that only the consumer's operation carries a command, one that is still in flight
(`CommandAtHand`), and that an order whose withdrawal waits has not been charged
(`AnswersSound`); so the charge and the reply come to be in one step.

**Kitchen** (`KitchenProofs`). "The largest number plus one is new" needs the numbers of a
restaurant to have a largest: `NumbersDense` says they are 1..n. `CallsOnTickets` says that a
call in progress is on a ticket which has been confirmed, so that its write cannot bring a ticket into
being and its number with it. `EventsAreHistory` needs more of a call: with one at a time, the state it has read is the
one the ticket is still in (`CallsUpToDate`), since no command writes a confirmed ticket; so the event it appends is the
one that follows (`HistoryGrows`). With two calls at a time a ticket goes back (run `SagaKitchenCalls`), which no history does.

**Order service** (first part of `CreateOrderSagaProofs`). `AdvanceForward` and `AdvanceBack` turn the search of `next`
through the steps into a table; `ProcessType` concludes that whatever a reply says, a
compensating row stays compensating and does not move up. `FreshSagas` says that an order
that has not been created has an untouched saga row, so that `create_order` starts from it.

**Composition** (`CreateOrderSagaProofs`). `SagaInv` joins the three and adds what the
messages carry across: every message in flight, and every command the accounting
service is working on, is about an order that has been created (`MessagesOfOrders`,
`OperationsOfOrders`). `SoundTraffic` is what one service's step does to the messages as far as
the others care; each service's steps are shown to be such traffic, and `TrafficInv`
that such traffic keeps the invariant.

**Exactly once** (`SagaCourseProofs`). None of the properties of `SagaExactlyOnce` is inductive by itself: that an
approved order is paid depends on where its saga was when the approval was sent, and on what was in flight. `SagaOnCourse` is a
table: `StepBegun` gives, for each step of the saga going forward or compensating, the states of the order, the ticket
and the charge while its command is unanswered; `StepDone` gives them once it has been carried out. An order is in one of the two, and the one message
in flight for it is the step's command (begun), its grant (done), or a refusal (begun; only the first three steps can be refused).
Two lemmas on the search of `next` tie the rows of the table together: `DoneLeadsOn` (done leads to begun of the next step) and `RefusalTurns`
(a refusal leads to a compensation that finds what it undoes). Each service's handler takes begun to done, or refuses; a gRPC call of the kitchen
stays within the confirmed states; no call or operation disturbs another order (`OneOrderMoves`). The accounting service
adds `CommandAtHand`: a withdrawal waiting between its two halves still has its command in flight, so the row of the table has not
moved. `NoneForgotten`, the second half of `OneRequestOutstanding`, is proved on top of the table: a handler answers, a reply draws the
next command or ends a saga whose order the table says is decided (`MovesOn`), and only a failed append takes a message away without another.
`MaxRedeliveries = 0` is used only to say that a handler takes its message away. It is needed: with one repeated command,
`SagaRedelivery` does not claim these properties. The invariant was checked by TLC on the `SagaExactlyOnce` instance before it was proved.

**Pipeline** (`OutboxProofs`). `NothingLost` rests on two facts it does not state. A relay deletes
only what it has sent (`RelaysHonest`); and a row
belongs to one transaction only, open or committed (`RowsApart`), so that a rollback takes nothing with it
that was posted. `OffsetIsHandled` is not inductive either, as the offset jumps over a batch:
`PositionIsHandled` says the same of every record up to the one being handled. The refinement maps
`Commit` to `Post`, `HandleNext` to `Handle` of the record at the position, which is in the log and so
was posted, and every other step to a stutter. `CausesFirst` rests on the ids: whatever a row comes after has a
smaller id and is committed by then (`CausesInv`), and the row that a relay locks, while relays take turns, has
the smallest id in the outbox (`HeldInOrder`). `RepeatsCounted` bounds what is repeated already together
with what is bound to be, the rows logged that are back in the outbox (`Due`).

**Delivery and gateway** (`DeliveryProofs`). `SystemInv` joins types, `KitchenInv` and `DeliveryInv`.
Every step but those of the delivery service leaves its part alone and takes nothing back (`NothingTakenBack`:
grants only grow, a ready ticket is ready or thrown back), so what was checked at an earlier step still holds at the step
that relies on it: that is all `PickupsOnlyWhenReady` and `PlannedIsOwned` need besides their own rows. That a ticket leaves
the ready state only for an event it has had before is `EventsInOrder`: the first of each kind come in the order of
the lifecycle, so a ticket reported ready has had them all, and any call that writes it later repeats one (`PublishAdds`).
`SchedulerSound` says that the record at hand is planned before it counts as scheduled
(`PickIsPlanned`), and that all records up to the position are scheduled (`HandledIsScheduled`); the
offset alone is not inductive, since it jumps over a batch. The counts need sharper invariants than
their bounds. `PlansCounted` allows a delivery one plan for each record *up to the one at hand*, plus
one for each record and each failure; a restart gives back the first part and pays with the second.
`DropoffsCounted` adds to the dropoffs announced the calls under way for the same delivery.
`OrphansCounted` also says that the orphans are finitely many.

**Producer** (second part of `CheckpointProofs`). The first part is what producer and projector share: the rows left
of a query are a run right after the checkpoints (`RowsFollow`), so the next row is the event after its account's
checkpoint (`NextRowFollows`). That there is a next row in order of account and number is well-foundedness of < on the
naturals (`LeastNumber`, `NextRowIsFirst`). For the producer, at most the event after a checkpoint has been
sent early (`NotFarAhead`). `RepeatsCounted` bounds a stream's log by what it has sent and the crashes, where `Due` puts
the repeat that is bound to come on the account of the crash that caused it.

**Projector** (third part). What a table shows cannot be computed in the invariant, since the fold of a stream is a
recursion over data. The stream carries it instead: `StreamsAddUp` says that each event's balance is that of the one
before it plus what the event moves, and that only the first event opens an account. `KeepsUp` bounds how far a row can be from
the checkpoint: one event ahead at most, which is a projection whose checkpoint a crash has lost, and behind only by
replies, which no table shows. So an event that is read again has either not been applied, and is the one right
after what the row shows (up to replies), or has been, and `was_already_applied` sees it. `PhaseSound`
says which of the two tables show the event in hand. The counts of `account_infos` are cardinalities of sets of events, which
`OfKindNext` extends by one. `PanicSound` adds that the next event of an account that has panicked
is there, that one of the two projections fails with it, and that it is in every query; a row only changes if its own projection
does not fail, so the event stays refused, and nothing after it in the query's order is reached (`NextRowBeforePanicked`).

**Paging** (`PagesProofs`). The order of the query is total on orders (by descending time, then by id), also when times are
equal; that is what lets a cursor stand for all rows before it. A page is a beginning of the rows after the cursor, so
whatever lies between two rows of a page is in it. The invariant relates what was seen to a table that changes: the
time of an order never changes, an order that matched a query for a decision matches it for ever while one that matched
`ApprovalPending` may leave the result, and an order created meanwhile may appear before the cursor, where the client is
not promised it. `NothingSkipped` follows for the orders that matched
all the time. That a finite set can be listed in the order at all, by which a page exists, is shown by a smallest
counterexample, since the induction theorem itself takes an operator.

Model-checked only: the liveness properties (`EveryOrderDecided`, `EveryEventSent`, `ProjectionsCatchUp`, `EverythingDelivered`,
`EveryAcceptedScheduled`). Every invariant and every action property of the passing runs has a theorem. Liveness under fairness
and ENABLED are outside what TLAPS can do, as are RECURSIVE operators and inductions over data whose
schema takes an operator as a parameter. No module here needs recursion. What is proved of liveness is its safety core: a saga
that is not over has a message in flight (`RequestsOneAtATime`), an acceptance passed is scheduled (`AcceptancesNotLost`), and
the two readers rest only when they are done (`ProducerSleepsWhenDone`, `ProjectorSleepsWhenDone`).

## 6. What the runs found

Each is a run with `expect: violation`; TLC's trace is the evidence.

1. `SagaTicketReply`. The kitchen refuses a ticket for a restaurant it does not know yet with a
   reply without a body; `handle_reply` decodes the body before it looks at `succeed`, and
   `handle_create_ticket` expects one (`saga/create_order.rs:142`). The order
   consumer panics on every restart.
2. `SagaKitchenCalls`. Two gRPC calls that read the same ticket both write it: a ticket in
   preparation goes back to Accepted, which `rpc.rs:211` calls an unsupported transition.
3. `AccountingPanics`. A deposit or a Withdraw that comes before ConsumerCreated creates the stream;
   opening the account then fails its NoStream condition and panics the consumer on every restart.
4. `AccountingProjectorPanics`. AccountOpened is inserted without ON CONFLICT, and the checkpoint is
   stored by a later transaction. After a crash in between the insert fails, and the projector
   panics on every restart (`projector.rs:36`); the streams behind it are no longer projected.

Seen while modelling and contained in the models or left out of them, without a run of their own:

- `append` locks one stream (`store/event.rs:69`) and updates the row of each (109-113): `RowsAfter`.
  The theorems of section 5 show that this loses no money and leaves no gap; it does make
  operations fail that need not, and drop saga replies.
- Nobody but the gateway looks at the sign of an amount (`handlers/accounting.rs:122, 188`). Accounting parses any decimal
  (`rpc.rs:64-69, 96-101`), `deposit` checks nothing and `withdraw` only `amount > balance` (`account.rs:34-57`); and
  `compose.yaml:410` publishes the port. So one gRPC deposit of a negative amount overdraws. Totals are not checked either:
  a quantity is any i32 (gateway `models.rs:151`, order `rpc.rs:112`), a price any decimal. A Withdraw of a negative total
  pays the consumer, and the refund takes it back from an account that may have been emptied. `OverdrawnByDepositsOnly` says
  that this is the only way; nothing in the repository promises that a balance is never negative, so it is no run that fails.
- Reject publishes OrderAuthorized (order `command_handlers.rs:58`); `order_rejected` (`events.rs:46`)
  is never called. `orderEvents` in `OrderService` says so.
- The kitchen publishes TicketAccepted from the row it read before the update, so `ready_by` is never set
  (kitchen `rpc.rs:204`, `events.rs:56`), and the delivery consumer panics on it for ever
  (`consumer.rs:84`): `Schedulable` is false for every order.
- The pickup's check is the wrong way round: a delivery without `pickup_time` is refused as picked up already,
  and one that has it may be picked up again (delivery `rpc.rs:175`): `PickupPermitted`. A dropoff asks
  for no pickup.
- The events of pickup and dropoff are built from the row as it was before (delivery `rpc.rs:191, 256`).
- A record that cannot be handled in the middle of a batch makes the ones before it be planned
  again: the second case of `RecordPanics`.
- A CreateTicket delivered twice violates the primary key, and the kitchen consumer panics on every
  restart (`consumer.rs:410`): `kitchenUp`.
- The gateway drops the orders of others after `list_order` has applied the limit
  (`handlers/order.rs:321`). Without `consumer_id`, a page of foreign orders comes out empty, and the
  client's own orders behind it are out of reach; `NothingSkipped` without `request.consumer` is
  violated.
- The comment at order `rpc.rs:198` says `id <`, the code says `id >`. The code is right, since it
  sorts by ascending id; the mutant that follows the comment skips orders.
- For `after`, `list_tickets` takes the tickets *below* the cursor in ascending order (kitchen
  `rpc.rs:64`), so that a client never gets beyond its first page; `before` mirrors it.

`DeadEnd` in `CreateOrderSaga` lists what `EveryOrderDecided` has to except: the panics of 1 and 3,
the kitchen's on a repeated CreateTicket, and a reply lost with a failed append (`service.rs:105, 176`).

## 7. What is not modelled

- The calls that only read: `list_tickets`, `list_accounts`, the single-row queries of every service,
  `get_courier_plan`, `get_delivery_status`, and the gateway's handlers around them.
- The gateway's data types (`models.rs`) and its routing. Its handlers of accounts are the gRPC
  calls of `AccountingService`; that a registered consumer may move money on its own account is the argument of
  `AccountingRpcStep`.
- Passphrases, token contents and expiry; menus.
- `proto/`, migrations, the workspace manifest: layouts and generated code; the primary keys
  and unique indexes the migrations declare are in the guards that depend on them.

## 8. The plan

The order is by how much depends on it.

1. Done: `SagaMessages`, the four services, `Accounting`, `CreateOrderSaga`, their runs, and their
   theorems.
2. Done: `OutboxRelay` with `AtLeastOnce` and `OutboxProofs`; `CheckpointStore`,
   `AccountingProducer`, `AccountingProjector`; `OrderPages`.
3. Done: `OrderOutcome`, the abstract promise to the person who orders, implemented by
   `CreateOrderSaga` for `MaxRedeliveries = 0`.
4. Done: `DeliveryService`, `AuthService`, `RestaurantService`, composed in `ApiGateway`, with
   `DeliveryProofs`; the producer's part of `CheckpointProofs`.
5. Done: `SagaCourseProofs`, the exactly-once invariant of the saga, what it implies, and the refinement
   of 3 step by step.
6. Done: `EventsAreHistory`; the projector's part of `CheckpointProofs`; `PagesProofs`. With them every safety property
   of the passing runs is a theorem.
7. Left: what a saga still guarantees for any number of redeliveries beyond `DecidedOnce` and `CompensationOneWay`;
   a progress measure for the saga, that each handled message takes it nearer to its end.
