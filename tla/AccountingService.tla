-------------------------- MODULE AccountingService --------------------------
(***************************************************************************)
(* The write side of the accounting service: one event stream per account, *)
(* the optimistic append of store/event.rs, the read-decide-append of      *)
(* service.rs, and the two kinds of process that run it: the one Kafka     *)
(* consumer, which takes the saga's Withdraw and Deposit commands and the  *)
(* ConsumerCreated events, and any number of concurrent gRPC calls.        *)
(*                                                                         *)
(* An account's stream is the set of the sequence numbers it holds and the *)
(* balance its events fold to.  A Withdraw or Deposit is two steps, because *)
(* nothing is locked between the read of the stream and the append.        *)
(* Nobody but the gateway looks at the sign of an amount: a total, and what *)
(* a gRPC call moves, may be negative.                                     *)
(***************************************************************************)
EXTENDS SagaMessages

CONSTANTS
    Total,           \* [Orders -> Int]: the sum of its line items
    AccountingRpcs,  \* gRPC calls of the accounting service in flight
    RpcAmounts,      \* amounts the gRPC calls deposit and withdraw
    MaxSequence,     \* bound: no gRPC call starts on a longer stream
    KafkaConsumer,   \* the consumer process
    NoOperation, NoMessage, NoConsumer

ASSUME AccountingConstants ==
    /\ Total \in [Orders -> Int]
    /\ RpcAmounts \subseteq Int
    /\ MaxSequence \in Nat
    /\ KafkaConsumer \notin AccountingRpcs
    /\ NoConsumer \notin Consumers
    /\ NoMessage \notin Messages

VARIABLES
    sequences,     \* events: account -> the sequence numbers in its stream
    balance,       \* account -> what the amounts in its stream add up to
    lastSequence,  \* event_stream.last_sequence: account -> NoRow or >= -1
    operations,    \* process -> what it has read and decided to append
    stuckOn,       \* the account whose ConsumerCreated panics the consumer
    charged,       \* history: order -> withdrawals minus deposits recorded
    dropped        \* history: orders whose reply was lost with its append

accountingVars == <<sequences, balance, lastSequence, operations, stuckOn,
                    charged, dropped>>

-----------------------------------------------------------------------------
Processes == AccountingRpcs \cup {KafkaConsumer}

NoRow == -2

(***************************************************************************)
(* What a process carries from its read to its append: the last sequence   *)
(* number it saw, the kind of event it decided on (succeed) with its       *)
(* signed amount, and the command to answer, if it is one.                 *)
(***************************************************************************)
Operations ==
    [account : Consumers, last : Int, kind : {"Deposit", "Withdraw"},
     succeed : BOOLEAN, delta : Int, message : Messages \cup {NoMessage}]

ASSUME NoOperationIsNone == NoOperation \notin Operations

\* AccountStore::get: the sequence number of the last event, -1 if none.
LastOf(S) ==
    IF S = {} THEN -1 ELSE CHOOSE s \in S : \A t \in S : t <= s

\* Account::withdraw and Account::deposit on the balance that was read.
Decide(kind, amount, funds) == kind = "Deposit" \/ amount <= funds

Delta(kind, amount) == IF kind = "Deposit" THEN amount ELSE -amount

\* How many events the operation appends: its own, and CommandReplyRequested.
EventCount(op) ==
    (IF op.succeed THEN 1 ELSE 0) + (IF op.message = NoMessage THEN 0 ELSE 1)

\* Mutant: the row of a new stream is not initialised.
RowOfUninitialised(a) == lastSequence[a]

\* The row append finds after it has inserted one where there was none.
RowOf(a) == IF lastSequence[a] = NoRow THEN -1 ELSE lastSequence[a]

AccountingInit ==
    /\ sequences = [a \in Consumers |-> {}]
    /\ balance = [a \in Consumers |-> 0]
    /\ lastSequence = [a \in Consumers |-> NoRow]
    /\ operations = [p \in Processes |-> NoOperation]
    /\ stuckOn = NoConsumer
    /\ charged = [o \in Orders |-> 0]
    /\ dropped = {}

-----------------------------------------------------------------------------
\* Mutant: the stream is read again for the condition.
ConditionReread(op) == RowOf(op.account) = LastOf(sequences[op.account])

\* ExpectLastSequence, against the row and not against the events.
ConditionHolds(op) == RowOf(op.account) = op.last

\* The unique index on (stream_name, sequence).
IndexAllows(a, n) == ((RowOf(a) + 1)..(RowOf(a) + n)) \cap sequences[a] = {}

(***************************************************************************)
(* EventStore::append, success: n events after the row of a.  The closing  *)
(* UPDATE has no WHERE clause, so it sets last_sequence in every row.      *)
(***************************************************************************)
RowsAfter(a, n) ==
    [b \in Consumers |->
        IF b = a \/ lastSequence[b] # NoRow THEN RowOf(a) + n ELSE NoRow]

WriteStream(a, n, delta) ==
    /\ sequences' = [sequences EXCEPT ![a] =
                        @ \cup ((RowOf(a) + 1)..(RowOf(a) + n))]
    /\ lastSequence' = RowsAfter(a, n)
    /\ balance' = [balance EXCEPT ![a] = @ + delta]

\* service.get, then Account::withdraw or ::deposit: nothing is written yet.
Start(p, a, kind, amount, m) ==
    /\ operations[p] = NoOperation
    /\ LET succeed == Decide(kind, amount, balance[a])
       IN  operations' = [operations EXCEPT ![p] =
             [account |-> a, last |-> LastOf(sequences[a]), kind |-> kind,
              succeed |-> succeed,
              delta |-> IF succeed THEN Delta(kind, amount) ELSE 0,
              message |-> m]]
    /\ UNCHANGED <<messageVars, sequences, balance, lastSequence, stuckOn,
                   charged, dropped>>

RpcStart(p, a, kind, amount) ==
    /\ p \in AccountingRpcs
    /\ LastOf(sequences[a]) < MaxSequence
    /\ Start(p, a, kind, amount, NoMessage)

StartCommand(m) ==
    /\ m.type \in {"Withdraw", "Deposit"}
    /\ Start(KafkaConsumer, ConsumerOf[m.order], m.type, Total[m.order], m)

\* Mutant: the reply is sent beside the append and not by it.
FinishAlwaysReplying(p, out) ==
    /\ operations' = [operations EXCEPT ![p] = NoOperation]
    /\ IF operations[p].message = NoMessage
       THEN UNCHANGED messageVars
       ELSE Consume(stuckOn = NoConsumer, operations[p].message,
                    {ReplyTo(operations[p].message, operations[p].succeed, FALSE)})
    /\ UNCHANGED stuckOn

\* The operation is over; a command has been handled and out sent.
Finish(p, out) ==
    /\ operations' = [operations EXCEPT ![p] = NoOperation]
    /\ IF operations[p].message = NoMessage
       THEN UNCHANGED messageVars
       ELSE Consume(stuckOn = NoConsumer, operations[p].message, out)
    /\ UNCHANGED stuckOn

(***************************************************************************)
(* The append commits.  The CommandReplyRequested event it stores is what  *)
(* producer.rs turns into the record on the reply channel.                 *)
(***************************************************************************)
AppendCommits(p) ==
    /\ operations[p] # NoOperation
    /\ LET op == operations[p]
           m  == op.message
       IN  /\ ConditionHolds(op)
           /\ IndexAllows(op.account, EventCount(op))
           /\ WriteStream(op.account, EventCount(op), op.delta)
           /\ Finish(p, {ReplyTo(m, op.succeed, FALSE)})
           /\ charged' =
                IF m = NoMessage \/ ~op.succeed THEN charged
                ELSE [charged EXCEPT ![m.order] =
                         IF m.type = "Withdraw" THEN @ + 1 ELSE @ - 1]
    /\ UNCHANGED dropped

\* Two appends to different streams each hold a row that the other updates.
MayDeadlock(p) ==
    \E q \in Processes \ {p} :
        /\ operations[q] # NoOperation
        /\ operations[q].account # operations[p].account

(***************************************************************************)
(* The append fails and rolls back: the condition, the unique index on     *)
(* (stream_name, sequence), or a deadlock.  deposit and withdraw discard   *)
(* the error (let _ =), so the command counts as handled, with no event    *)
(* and no reply.                                                           *)
(***************************************************************************)
AppendFails(p) ==
    /\ operations[p] # NoOperation
    /\ LET op == operations[p]
       IN  /\ \/ ~ConditionHolds(op)
              \/ ~IndexAllows(op.account, EventCount(op))
              \/ MayDeadlock(p)
           /\ Finish(p, {})
           /\ dropped' = IF op.message = NoMessage THEN dropped
                         ELSE dropped \cup {op.message.order}
    /\ UNCHANGED <<sequences, balance, lastSequence, charged>>

-----------------------------------------------------------------------------
(***************************************************************************)
(* ConsumerCreated opens the account, on condition NoStream.  When the     *)
(* append fails, process returns Err, the loop's expect panics, and the    *)
(* restarted consumer reads the same record first.                         *)
(***************************************************************************)
\* Mutant: no NoStream condition.
MayOpenAnyStream(a) == IndexAllows(a, 1)

MayOpen(a) == RowOf(a) < 0 /\ IndexAllows(a, 1)

MayTake(a) ==
    /\ operations[KafkaConsumer] = NoOperation
    /\ a \in consumerEvents
    /\ stuckOn \in {NoConsumer, a}

OpenAccount(a) ==
    /\ MayTake(a)
    /\ MayOpen(a)
    /\ WriteStream(a, 1, 0)
    /\ stuckOn' = NoConsumer
    /\ ConsumeConsumerEvent(a)
    /\ UNCHANGED <<operations, charged, dropped>>

OpenAccountPanics(a) ==
    /\ MayTake(a)
    /\ ~MayOpen(a)
    /\ stuckOn = NoConsumer
    /\ stuckOn' = a
    /\ UNCHANGED <<messageVars, sequences, balance, lastSequence, operations,
                   charged, dropped>>

-----------------------------------------------------------------------------
\* This step appends a deposit of p, of a negative amount, to the stream of a.
TakesByDeposit(p, a) ==
    /\ operations[p] # NoOperation
    /\ operations[p].account = a
    /\ operations[p].kind = "Deposit"
    /\ operations[p].delta < 0
    /\ operations'[p] = NoOperation

(***************************************************************************)
(* No withdrawal, of the saga or by gRPC, overdraws an account or an       *)
(* overdrawn account further, although each is decided on a balance read   *)
(* before anything was locked, by calls that run concurrently              *)
(* (service.rs:125-183, account.rs:57).  Only a deposit of a negative      *)
(* amount, which account.rs:34-50 does not refuse, does.                   *)
(***************************************************************************)
FallsByDeposit(a) ==
    balance'[a] < balance[a] /\ balance'[a] < 0 =>
        \E p \in Processes : TakesByDeposit(p, a)

OverdrawnByDepositsOnly ==
    [][\A a \in Consumers : FallsByDeposit(a)]_accountingVars

(***************************************************************************)
(* Where no amount is negative, as the gateway sees to for its own calls   *)
(* (handlers/accounting.rs:122, 188), no account is ever overdrawn.        *)
(***************************************************************************)
NoNegativeAmounts ==
    /\ \A o \in Orders : Total[o] >= 0
    /\ \A amount \in RpcAmounts : amount >= 0

BalanceNeverNegative == \A a \in Consumers : balance[a] >= 0

(***************************************************************************)
(* The events of a stream are numbered 0, 1, 2, ... without a gap,         *)
(* although every append overwrites the last_sequence of all the other     *)
(* streams (store/event.rs:109-113): replaying a stream in sequence order  *)
(* (read_stream) misses nothing.                                           *)
(***************************************************************************)
StreamsGapless ==
    \A a \in Consumers :
        \A s \in sequences[a] : \A t \in 0..s : t \in sequences[a]

-----------------------------------------------------------------------------
AccountingConsumerNext ==
    \/ \E m \in pending : StartCommand(m)
    \/ AppendCommits(KafkaConsumer)
    \/ AppendFails(KafkaConsumer)
    \/ \E a \in Consumers : OpenAccount(a) \/ OpenAccountPanics(a)

AccountingRpcNext(accounts) ==
    \E p \in AccountingRpcs :
        \/ \E a \in accounts, kind \in {"Deposit", "Withdraw"},
              amount \in RpcAmounts : RpcStart(p, a, kind, amount)
        \/ AppendCommits(p)
        \/ AppendFails(p)

AccountingTypeOK ==
    /\ sequences \in [Consumers -> SUBSET Nat]
    /\ balance \in [Consumers -> Int]
    /\ lastSequence \in [Consumers -> Int]
    /\ \A a \in Consumers : lastSequence[a] >= NoRow
    /\ operations \in [Processes -> Operations \cup {NoOperation}]
    /\ stuckOn \in Consumers \cup {NoConsumer}
    /\ charged \in [Orders -> Int]
    /\ dropped \subseteq Orders
=============================================================================
