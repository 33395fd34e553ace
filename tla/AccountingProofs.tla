-------------------------- MODULE AccountingProofs --------------------------
(***************************************************************************)
(* Why the accounting service keeps its streams gapless and overdraws no   *)
(* account by a withdrawal, for any number of consumers, gRPC calls and    *)
(* redeliveries, and any amounts, negative ones too.  The argument does not use last_sequence of the row: an   *)
(* append overwrites the rows of all the streams, so that number says      *)
(* nothing about the stream it stands for.  What protects a stream is      *)
(* ExpectLastSequence and the unique index together.  The lemmas are about *)
(* the service in any environment; the theorems at the end are about it on *)
(* its own (module Accounting).                                            *)
(***************************************************************************)
EXTENDS Accounting, TLAPS

-----------------------------------------------------------------------------
\* Only the consumer works on commands, one that is still in flight.
CommandAtHand ==
    \A p \in Processes :
        operations[p] # NoOperation =>
            \/ operations[p].message = NoMessage
            \/ /\ p = KafkaConsumer
               /\ operations[p].message \in pending
               /\ operations[p].message.type \in {"Withdraw", "Deposit"}

\* Every stream is 0, 1, ..., n-1 for some n.
StreamsDense ==
    \A a \in Consumers : \E n \in Nat : sequences[a] = 0..(n - 1)

(***************************************************************************)
(* What a process has read is a prefix of the stream; a refused operation  *)
(* has no amount; and if nothing has been appended since the read, the     *)
(* balance still covers the withdrawal.                                    *)
(***************************************************************************)
SoundOperation(op) ==
    /\ -1 <= op.last
    /\ op.last <= LastOf(sequences[op.account])
    /\ ~op.succeed => op.delta = 0
    /\ op.succeed /\ op.kind = "Withdraw"
       /\ op.last = LastOf(sequences[op.account])
          => balance[op.account] + op.delta >= 0

OperationsSound ==
    \A p \in Processes :
        operations[p] # NoOperation => SoundOperation(operations[p])

AccountingInv ==
    /\ MessagesTypeOK
    /\ AccountingTypeOK
    /\ StreamsDense
    /\ OperationsSound

-----------------------------------------------------------------------------
\* The last sequence number of a dense stream of n events is n - 1.
LEMMA LastOfDense ==
    ASSUME NEW n \in Nat
    PROVE  LastOf(0..(n - 1)) = n - 1
<1>1. CASE n = 0
  <2>1. 0..(n - 1) = {}
    BY <1>1
  <2> QED BY <1>1, <2>1 DEF LastOf
<1>2. CASE n # 0
  <2> DEFINE S == 0..(n - 1)
  <2>1. n - 1 \in S /\ \A t \in S : t <= n - 1
    BY <1>2
  <2>2. S # {}
    BY <2>1
  <2>3. \A s \in S : (\A t \in S : t <= s) => s = n - 1
    BY <2>1
  <2> QED BY <2>1, <2>2, <2>3 DEF LastOf
<1> QED BY <1>1, <1>2

\* A dense stream has no gap (StreamsGapless, read_stream's replay).
LEMMA DenseIsGapless == StreamsDense => StreamsGapless
<1> SUFFICES ASSUME StreamsDense, NEW a \in Consumers,
                    NEW s \in sequences[a], NEW t \in 0..s
             PROVE  t \in sequences[a]
  BY DEF StreamsGapless
<1>1. PICK n \in Nat : sequences[a] = 0..(n - 1)
  BY DEF StreamsDense
<1> QED BY <1>1

\* A reply to a command is a message (AcceptedMessage::reply).
LEMMA ReplyIsMessage ==
    ASSUME NEW m \in Messages, NEW ok \in BOOLEAN, NEW body \in BOOLEAN
    PROVE  ReplyTo(m, ok, body) \in Messages
BY DEF ReplyTo, Messages

\* Without redelivery a message that is handled is gone.
LEMMA ConsumeOnce ==
    ASSUME MaxRedeliveries = 0, MessagesTypeOK, NEW up, NEW m, NEW out,
           Consume(up, m, out)
    PROVE  pending' = (pending \ {m}) \cup out
BY DEF Consume, MessagesTypeOK

\* Handling a message leaves well-formed messages behind (producer.rs, and
\* the consumer loops' commit_consumed).
LEMMA ConsumeType ==
    ASSUME MessagesTypeOK, NEW up, NEW m \in Messages,
           NEW out \in SUBSET Messages, Consume(up, m, out)
    PROVE  MessagesTypeOK'
<1>1. redeliveries \in Nat /\ MaxRedeliveries \in Nat
  BY SagaConstants DEF MessagesTypeOK
<1>2. Again(m) \in Messages
  BY <1>1 DEF Again, Messages
<1>3. pending' \subseteq Messages
  BY <1>2 DEF Consume, MessagesTypeOK
<1>4. redeliveries' \in 0..MaxRedeliveries
  BY <1>1 DEF Consume, MessagesTypeOK
<1> QED BY <1>3, <1>4 DEF Consume, MessagesTypeOK

\* The row an append finds is -1 or a sequence number.
LEMMA RowOfType ==
    ASSUME AccountingTypeOK, NEW a \in Consumers
    PROVE  RowOf(a) \in Int /\ RowOf(a) >= -1
BY DEF AccountingTypeOK, RowOf, NoRow

-----------------------------------------------------------------------------
\* Init of the write side satisfies the invariant.
LEMMA AccountingInitInv ==
    ASSUME AccountingInit, MessagesTypeOK
    PROVE  AccountingInv
<1>1. AccountingTypeOK
  BY AccountingConstants DEF AccountingInit, AccountingTypeOK, NoRow
<1>2. StreamsDense
  <2>1. {} = 0..(0 - 1)
    OBVIOUS
  <2> QED BY <2>1 DEF AccountingInit, StreamsDense
<1>3. OperationsSound
  BY DEF AccountingInit, OperationsSound
<1> QED BY <1>1, <1>2, <1>3 DEF AccountingInv

\* Nothing the invariant speaks of changes but the messages.
LEMMA AccountingStutter ==
    ASSUME AccountingInv, MessagesTypeOK', UNCHANGED accountingVars
    PROVE  AccountingInv'
<1>1. AccountingTypeOK'
  BY DEF AccountingInv, AccountingTypeOK, accountingVars
<1>2. StreamsDense'
  BY DEF AccountingInv, StreamsDense, accountingVars
<1>3. OperationsSound'
  BY DEF AccountingInv, OperationsSound, SoundOperation, accountingVars, LastOf
<1> QED BY <1>1, <1>2, <1>3 DEF AccountingInv

-----------------------------------------------------------------------------
\* The read half of deposit and withdraw: what a process takes with it is
\* sound, because it has just been read (service.rs:54-58, 125-129).
LEMMA StartInv ==
    ASSUME AccountingInv,
           NEW p \in Processes, NEW a \in Consumers,
           NEW kind \in {"Deposit", "Withdraw"}, NEW amount \in Int,
           NEW m \in Messages \cup {NoMessage},
           Start(p, a, kind, amount, m)
    PROVE  AccountingInv'
<1> DEFINE succeed == Decide(kind, amount, balance[a])
           delta   == IF succeed THEN Delta(kind, amount) ELSE 0
           new     == [account |-> a, last |-> LastOf(sequences[a]),
                       kind |-> kind, succeed |-> succeed, delta |-> delta,
                       message |-> m]
<1>1. operations' = [operations EXCEPT ![p] = new]
  BY DEF Start
<1>2. UNCHANGED <<messageVars, sequences, balance, lastSequence, stuckOn,
                  charged, dropped>>
  BY DEF Start
<1>3. PICK n \in Nat : sequences[a] = 0..(n - 1)
  BY DEF AccountingInv, StreamsDense
<1>4. LastOf(sequences[a]) = n - 1
  BY <1>3, LastOfDense
<1>5. balance[a] \in Int
  BY DEF AccountingInv, AccountingTypeOK
<1>6. succeed \in BOOLEAN
  BY DEF Decide
<1>7. /\ delta \in Int
      /\ succeed /\ kind = "Withdraw" => balance[a] + delta >= 0
  BY <1>5 DEF Decide, Delta
<1>8. new \in Operations
  BY <1>4, <1>6, <1>7 DEF Operations
<1>9. operations \in [Processes -> Operations \cup {NoOperation}]
  BY DEF AccountingInv, AccountingTypeOK
<1> HIDE DEF new
<1>10. operations' \in [Processes -> Operations \cup {NoOperation}]
  BY <1>1, <1>8, <1>9
<1>11. AccountingTypeOK'
  BY <1>2, <1>10 DEF AccountingInv, AccountingTypeOK
<1>12. MessagesTypeOK' /\ StreamsDense'
  BY <1>2 DEF AccountingInv, MessagesTypeOK, messageVars, StreamsDense
<1>13. OperationsSound'
  <2> SUFFICES ASSUME NEW q \in Processes, operations'[q] # NoOperation
               PROVE  SoundOperation(operations[q])'
    BY DEF OperationsSound
  <2>1. CASE q = p
    <3>1. operations'[q] = new
      BY <2>1, <1>1, <1>9
    <3>2. new.account = a /\ new.last = n - 1
      BY <1>4 DEF new
    <3>3. ~new.succeed => new.delta = 0
      BY DEF new
    <3>4. new.delta = delta /\ new.kind = kind /\ new.succeed = succeed
      BY DEF new
    <3> HIDE DEF delta, succeed
    <3> QED BY <3>1, <3>2, <3>3, <3>4, <1>2, <1>4, <1>7
            DEF SoundOperation, LastOf
  <2>2. CASE q # p
    <3>1. operations'[q] = operations[q]
      BY <2>2, <1>1, <1>9
    <3> QED BY <3>1, <1>2 DEF SoundOperation, AccountingInv, OperationsSound,
                              LastOf
  <2> QED BY <2>1, <2>2
<1> QED BY <1>11, <1>12, <1>13 DEF AccountingInv

\* An operation that appends an event does so right behind the last one of
\* its stream: any other place is taken already (store/event.rs:78-108).
LEMMA AppendPlace ==
    ASSUME AccountingInv, NEW p \in Processes, operations[p] # NoOperation,
           ConditionHolds(operations[p]),
           IndexAllows(operations[p].account, EventCount(operations[p]))
    PROVE  \/ /\ EventCount(operations[p]) = 0
              /\ operations[p].delta = 0
           \/ /\ EventCount(operations[p]) \in {1, 2}
              /\ RowOf(operations[p].account)
                    = LastOf(sequences[operations[p].account])
              /\ operations[p].last
                    = LastOf(sequences[operations[p].account])
<1> DEFINE op == operations[p]
           a  == op.account
           k  == EventCount(op)
<1>1. op \in Operations
  BY DEF AccountingInv, AccountingTypeOK
<1>2. a \in Consumers /\ op.last \in Int /\ op.succeed \in BOOLEAN
  BY <1>1 DEF Operations
<1>3. PICK n \in Nat : sequences[a] = 0..(n - 1)
  BY <1>2 DEF AccountingInv, StreamsDense
<1>4. LastOf(sequences[a]) = n - 1
  BY <1>3, LastOfDense
<1>5. SoundOperation(op)
  BY DEF AccountingInv, OperationsSound
<1>6. k \in {0, 1, 2} /\ (k = 0 => ~op.succeed)
  BY <1>2 DEF EventCount
<1>7. RowOf(a) = op.last
  BY DEF ConditionHolds
<1>8. -1 <= op.last /\ op.last <= n - 1 /\ (~op.succeed => op.delta = 0)
  BY <1>4, <1>5 DEF SoundOperation
<1>9. ((op.last + 1)..(op.last + k)) \cap (0..(n - 1)) = {}
  BY <1>3, <1>7 DEF IndexAllows
<1> HIDE DEF op, a, k
<1>10. k # 0 => op.last = n - 1
  <2> SUFFICES ASSUME k # 0, op.last # n - 1
               PROVE  FALSE
    OBVIOUS
  <2>1. op.last + 1 \in (op.last + 1)..(op.last + k)
    BY <1>2, <1>6
  <2>2. op.last + 1 \in 0..(n - 1)
    BY <1>2, <1>8
  <2> QED BY <2>1, <2>2, <1>9
<1>11. CASE k = 0
  BY <1>6, <1>8, <1>11 DEF op, k
<1>12. CASE k # 0
  <2>1. k \in {1, 2} /\ RowOf(a) = n - 1 /\ op.last = n - 1
    BY <1>6, <1>7, <1>10, <1>12
  <2> QED BY <2>1, <1>4 DEF op, k, a
<1> QED BY <1>11, <1>12

\* What the event store writes, when it writes behind the last event of the
\* stream, keeps the streams dense and outdates every other operation on it.
LEMMA WriteInv ==
    ASSUME AccountingInv,
           NEW a \in Consumers, NEW k \in {0, 1, 2}, NEW delta \in Int,
           WriteStream(a, k, delta),
           \/ k = 0 /\ delta = 0
           \/ k # 0 /\ RowOf(a) = LastOf(sequences[a])
    PROVE  /\ sequences' \in [Consumers -> SUBSET Nat]
           /\ balance' \in [Consumers -> Int]
           /\ lastSequence' \in [Consumers -> Int]
           /\ \A b \in Consumers : lastSequence'[b] >= NoRow
           /\ StreamsDense'
           /\ \A op \in Operations : SoundOperation(op) => SoundOperation(op)'
<1>1. /\ sequences \in [Consumers -> SUBSET Nat]
      /\ balance \in [Consumers -> Int]
      /\ lastSequence \in [Consumers -> Int]
      /\ \A b \in Consumers : lastSequence[b] >= NoRow
  BY DEF AccountingInv, AccountingTypeOK
<1>2. RowOf(a) \in Int /\ RowOf(a) >= -1
  BY RowOfType DEF AccountingInv
<1>3. PICK n \in Nat : sequences[a] = 0..(n - 1)
  BY DEF AccountingInv, StreamsDense
<1>4. LastOf(sequences[a]) = n - 1
  BY <1>3, LastOfDense
<1>5. sequences'[a] = sequences[a] \cup ((RowOf(a) + 1)..(RowOf(a) + k))
  BY <1>1 DEF WriteStream
<1>6. sequences'[a] = 0..((n + k) - 1)
  <2>1. CASE k = 0
    BY <2>1, <1>2, <1>3, <1>5
  <2>2. CASE k # 0
    <3>1. RowOf(a) = n - 1
      BY <2>2, <1>4
    <3> QED BY <3>1, <1>3, <1>5
  <2> QED BY <2>1, <2>2
<1>7. n + k \in Nat /\ LastOf(sequences'[a]) = (n + k) - 1
  <2>1. n + k \in Nat
    OBVIOUS
  <2> QED BY <2>1, <1>6, LastOfDense
<1>8. \A b \in Consumers \ {a} : sequences'[b] = sequences[b]
  BY <1>1 DEF WriteStream
<1>9. /\ balance' \in [Consumers -> Int]
      /\ balance'[a] = balance[a] + delta
      /\ \A b \in Consumers \ {a} : balance'[b] = balance[b]
  BY <1>1 DEF WriteStream
<1>10. sequences' \in [Consumers -> SUBSET Nat]
  <2>1. sequences'[a] \in SUBSET Nat
    BY <1>6
  <2> QED BY <2>1, <1>1, <1>5 DEF WriteStream
<1>11. /\ lastSequence' \in [Consumers -> Int]
       /\ \A b \in Consumers : lastSequence'[b] >= NoRow
  BY <1>1, <1>2 DEF WriteStream, RowsAfter, NoRow
<1>12. StreamsDense'
  <2> SUFFICES ASSUME NEW b \in Consumers
               PROVE  \E j \in Nat : sequences'[b] = 0..(j - 1)
    BY DEF StreamsDense
  <2>1. CASE b = a
    BY <2>1, <1>6, <1>7
  <2>2. CASE b # a
    BY <2>2, <1>8 DEF AccountingInv, StreamsDense
  <2> QED BY <2>1, <2>2
<1>13. ASSUME NEW op \in Operations, SoundOperation(op)
       PROVE  SoundOperation(op)'
  <2>1. op.account \in Consumers /\ op.last \in Int /\ op.delta \in Int
    BY DEF Operations
  <2>2. CASE op.account # a
    BY <2>1, <2>2, <1>8, <1>9, <1>13 DEF SoundOperation, LastOf
  <2>3. CASE op.account = a
    <3>1. /\ -1 <= op.last /\ op.last <= n - 1
          /\ ~op.succeed => op.delta = 0
          /\ op.succeed /\ op.kind = "Withdraw" /\ op.last = n - 1
                => balance[a] + op.delta >= 0
      BY <2>3, <1>4, <1>13 DEF SoundOperation
    <3>2. op.last <= (n + k) - 1
      BY <2>1, <3>1
    <3>3. op.succeed /\ op.kind = "Withdraw" /\ op.last = (n + k) - 1
             => balance'[a] + op.delta >= 0
      BY <2>1, <3>1, <1>1, <1>9
    <3>4. LastOf(sequences[op.account])' = (n + k) - 1
      BY <2>3, <1>7 DEF LastOf
    <3> QED BY <2>3, <3>1, <3>2, <3>3, <3>4 DEF SoundOperation
  <2> QED BY <2>2, <2>3
<1> QED BY <1>9, <1>10, <1>11, <1>12, <1>13

\* Ending an operation answers its command, if it has one (service.rs:176).
LEMMA FinishInv ==
    ASSUME AccountingInv, NEW p \in Processes, operations[p] # NoOperation,
           NEW out, Finish(p, out),
           operations[p].message # NoMessage => out \subseteq Messages
    PROVE  /\ MessagesTypeOK'
           /\ stuckOn' = stuckOn
           /\ operations' \in [Processes -> Operations \cup {NoOperation}]
           /\ \A q \in Processes :
                 operations'[q] # NoOperation => operations'[q] = operations[q]
<1>1. operations \in [Processes -> Operations \cup {NoOperation}]
  BY DEF AccountingInv, AccountingTypeOK
<1>2. operations' = [operations EXCEPT ![p] = NoOperation]
  BY DEF Finish
<1>3. MessagesTypeOK'
  <2>1. CASE operations[p].message = NoMessage
    BY <2>1 DEF Finish, AccountingInv, MessagesTypeOK, messageVars
  <2>2. CASE operations[p].message # NoMessage
    <3>1. operations[p].message \in Messages
      BY <1>1, <2>2 DEF Operations
    <3>2. Consume(stuckOn = NoConsumer, operations[p].message, out)
      BY <2>2 DEF Finish
    <3> QED BY <2>2, <3>1, <3>2, ConsumeType DEF AccountingInv
  <2> QED BY <2>1, <2>2
<1> QED BY <1>1, <1>2, <1>3 DEF Finish

\* The append that commits (store/event.rs:48-123).
LEMMA AppendCommitsInv ==
    ASSUME AccountingInv, NEW p \in Processes, AppendCommits(p)
    PROVE  AccountingInv'
<1> DEFINE op == operations[p]
           k  == EventCount(op)
<1>1. /\ op # NoOperation
      /\ ConditionHolds(op) /\ IndexAllows(op.account, k)
      /\ WriteStream(op.account, k, op.delta)
      /\ Finish(p, {ReplyTo(op.message, op.succeed, FALSE)})
      /\ dropped' = dropped
  BY DEF AppendCommits
<1>2. op \in Operations
  BY <1>1 DEF AccountingInv, AccountingTypeOK
<1>3. op.account \in Consumers /\ op.delta \in Int /\ op.succeed \in BOOLEAN
      /\ op.message \in Messages \cup {NoMessage}
  BY <1>2 DEF Operations
<1>4. k \in {0, 1, 2}
  BY <1>3 DEF EventCount
<1>5. \/ k = 0 /\ op.delta = 0
      \/ k # 0 /\ RowOf(op.account) = LastOf(sequences[op.account])
  BY <1>1, AppendPlace
<1>6. op.message # NoMessage
         => {ReplyTo(op.message, op.succeed, FALSE)} \subseteq Messages
  BY <1>3, ReplyIsMessage
<1>7. /\ MessagesTypeOK' /\ stuckOn' = stuckOn
      /\ operations' \in [Processes -> Operations \cup {NoOperation}]
      /\ \A q \in Processes :
            operations'[q] # NoOperation => operations'[q] = operations[q]
  BY <1>1, <1>6, FinishInv
<1>8. charged' \in [Orders -> Int]
  <2>1. charged \in [Orders -> Int]
    BY DEF AccountingInv, AccountingTypeOK
  <2>2. op.message # NoMessage => op.message.order \in Orders
    BY <1>3 DEF Messages
  <2> QED BY <2>1, <2>2 DEF AppendCommits
<1> HIDE DEF op, k
<1>9. /\ sequences' \in [Consumers -> SUBSET Nat]
      /\ balance' \in [Consumers -> Int]
      /\ lastSequence' \in [Consumers -> Int]
      /\ \A b \in Consumers : lastSequence'[b] >= NoRow
      /\ StreamsDense'
      /\ \A o \in Operations : SoundOperation(o) => SoundOperation(o)'
  BY <1>1, <1>3, <1>4, <1>5, WriteInv
<1>10. AccountingTypeOK'
  BY <1>1, <1>7, <1>8, <1>9 DEF AccountingInv, AccountingTypeOK
<1>11. OperationsSound'
  <2> SUFFICES ASSUME NEW q \in Processes, operations'[q] # NoOperation
               PROVE  SoundOperation(operations[q])'
    BY DEF OperationsSound
  <2>1. operations'[q] = operations[q] /\ operations[q] # NoOperation
    BY <1>7
  <2>2. operations[q] \in Operations /\ SoundOperation(operations[q])
    BY <2>1 DEF AccountingInv, AccountingTypeOK, OperationsSound
  <2>3. PICK o \in Operations : o = operations[q]
    BY <2>2
  <2>4. SoundOperation(o)'
    BY <1>9, <2>2, <2>3
  <2> QED BY <2>1, <2>3, <2>4 DEF SoundOperation, LastOf
<1> QED BY <1>7, <1>9, <1>10, <1>11 DEF AccountingInv

\* The append that rolls back, its error discarded (service.rs:105, 176).
LEMMA AppendFailsInv ==
    ASSUME AccountingInv, NEW p \in Processes, AppendFails(p)
    PROVE  AccountingInv'
<1>1. /\ operations[p] # NoOperation
      /\ Finish(p, {})
      /\ UNCHANGED <<sequences, balance, lastSequence, charged>>
  BY DEF AppendFails
<1>2. /\ MessagesTypeOK' /\ stuckOn' = stuckOn
      /\ operations' \in [Processes -> Operations \cup {NoOperation}]
      /\ \A q \in Processes :
            operations'[q] # NoOperation => operations'[q] = operations[q]
  BY <1>1, FinishInv
<1>3. dropped' \subseteq Orders
  <2>1. dropped \subseteq Orders /\ operations[p] \in Operations
    BY <1>1 DEF AccountingInv, AccountingTypeOK
  <2>2. operations[p].message # NoMessage
           => operations[p].message.order \in Orders
    BY <2>1 DEF Operations, Messages
  <2> QED BY <2>1, <2>2 DEF AppendFails
<1>4. AccountingTypeOK'
  BY <1>1, <1>2, <1>3 DEF AccountingInv, AccountingTypeOK
<1>5. StreamsDense'
  BY <1>1 DEF AccountingInv, StreamsDense
<1>6. OperationsSound'
  BY <1>1, <1>2 DEF AccountingInv, OperationsSound, SoundOperation, LastOf
<1> QED BY <1>2, <1>4, <1>5, <1>6 DEF AccountingInv

\* ConsumerCreated opens an account: with NoStream and the index satisfied,
\* the stream is still empty (service.rs:25-44).
LEMMA OpenAccountInv ==
    ASSUME AccountingInv, NEW a \in Consumers, OpenAccount(a)
    PROVE  AccountingInv'
<1>1. /\ RowOf(a) < 0 /\ IndexAllows(a, 1)
      /\ WriteStream(a, 1, 0)
      /\ stuckOn' = NoConsumer
      /\ ConsumeConsumerEvent(a)
      /\ UNCHANGED <<operations, charged, dropped>>
  BY DEF OpenAccount, MayOpen
<1>2. RowOf(a) = -1
  BY <1>1, RowOfType DEF AccountingInv
<1>3. PICK n \in Nat : sequences[a] = 0..(n - 1)
  BY DEF AccountingInv, StreamsDense
<1>4. n = 0
  <2>1. 0 \notin sequences[a]
    BY <1>1, <1>2 DEF IndexAllows
  <2> QED BY <2>1, <1>3
<1>5. LastOf(sequences[a]) = -1
  BY <1>3, <1>4, LastOfDense
<1>6. /\ sequences' \in [Consumers -> SUBSET Nat]
      /\ balance' \in [Consumers -> Int]
      /\ lastSequence' \in [Consumers -> Int]
      /\ \A b \in Consumers : lastSequence'[b] >= NoRow
      /\ StreamsDense'
      /\ \A o \in Operations : SoundOperation(o) => SoundOperation(o)'
  BY <1>1, <1>2, <1>5, WriteInv
<1>7. MessagesTypeOK'
  BY <1>1, SagaConstants
     DEF ConsumeConsumerEvent, AccountingInv, MessagesTypeOK
<1>8. AccountingTypeOK'
  BY <1>1, <1>6 DEF AccountingInv, AccountingTypeOK
<1>9. OperationsSound'
  <2> SUFFICES ASSUME NEW q \in Processes, operations'[q] # NoOperation
               PROVE  SoundOperation(operations[q])'
    BY DEF OperationsSound
  <2>1. operations'[q] = operations[q]
    BY <1>1
  <2>2. operations[q] \in Operations /\ SoundOperation(operations[q])
    BY <2>1 DEF AccountingInv, AccountingTypeOK, OperationsSound
  <2>3. PICK o \in Operations : o = operations[q]
    BY <2>2
  <2>4. SoundOperation(o)'
    BY <1>6, <2>2, <2>3
  <2> QED BY <2>1, <2>3, <2>4 DEF SoundOperation, LastOf
<1> QED BY <1>6, <1>7, <1>8, <1>9 DEF AccountingInv

\* A record that cannot open its account changes nothing but the process.
LEMMA OpenAccountPanicsInv ==
    ASSUME AccountingInv, NEW a \in Consumers, OpenAccountPanics(a)
    PROVE  AccountingInv'
<1>1. UNCHANGED <<messageVars, sequences, balance, lastSequence, operations,
                  charged, dropped>>
      /\ stuckOn' = a
  BY DEF OpenAccountPanics
<1>2. MessagesTypeOK' /\ StreamsDense'
  BY <1>1 DEF AccountingInv, MessagesTypeOK, messageVars, StreamsDense
<1>3. AccountingTypeOK'
  BY <1>1 DEF AccountingInv, AccountingTypeOK
<1>4. OperationsSound'
  BY <1>1 DEF AccountingInv, OperationsSound, SoundOperation, LastOf
<1> QED BY <1>2, <1>3, <1>4 DEF AccountingInv

-----------------------------------------------------------------------------
\* Every step of the Kafka consumer keeps the invariant.
LEMMA AccountingConsumerInv ==
    ASSUME AccountingInv, AccountingConsumerNext
    PROVE  AccountingInv'
<1>1. KafkaConsumer \in Processes
  BY DEF Processes
<1>2. ASSUME NEW m \in pending, StartCommand(m)
      PROVE  AccountingInv'
  <2>1. m \in Messages
    BY DEF AccountingInv, MessagesTypeOK
  <2>2. m.order \in Orders /\ m.type \in {"Deposit", "Withdraw"}
    BY <1>2, <2>1 DEF Messages, StartCommand
  <2>3. ConsumerOf[m.order] \in Consumers /\ Total[m.order] \in Int
    BY <2>2, SagaConstants, AccountingConstants
  <2>4. Start(KafkaConsumer, ConsumerOf[m.order], m.type, Total[m.order], m)
    BY <1>2 DEF StartCommand
  <2> QED BY <1>1, <2>1, <2>2, <2>3, <2>4, StartInv
<1>3. CASE AppendCommits(KafkaConsumer)
  BY <1>1, <1>3, AppendCommitsInv
<1>4. CASE AppendFails(KafkaConsumer)
  BY <1>1, <1>4, AppendFailsInv
<1>5. ASSUME NEW a \in Consumers, OpenAccount(a) \/ OpenAccountPanics(a)
      PROVE  AccountingInv'
  BY <1>5, OpenAccountInv, OpenAccountPanicsInv
<1> QED BY <1>2, <1>3, <1>4, <1>5 DEF AccountingConsumerNext

\* Every step of a gRPC call keeps the invariant.
LEMMA AccountingRpcInv ==
    ASSUME AccountingInv, AccountingRpcNext(Consumers)
    PROVE  AccountingInv'
<1> PICK p \in AccountingRpcs :
        \/ \E a \in Consumers, kind \in {"Deposit", "Withdraw"},
              amount \in RpcAmounts : RpcStart(p, a, kind, amount)
        \/ AppendCommits(p)
        \/ AppendFails(p)
  BY DEF AccountingRpcNext
<1>1. p \in Processes
  BY DEF Processes
<1>2. ASSUME NEW a \in Consumers, NEW kind \in {"Deposit", "Withdraw"},
             NEW amount \in RpcAmounts, RpcStart(p, a, kind, amount)
      PROVE  AccountingInv'
  <2>1. amount \in Int
    BY AccountingConstants
  <2>2. Start(p, a, kind, amount, NoMessage)
    BY <1>2 DEF RpcStart
  <2> QED BY <1>1, <2>1, <2>2, StartInv
<1>3. CASE AppendCommits(p)
  BY <1>1, <1>3, AppendCommitsInv
<1>4. CASE AppendFails(p)
  BY <1>1, <1>4, AppendFailsInv
<1> QED BY <1>2, <1>3, <1>4

-----------------------------------------------------------------------------
(* What lowers a balance below zero. *)

\* The append of a withdrawal finds the balance it was decided on.
LEMMA CommitFalls ==
    ASSUME AccountingInv, NEW p \in Processes, AppendCommits(p),
           NEW a \in Consumers
    PROVE  FallsByDeposit(a)
<1> SUFFICES ASSUME balance'[a] < balance[a], balance'[a] < 0
             PROVE  TakesByDeposit(p, a)
  BY DEF FallsByDeposit
<1> DEFINE op == operations[p]
<1>1. /\ op # NoOperation
      /\ ConditionHolds(op) /\ IndexAllows(op.account, EventCount(op))
      /\ balance' = [balance EXCEPT ![op.account] = @ + op.delta]
      /\ operations' = [operations EXCEPT ![p] = NoOperation]
  BY DEF AppendCommits, WriteStream, Finish
<1>2. /\ op \in Operations /\ SoundOperation(op)
      /\ operations \in [Processes -> Operations \cup {NoOperation}]
      /\ balance \in [Consumers -> Int]
  BY <1>1 DEF AccountingInv, AccountingTypeOK, OperationsSound
<1>3. /\ op.account \in Consumers /\ op.delta \in Int /\ op.succeed \in BOOLEAN
      /\ op.kind \in {"Deposit", "Withdraw"}
  BY <1>2 DEF Operations
<1>4. op.account = a /\ balance'[a] = balance[a] + op.delta /\ op.delta < 0
  <2>1. op.account = a
    BY <1>1, <1>2, <1>3
  <2>2. balance'[a] = balance[a] + op.delta
    BY <2>1, <1>1, <1>2, <1>3
  <2> QED BY <2>1, <2>2, <1>2, <1>3
<1>5. op.succeed
  BY <1>2, <1>4 DEF SoundOperation
<1>6. op.last = LastOf(sequences[op.account])
  BY <1>1, <1>4, AppendPlace
<1>7. op.kind # "Withdraw"
  <2>1. balance[op.account] + op.delta < 0
    BY <1>4
  <2>2. balance[op.account] + op.delta \in Int
    BY <1>2, <1>3
  <2>3. ~(balance[op.account] + op.delta >= 0)
    BY <2>1, <2>2
  <2> HIDE DEF op
  <2> QED BY <2>3, <1>2, <1>5, <1>6 DEF SoundOperation
<1>8. op.kind = "Deposit" /\ operations'[p] = NoOperation
  BY <1>1, <1>2, <1>3, <1>7
<1> QED BY <1>1, <1>4, <1>8 DEF TakesByDeposit

\* So does every step of the accounting service.
LEMMA ServiceFalls ==
    ASSUME AccountingInv, NEW accounts \in SUBSET Consumers,
           AccountingConsumerNext \/ AccountingRpcNext(accounts)
    PROVE  \A a \in Consumers : FallsByDeposit(a)
<1> SUFFICES ASSUME NEW a \in Consumers PROVE FallsByDeposit(a)
  OBVIOUS
<1>1. balance \in [Consumers -> Int]
  BY DEF AccountingInv, AccountingTypeOK
<1>2. ASSUME \A b \in Consumers : balance'[b] = balance[b]
      PROVE  FallsByDeposit(a)
  BY <1>1, <1>2 DEF FallsByDeposit
<1>3. ASSUME NEW p \in Processes, AppendCommits(p) \/ AppendFails(p)
      PROVE  FallsByDeposit(a)
  <2>1. CASE AppendCommits(p)
    BY <2>1, CommitFalls
  <2>2. CASE AppendFails(p)
    BY <2>2, <1>2 DEF AppendFails
  <2> QED BY <1>3, <2>1, <2>2
<1>4. ASSUME NEW p, NEW b, NEW kind, NEW amount, NEW m,
             Start(p, b, kind, amount, m)
      PROVE  FallsByDeposit(a)
  BY <1>2, <1>4 DEF Start
<1>5. ASSUME NEW b \in Consumers, OpenAccount(b) \/ OpenAccountPanics(b)
      PROVE  FallsByDeposit(a)
  <2>1. \A c \in Consumers : balance'[c] = balance[c]
    <3>1. CASE OpenAccount(b)
      <4>1. balance' = [balance EXCEPT ![b] = @ + 0]
        BY <3>1 DEF OpenAccount, WriteStream
      <4> QED BY <4>1, <1>1
    <3>2. CASE OpenAccountPanics(b)
      BY <3>2 DEF OpenAccountPanics
    <3> QED BY <1>5, <3>1, <3>2
  <2> QED BY <2>1, <1>2
<1>6. KafkaConsumer \in Processes /\ AccountingRpcs \subseteq Processes
  BY DEF Processes
<1>7. CASE AccountingConsumerNext
  <2>1. ASSUME NEW m \in pending, StartCommand(m) PROVE FallsByDeposit(a)
    BY <2>1, <1>4 DEF StartCommand
  <2> QED BY <2>1, <1>3, <1>5, <1>6, <1>7 DEF AccountingConsumerNext
<1>8. CASE AccountingRpcNext(accounts)
  <2>1. ASSUME NEW p \in AccountingRpcs, NEW b \in accounts,
               NEW kind \in {"Deposit", "Withdraw"}, NEW amount \in RpcAmounts,
               RpcStart(p, b, kind, amount)
        PROVE  FallsByDeposit(a)
    BY <2>1, <1>4 DEF RpcStart
  <2> QED BY <2>1, <1>3, <1>6, <1>8 DEF AccountingRpcNext
<1> QED BY <1>7, <1>8

\* With no negative amounts, no deposit in progress takes anything.
DepositsGive ==
    \A p \in Processes :
        operations[p] # NoOperation /\ operations[p].kind = "Deposit"
            => operations[p].delta >= 0

SolventInv == BalanceNeverNegative /\ DepositsGive

\* The processes that begin nothing have an operation less or the same.
LEMMA DepositsStay ==
    ASSUME DepositsGive,
           \A p \in Processes :
              operations'[p] = NoOperation \/ operations'[p] = operations[p]
    PROVE  DepositsGive'
BY DEF DepositsGive

\* A deposit that begins has an amount that is not negative.
LEMMA DepositsBegin ==
    ASSUME AccountingInv, DepositsGive, NEW p \in Processes, NEW a, NEW kind,
           NEW amount \in Int, amount >= 0, NEW m, Start(p, a, kind, amount, m)
    PROVE  DepositsGive'
<1> DEFINE succeed == Decide(kind, amount, balance[a])
           op == [account |-> a, last |-> LastOf(sequences[a]), kind |-> kind,
                  succeed |-> succeed,
                  delta |-> IF succeed THEN Delta(kind, amount) ELSE 0,
                  message |-> m]
<1>1. operations' = [operations EXCEPT ![p] = op]
      /\ operations \in [Processes -> Operations \cup {NoOperation}]
  BY DEF Start, AccountingInv, AccountingTypeOK
<1>2. op.kind = "Deposit" => op.delta >= 0
  BY DEF Delta
<1> HIDE DEF op
<1>3. \A q \in Processes :
         operations'[q] = IF q = p THEN op ELSE operations[q]
  BY <1>1
<1> QED BY <1>2, <1>3 DEF DepositsGive

\* The service's steps keep every account solvent.
LEMMA ServiceSolvent ==
    ASSUME NoNegativeAmounts, AccountingInv, AccountingInv', SolventInv,
           NEW accounts \in SUBSET Consumers,
           AccountingConsumerNext \/ AccountingRpcNext(accounts)
    PROVE  SolventInv'
<1>1. BalanceNeverNegative'
  <2> SUFFICES ASSUME NEW a \in Consumers, balance'[a] < 0 PROVE FALSE
    BY DEF BalanceNeverNegative, AccountingInv, AccountingTypeOK
  <2>1. balance[a] \in Int /\ balance[a] >= 0 /\ balance'[a] \in Int
    BY DEF SolventInv, BalanceNeverNegative, AccountingInv, AccountingTypeOK
  <2>2. FallsByDeposit(a)
    BY ServiceFalls
  <2>3. PICK p \in Processes : TakesByDeposit(p, a)
    BY <2>1, <2>2 DEF FallsByDeposit
  <2>4. operations[p] \in Operations
    BY <2>3 DEF TakesByDeposit, AccountingInv, AccountingTypeOK
  <2> QED BY <2>3, <2>4 DEF TakesByDeposit, SolventInv, DepositsGive, Operations
<1>2. KafkaConsumer \in Processes /\ AccountingRpcs \subseteq Processes
  BY DEF Processes
<1>3. ASSUME NEW p \in Processes, AppendCommits(p) \/ AppendFails(p)
      PROVE  DepositsGive'
  <2>1. operations' = [operations EXCEPT ![p] = NoOperation]
    BY <1>3 DEF AppendCommits, AppendFails, Finish
  <2>2. operations \in [Processes -> Operations \cup {NoOperation}]
    BY DEF AccountingInv, AccountingTypeOK
  <2> QED BY <2>1, <2>2, DepositsStay DEF SolventInv
<1>4. ASSUME NEW m \in pending, StartCommand(m) PROVE DepositsGive'
  <2>1. m.order \in Orders
    BY DEF AccountingInv, MessagesTypeOK, Messages
  <2>2. Total[m.order] \in Int /\ Total[m.order] >= 0
    BY <2>1, AccountingConstants DEF NoNegativeAmounts
  <2> QED BY <1>2, <1>4, <2>2, DepositsBegin DEF StartCommand, SolventInv
<1>5. ASSUME NEW p \in AccountingRpcs, NEW a \in accounts,
             NEW kind \in {"Deposit", "Withdraw"}, NEW amount \in RpcAmounts,
             RpcStart(p, a, kind, amount)
      PROVE  DepositsGive'
  <2>1. amount \in Int /\ amount >= 0
    BY AccountingConstants DEF NoNegativeAmounts
  <2> QED BY <1>2, <1>5, <2>1, DepositsBegin DEF RpcStart, SolventInv
<1>6. ASSUME NEW a \in Consumers, OpenAccount(a) \/ OpenAccountPanics(a)
      PROVE  DepositsGive'
  BY <1>6, DepositsStay DEF OpenAccount, OpenAccountPanics, SolventInv
<1>7. DepositsGive'
  BY <1>2, <1>3, <1>4, <1>5, <1>6
  DEF AccountingConsumerNext, AccountingRpcNext
<1> QED BY <1>1, <1>7 DEF SolventInv

\* Nothing happens to an account while others act.
LEMMA SolventStutter ==
    ASSUME SolventInv, UNCHANGED accountingVars
    PROVE  SolventInv'
BY DEF SolventInv, BalanceNeverNegative, DepositsGive, accountingVars

\* A new service is solvent.
LEMMA SolventInit ==
    ASSUME AccountingInit
    PROVE  SolventInv
BY DEF AccountingInit, SolventInv, BalanceNeverNegative, DepositsGive

-----------------------------------------------------------------------------

\* AccountingInv holds in every reachable state of the accounting service.
THEOREM AccountingInvariant == AloneSpec => []AccountingInv
<1>1. AloneInit => AccountingInv
  <2> SUFFICES ASSUME AloneInit PROVE AccountingInv
    OBVIOUS
  <2>1. \A o \in Orders : Command(o, WithdrawRequest, "Withdraw") \in Messages
    BY DEF Command, Messages, CommandTypes, WithdrawRequest
  <2>2. MessagesTypeOK
    BY <2>1, SagaConstants DEF AloneInit, MessagesTypeOK
  <2> QED BY <2>2, AccountingInitInv DEF AloneInit
<1>2. AccountingInv /\ [AloneNext]_aloneVars => AccountingInv'
  <2> SUFFICES ASSUME AccountingInv, [AloneNext]_aloneVars PROVE AccountingInv'
    OBVIOUS
  <2>1. CASE AccountingConsumerNext
    BY <2>1, AccountingConsumerInv
  <2>2. CASE AccountingRpcNext(Consumers)
    BY <2>2, AccountingRpcInv
  <2>3. ASSUME NEW m \in pending, SagaRefunds(m)
        PROVE  AccountingInv'
    <3>1. m \in Messages
      BY DEF AccountingInv, MessagesTypeOK
    <3>2. {Command(m.order, RefundRequest, "Deposit")} \subseteq Messages
      BY <3>1 DEF Command, Messages, CommandTypes, RefundRequest
    <3>3. MessagesTypeOK'
      BY <2>3, <3>1, <3>2, ConsumeType DEF SagaRefunds, AccountingInv
    <3> QED BY <2>3, <3>3, AccountingStutter DEF SagaRefunds
  <2>4. CASE UNCHANGED aloneVars
    <3>1. MessagesTypeOK'
      BY <2>4 DEF aloneVars, messageVars, AccountingInv, MessagesTypeOK
    <3> QED BY <2>4, <3>1, AccountingStutter DEF aloneVars
  <2> QED BY <2>1, <2>2, <2>3, <2>4 DEF AloneNext
<1> QED BY <1>1, <1>2, PTL DEF AloneSpec

\* Every variable of the accounting service keeps its type.
THEOREM TypeCorrect == AloneSpec => []AloneTypeOK
<1>1. AccountingInv => AloneTypeOK
  BY DEF AccountingInv, AloneTypeOK
<1> QED BY <1>1, AccountingInvariant, PTL

(***************************************************************************)
(* Whatever the amounts, a balance falls below zero by the deposit of a    *)
(* negative amount and by nothing else: no withdrawal overdraws, with any  *)
(* number of concurrent gRPC calls and redeliveries (service.rs:117-186,   *)
(* account.rs:34-57).                                                      *)
(***************************************************************************)
THEOREM WithdrawalsCovered == AloneSpec => OverdrawnByDepositsOnly
<1>1. AccountingInv /\ [AloneNext]_aloneVars =>
        [\A a \in Consumers : FallsByDeposit(a)]_accountingVars
  <2> SUFFICES ASSUME AccountingInv, AloneNext, accountingVars' # accountingVars
               PROVE  \A a \in Consumers : FallsByDeposit(a)
    BY DEF aloneVars
  <2>1. AccountingConsumerNext \/ AccountingRpcNext(Consumers)
    BY DEF AloneNext, SagaRefunds
  <2> QED BY <2>1, ServiceFalls
<1> QED BY <1>1, AccountingInvariant, PTL DEF AloneSpec, OverdrawnByDepositsOnly

(***************************************************************************)
(* If no order's total and no amount of a gRPC call is negative, no        *)
(* account is ever overdrawn.  The service itself does not check that      *)
(* (accounting rpc.rs:64-69, 96-101).                                      *)
(***************************************************************************)
THEOREM NeverOverdrawn ==
    ASSUME NoNegativeAmounts
    PROVE  AloneSpec => []BalanceNeverNegative
<1>1. AloneInit => SolventInv
  BY SolventInit DEF AloneInit
<1>2. /\ AccountingInv /\ AccountingInv' /\ SolventInv /\ [AloneNext]_aloneVars
      => SolventInv'
  <2> SUFFICES ASSUME AccountingInv, AccountingInv', SolventInv,
                      [AloneNext]_aloneVars
               PROVE  SolventInv'
    OBVIOUS
  <2>1. CASE AccountingConsumerNext \/ AccountingRpcNext(Consumers)
    BY <2>1, ServiceSolvent
  <2>2. CASE UNCHANGED accountingVars
    BY <2>2, SolventStutter
  <2> QED BY <2>1, <2>2 DEF AloneNext, SagaRefunds, aloneVars
<1>3. SolventInv => BalanceNeverNegative
  BY DEF SolventInv
<1> QED BY <1>1, <1>2, <1>3, AccountingInvariant, PTL DEF AloneSpec

\* No stream ever has a gap, although appends overwrite each other's rows
\* (store/event.rs:109-113).
THEOREM NeverGaps == AloneSpec => []StreamsGapless
<1>1. AccountingInv => StreamsGapless
  BY DenseIsGapless DEF AccountingInv
<1> QED BY <1>1, AccountingInvariant, PTL

-----------------------------------------------------------------------------
(* Answers, when nothing is delivered twice. *)

\* There is one message about an order at most; a Withdraw is the first of
\* them, and an answer says what the stream holds.
AnswersSound ==
    /\ \A m, n \in pending : m.order = n.order => m = n
    /\ \A m \in pending :
          \/ /\ m.type = "Withdraw" /\ m.request = WithdrawRequest
             /\ charged[m.order] = 0 /\ m.order \notin dropped
          \/ m.type = "Deposit" /\ m.request = RefundRequest
          \/ m.type = "Reply"
    /\ AnswersMatchStream

AnswersInv == AccountingInv /\ AnswersSound /\ CommandAtHand

LEMMA AnswersInit == AloneInit => AnswersSound /\ CommandAtHand
<1> SUFFICES ASSUME AloneInit PROVE AnswersSound /\ CommandAtHand
  OBVIOUS
<1>1. \A m \in pending : \E o \in Orders :
         m = [order |-> o, request |-> WithdrawRequest, copy |-> 0,
              type |-> "Withdraw", ok |-> FALSE, body |-> FALSE]
  BY DEF AloneInit, Command
<1>2. ASSUME NEW m \in pending, NEW n \in pending, m.order = n.order
      PROVE  m = n
  <2>1. PICK o \in Orders :
           m = [order |-> o, request |-> WithdrawRequest, copy |-> 0,
                type |-> "Withdraw", ok |-> FALSE, body |-> FALSE]
    BY <1>1
  <2>2. PICK q \in Orders :
           n = [order |-> q, request |-> WithdrawRequest, copy |-> 0,
                type |-> "Withdraw", ok |-> FALSE, body |-> FALSE]
    BY <1>1
  <2> QED BY <1>2, <2>1, <2>2
<1>3. \A m \in pending :
         /\ m.type = "Withdraw" /\ m.request = WithdrawRequest /\ m.order \in Orders
  BY <1>1
<1>4. charged = [o \in Orders |-> 0] /\ dropped = {}
  BY DEF AloneInit, AccountingInit
<1>5. AnswersSound
  BY <1>2, <1>3, <1>4 DEF AnswersSound, AnswersMatchStream
<1>6. CommandAtHand
  BY DEF AloneInit, AccountingInit, CommandAtHand
<1> QED BY <1>5, <1>6

\* A step after which the messages and what is charged are as before.
LEMMA AnswersStay ==
    ASSUME AnswersSound, pending' = pending, charged' = charged, dropped' = dropped
    PROVE  AnswersSound'
BY DEF AnswersSound, AnswersMatchStream

\* A new operation is on no command, or the consumer's on one in flight.
LEMMA AnswersStart ==
    ASSUME AnswersInv, NEW p \in Processes, NEW a, NEW kind, NEW amount, NEW m,
           Start(p, a, kind, amount, m),
           \/ m = NoMessage
           \/ /\ p = KafkaConsumer /\ m \in pending
              /\ m.type \in {"Withdraw", "Deposit"}
    PROVE  AnswersSound' /\ CommandAtHand'
<1>1. /\ UNCHANGED <<pending, charged, dropped>>
      /\ operations \in [Processes -> Operations \cup {NoOperation}]
  BY DEF Start, messageVars, AnswersInv, AccountingInv, AccountingTypeOK
<1> DEFINE succeed == Decide(kind, amount, balance[a])
           op == [account |-> a, last |-> LastOf(sequences[a]), kind |-> kind,
                  succeed |-> succeed,
                  delta |-> IF succeed THEN Delta(kind, amount) ELSE 0,
                  message |-> m]
<1>2. operations' = [operations EXCEPT ![p] = op] /\ op.message = m
  BY DEF Start
<1> HIDE DEF op
<1>3. \A q \in Processes :
         operations'[q] = IF q = p THEN op ELSE operations[q]
  BY <1>1, <1>2
<1>4. CommandAtHand'
  BY <1>1, <1>2, <1>3 DEF AnswersInv, CommandAtHand
<1> QED BY <1>1, <1>4, AnswersStay DEF AnswersInv

\* The end of an operation that answers no command.
LEMMA AnswersRpcEnds ==
    ASSUME AnswersInv, NEW p \in Processes, NEW out,
           operations[p].message = NoMessage, Finish(p, out),
           charged' = charged, dropped' = dropped
    PROVE  AnswersSound' /\ CommandAtHand'
<1>1. /\ pending' = pending
      /\ operations' = [operations EXCEPT ![p] = NoOperation]
      /\ operations \in [Processes -> Operations \cup {NoOperation}]
  BY DEF Finish, messageVars, AnswersInv, AccountingInv, AccountingTypeOK
<1>2. \A q \in Processes :
         operations'[q] = IF q = p THEN NoOperation ELSE operations[q]
  BY <1>1
<1>3. CommandAtHand'
  BY <1>1, <1>2 DEF AnswersInv, CommandAtHand
<1> QED BY <1>1, <1>3, AnswersStay DEF AnswersInv

\* The end of the consumer's work on a command.
LEMMA AnswersCommandEnds ==
    ASSUME MaxRedeliveries = 0, AnswersInv,
           NEW p \in Processes, operations[p] # NoOperation,
           operations[p].message # NoMessage,
           NEW out, Finish(p, out)
    PROVE  LET m == operations[p].message
           IN  /\ m \in pending /\ m \in Messages
               /\ m.type \in {"Withdraw", "Deposit"}
               /\ \A n \in pending : n # m => n.order # m.order
               /\ pending' = (pending \ {m}) \cup out
               /\ CommandAtHand'
<1> DEFINE m == operations[p].message
<1>1. /\ p = KafkaConsumer /\ m \in pending
      /\ m.type \in {"Withdraw", "Deposit"}
  BY DEF AnswersInv, CommandAtHand
<1>2. m \in Messages
  BY <1>1 DEF AnswersInv, AccountingInv, MessagesTypeOK
<1>3. Consume(stuckOn = NoConsumer, m, out)
  BY DEF Finish
<1>4. pending' = (pending \ {m}) \cup out
  BY <1>3, ConsumeOnce DEF AnswersInv, AccountingInv
<1>5. \A n \in pending : n # m => n.order # m.order
  BY <1>1 DEF AnswersInv, AnswersSound
<1>6. \A q \in Processes :
         operations'[q] = IF q = p THEN NoOperation ELSE operations[q]
  BY DEF Finish, AnswersInv, AccountingInv, AccountingTypeOK
<1>7. CommandAtHand'
  BY <1>1, <1>6 DEF AnswersInv, CommandAtHand
<1> QED BY <1>1, <1>2, <1>4, <1>5, <1>7

LEMMA AnswersCommit ==
    ASSUME MaxRedeliveries = 0, AnswersInv, NEW p \in Processes, AppendCommits(p)
    PROVE  AnswersSound' /\ CommandAtHand'
<1> DEFINE op == operations[p]
           m == op.message
           r == ReplyTo(m, op.succeed, FALSE)
<1>1. /\ op # NoOperation /\ Finish(p, {r}) /\ dropped' = dropped
      /\ charged' =
            IF m = NoMessage \/ ~op.succeed THEN charged
            ELSE [charged EXCEPT ![m.order] =
                     IF m.type = "Withdraw" THEN @ + 1 ELSE @ - 1]
  BY DEF AppendCommits
<1>2. CASE m = NoMessage
  BY <1>1, <1>2, AnswersRpcEnds
<1>3. CASE m # NoMessage
  <2>1. /\ m \in pending /\ m \in Messages
        /\ m.type \in {"Withdraw", "Deposit"}
        /\ \A n \in pending : n # m => n.order # m.order
        /\ pending' = (pending \ {m}) \cup {r}
        /\ CommandAtHand'
    BY <1>1, <1>3, AnswersCommandEnds
  <2>2. /\ op \in Operations /\ op.succeed \in BOOLEAN
        /\ charged \in [Orders -> Int] /\ m.order \in Orders
    BY <1>1, <2>1
    DEF AnswersInv, AccountingInv, AccountingTypeOK, Operations, Messages
  <2>3. /\ r.order = m.order /\ r.request = m.request /\ r.type = "Reply"
        /\ r.ok = op.succeed
    BY DEF ReplyTo
  <2>4. \A n \in pending : n # m => charged'[n.order] = charged[n.order]
    <3>1. pending \subseteq Messages
      BY DEF AnswersInv, AccountingInv, MessagesTypeOK
    <3>2. \A n \in pending : n.order \in Orders
      BY <3>1 DEF Messages
    <3> QED BY <1>1, <2>1, <2>2, <3>2
  <2>5. r.request = WithdrawRequest =>
           /\ charged'[r.order] = IF r.ok THEN 1 ELSE 0
           /\ r.order \notin dropped'
    <3> SUFFICES ASSUME m.request = WithdrawRequest
                 PROVE  /\ charged'[m.order] = IF op.succeed THEN 1 ELSE 0
                        /\ m.order \notin dropped
      BY <1>1, <2>3
    <3>1. /\ m.type = "Withdraw" /\ charged[m.order] = 0
          /\ m.order \notin dropped
      BY <2>1 DEF AnswersInv, AnswersSound, WithdrawRequest, RefundRequest
    <3>2. CASE op.succeed
      BY <1>1, <1>3, <2>2, <3>1, <3>2
    <3>3. CASE ~op.succeed
      BY <1>1, <3>1, <3>3
    <3> QED BY <3>1, <3>2, <3>3
  <2>6. \A k, n \in pending' : k.order = n.order => k = n
    <3>1. \A k, n \in pending : k.order = n.order => k = n
      BY DEF AnswersInv, AnswersSound
    <3> HIDE DEF m, r
    <3> QED BY <2>1, <2>3, <3>1
  <2>7. ASSUME NEW n \in pending'
        PROVE  /\ \/ /\ n.type = "Withdraw" /\ n.request = WithdrawRequest
                     /\ charged'[n.order] = 0 /\ n.order \notin dropped'
                  \/ n.type = "Deposit" /\ n.request = RefundRequest
                  \/ n.type = "Reply"
               /\ n.type = "Reply" /\ n.request = WithdrawRequest =>
                     /\ charged'[n.order] = IF n.ok THEN 1 ELSE 0
                     /\ n.order \notin dropped'
    <3>1. CASE n = r
      BY <2>3, <2>5, <3>1
    <3>2. CASE n # r
      <4>1. n \in pending /\ charged'[n.order] = charged[n.order]
        BY <2>1, <2>4, <2>7, <3>2
      <4> QED BY <1>1, <4>1 DEF AnswersInv, AnswersSound, AnswersMatchStream
    <3> QED BY <3>1, <3>2
  <2>8. AnswersSound'
    BY <2>6, <2>7 DEF AnswersSound, AnswersMatchStream
  <2> QED BY <2>1, <2>8
<1> QED BY <1>2, <1>3

LEMMA AnswersFail ==
    ASSUME MaxRedeliveries = 0, AnswersInv, NEW p \in Processes, AppendFails(p)
    PROVE  AnswersSound' /\ CommandAtHand'
<1> DEFINE op == operations[p]
           m == op.message
<1>1. /\ op # NoOperation /\ Finish(p, {}) /\ charged' = charged
      /\ dropped' = IF m = NoMessage THEN dropped ELSE dropped \cup {m.order}
  BY DEF AppendFails
<1>2. CASE m = NoMessage
  BY <1>1, <1>2, AnswersRpcEnds
<1>3. CASE m # NoMessage
  <2>1. /\ \A n \in pending : n # m => n.order # m.order
        /\ pending' = pending \ {m}
        /\ CommandAtHand'
    BY <1>1, <1>3, AnswersCommandEnds
  <2>2. \A n \in pending' : n \in pending /\ (n.order \in dropped' => n.order \in dropped)
    BY <1>1, <1>3, <2>1
  <2>3. AnswersSound'
    BY <1>1, <2>2 DEF AnswersInv, AnswersSound, AnswersMatchStream
  <2> QED BY <2>1, <2>3
<1> QED BY <1>2, <1>3

LEMMA AnswersStep ==
    ASSUME MaxRedeliveries = 0, AnswersInv, AloneNext
    PROVE  AnswersSound' /\ CommandAtHand'
<1>0. KafkaConsumer \in Processes /\ AccountingRpcs \subseteq Processes
  BY DEF Processes
<1>1. ASSUME NEW m \in pending, StartCommand(m)
      PROVE  AnswersSound' /\ CommandAtHand'
  BY <1>0, <1>1, AnswersStart DEF StartCommand
<1>2. ASSUME NEW p \in AccountingRpcs, NEW a \in Consumers,
             NEW kind \in {"Deposit", "Withdraw"}, NEW amount \in RpcAmounts,
             RpcStart(p, a, kind, amount)
      PROVE  AnswersSound' /\ CommandAtHand'
  BY <1>0, <1>2, AnswersStart DEF RpcStart
<1>3. ASSUME NEW p \in Processes, AppendCommits(p) \/ AppendFails(p)
      PROVE  AnswersSound' /\ CommandAtHand'
  BY <1>3, AnswersCommit, AnswersFail
<1>4. ASSUME NEW a \in Consumers, OpenAccount(a) \/ OpenAccountPanics(a)
      PROVE  AnswersSound' /\ CommandAtHand'
  <2>1. UNCHANGED <<pending, operations, charged, dropped>>
    BY <1>4 DEF OpenAccount, OpenAccountPanics, ConsumeConsumerEvent, messageVars
  <2>2. CommandAtHand'
    BY <2>1 DEF AnswersInv, CommandAtHand
  <2> QED BY <2>1, <2>2, AnswersStay DEF AnswersInv
<1>5. ASSUME NEW m \in pending, SagaRefunds(m)
      PROVE  AnswersSound' /\ CommandAtHand'
  <2> DEFINE d == Command(m.order, RefundRequest, "Deposit")
  <2>1. m.type = "Reply" /\ UNCHANGED accountingVars
    BY <1>5 DEF SagaRefunds
  <2>2. pending' = (pending \ {m}) \cup {d}
    <3>1. Consume(TRUE, m, {d}) /\ MessagesTypeOK
      BY <1>5 DEF SagaRefunds, AnswersInv, AccountingInv
    <3> HIDE DEF d
    <3> QED BY <3>1, ConsumeOnce
  <2>3. d.order = m.order /\ d.type = "Deposit" /\ d.request = RefundRequest
    BY DEF Command
  <2>4. /\ \A j, n \in pending' : j.order = n.order => j = n
        /\ \A n \in pending' : n = d \/ n \in pending
    BY <2>2, <2>3 DEF AnswersInv, AnswersSound
  <2>5. AnswersSound'
    BY <2>1, <2>3, <2>4
    DEF AnswersInv, AnswersSound, AnswersMatchStream, accountingVars
  <2>6. CommandAtHand'
    BY <2>1, <2>2 DEF AnswersInv, CommandAtHand, accountingVars
  <2> QED BY <2>5, <2>6
<1> QED
  BY <1>0, <1>1, <1>2, <1>3, <1>4, <1>5
  DEF AloneNext, AccountingConsumerNext, AccountingRpcNext

(***************************************************************************)
(* With exactly-once delivery, the saga is told what the account's stream  *)
(* holds: the event and the reply stand or fall together (service.rs:      *)
(* 131-183), for any number of gRPC calls beside the consumer.             *)
(***************************************************************************)
THEOREM AnswersAreTrue ==
    ASSUME MaxRedeliveries = 0
    PROVE  AloneSpec => []AnswersMatchStream
<1>1. AloneInit => AnswersSound /\ CommandAtHand
  BY AnswersInit
<1>2. /\ AccountingInv /\ AnswersSound /\ CommandAtHand
      /\ [AloneNext]_aloneVars
      => AnswersSound' /\ CommandAtHand'
  <2> SUFFICES ASSUME AnswersInv, [AloneNext]_aloneVars
               PROVE  AnswersSound' /\ CommandAtHand'
    BY DEF AnswersInv
  <2>1. CASE UNCHANGED aloneVars
    <3>1. UNCHANGED <<pending, operations, charged, dropped>>
      BY <2>1 DEF aloneVars, messageVars, accountingVars
    <3>2. CommandAtHand'
      BY <3>1 DEF AnswersInv, CommandAtHand
    <3> QED BY <3>1, <3>2, AnswersStay DEF AnswersInv
  <2> QED BY <2>1, AnswersStep
<1>3. AnswersSound => AnswersMatchStream
  BY DEF AnswersSound
<1> QED BY <1>1, <1>2, <1>3, AccountingInvariant, PTL DEF AloneSpec
=============================================================================
