----------------------------- MODULE OutboxRelay -----------------------------
(***************************************************************************)
(* How a message gets from one service to another.  A transaction of the   *)
(* sender inserts rows into its outbox table together with its other       *)
(* changes.  The producer process, the relay, locks the row of the         *)
(* smallest id that nobody has locked, sends it to Kafka, deletes it and   *)
(* commits (app/producer.rs of five services).  The consumer process of    *)
(* the receiver polls a batch of records, handles one after the other and  *)
(* commits the offset after the batch (main of app/consumer.rs).  The      *)
(* other modules see of all this a set of messages, any of which may come  *)
(* next or again.  One topic of one partition is modelled.                 *)
(***************************************************************************)
EXTENDS Integers, Sequences, FiniteSets

CONSTANTS
    Writers,      \* sessions of the sender whose transactions may overlap
    Relays,       \* producer processes of the sender
    MaxRows,      \* bound: the rows ever inserted
    MaxFailures   \* bound: errors and crashes of relays, and of the consumer

ASSUME RelayConstants ==
    /\ MaxRows \in Nat
    /\ MaxFailures \in Nat

Rows == 1..MaxRows

VARIABLES
    nextRow,    \* the next value of the serial outbox.id
    writing,    \* writer -> the rows of its open transaction
    outbox,     \* the rows that are committed and not deleted
    held,       \* relay -> the row it has locked, 0 if none
    sent,       \* the relays that have sent the row they hold
    log,        \* the records of the topic, each named by its row
    offset,     \* the committed offset of the consumer group
    position,   \* the records handled by the running consumer, a prefix of log
    polled,     \* the end of the batch the consumer is at
    \* History:
    posted,     \* the rows that have been committed
    atOnce,     \* 2 once two relays have held rows at the same time, 1 before
    earlier,    \* row -> the rows committed, or in its transaction, before it
    handled,    \* row -> how often the consumer has handled it
    relayFailures, consumerFailures

relayVars == <<outbox, held, sent, log, atOnce, relayFailures>>
consumerVars == <<offset, position, polled, handled, consumerFailures>>
writerVars == <<nextRow, writing, posted, earlier>>

vars == <<relayVars, consumerVars, writerVars>>

Init ==
    /\ nextRow = 1
    /\ writing = [w \in Writers |-> {}]
    /\ outbox = {}
    /\ held = [r \in Relays |-> 0]
    /\ sent = {}
    /\ log = <<>>
    /\ offset = 0
    /\ position = 0
    /\ polled = 0
    /\ posted = {}
    /\ earlier = [i \in Rows |-> {}]
    /\ handled = [i \in Rows |-> 0]
    /\ atOnce = 1
    /\ relayFailures = 0
    /\ consumerFailures = 0

-----------------------------------------------------------------------------
(* The sender. *)

\* The id is taken when the row is inserted, not when it is committed.
Insert(w) ==
    /\ nextRow \in Rows
    /\ nextRow' = nextRow + 1
    /\ writing' = [writing EXCEPT ![w] = @ \cup {nextRow}]
    /\ earlier' = [earlier EXCEPT ![nextRow] = posted \cup writing[w]]
    /\ UNCHANGED <<posted, relayVars, consumerVars>>

Commit(w) ==
    /\ writing[w] # {}
    /\ outbox' = outbox \cup writing[w]
    /\ posted' = posted \cup writing[w]
    /\ writing' = [writing EXCEPT ![w] = {}]
    /\ UNCHANGED <<nextRow, earlier, held, sent, log, atOnce, relayFailures,
                   consumerVars>>

Rollback(w) ==
    /\ writing[w] # {}
    /\ writing' = [writing EXCEPT ![w] = {}]
    /\ UNCHANGED <<nextRow, posted, earlier, relayVars, consumerVars>>

-----------------------------------------------------------------------------
(* The relay: process_next_outbox_row is one transaction. *)

\* Mutant: the select does not skip the rows that are locked.
FreeOrLocked == outbox

\* Mutant: the relay is told of rows before their transaction commits.
FreeOrWritten ==
    (outbox \cup UNION {writing[w] : w \in Writers}) \ {held[r] : r \in Relays}

\* FOR UPDATE SKIP LOCKED.
Free == outbox \ {held[r] : r \in Relays}

\* Mutant: without the order by id.
FirstOfAny(i, rows) == i \in rows

\* ORDER BY id.
First(i, rows) == i \in rows /\ \A j \in rows : i <= j

Lock(r) ==
    /\ held[r] = 0
    /\ \E i \in Rows : First(i, Free) /\ held' = [held EXCEPT ![r] = i]
    /\ atOnce' = IF \E q \in Relays : held[q] # 0 THEN 2 ELSE atOnce
    /\ UNCHANGED <<outbox, sent, log, relayFailures, writerVars, consumerVars>>

Send(r) ==
    /\ held[r] # 0
    /\ r \notin sent
    /\ log' = Append(log, held[r])
    /\ sent' = sent \cup {r}
    /\ UNCHANGED <<outbox, held, atOnce, relayFailures, writerVars, consumerVars>>

\* Mutant: the row is deleted whether or not it has been sent.
MayDeleteUnsent(r) == held[r] # 0

MayDelete(r) == r \in sent

\* The row is deleted and the transaction commits.
Delete(r) ==
    /\ MayDelete(r)
    /\ outbox' = outbox \ {held[r]}
    /\ held' = [held EXCEPT ![r] = 0]
    /\ sent' = sent \ {r}
    /\ UNCHANGED <<log, atOnce, relayFailures, writerVars, consumerVars>>

\* An error of Kafka or of the database, or a crash of the relay: the
\* transaction is rolled back.  A record may be in the log all the same.
RelayFails(r) ==
    /\ held[r] # 0
    /\ relayFailures < MaxFailures
    /\ relayFailures' = relayFailures + 1
    /\ held' = [held EXCEPT ![r] = 0]
    /\ sent' = sent \ {r}
    /\ UNCHANGED <<outbox, log, atOnce, writerVars, consumerVars>>

-----------------------------------------------------------------------------
(* The consumer. *)

\* poll returns some of the records that follow.
Poll ==
    /\ position = polled
    /\ offset = position
    /\ polled' \in (position + 1)..Len(log)
    /\ UNCHANGED <<offset, position, handled, consumerFailures, writerVars,
                   relayVars>>

HandleNext ==
    /\ position < polled
    /\ position' = position + 1
    /\ handled' = [handled EXCEPT ![log[position + 1]] = @ + 1]
    /\ UNCHANGED <<offset, polled, consumerFailures, writerVars, relayVars>>

\* Mutant: the offset is committed before the batch is handled.
MayCommitAtOnce == offset < polled

MayCommit == offset < polled /\ position = polled

\* commit_consumed, after every record of the batch.
CommitOffset ==
    /\ MayCommit
    /\ offset' = polled
    /\ UNCHANGED <<position, polled, handled, consumerFailures, writerVars,
                   relayVars>>

\* Mutant: what was polled is taken as handled.
RestartAfterBatch == polled

\* The committed offset, the earliest record if there is none.
Restart == offset

\* The consumer crashes, or panics at a record, and is restarted.
ConsumerFails ==
    /\ offset < polled
    /\ consumerFailures < MaxFailures
    /\ consumerFailures' = consumerFailures + 1
    /\ position' = Restart
    /\ polled' = Restart
    /\ UNCHANGED <<offset, handled, writerVars, relayVars>>
-----------------------------------------------------------------------------
RelayNext(r) == Lock(r) \/ Send(r) \/ Delete(r)

ConsumerNext == Poll \/ HandleNext \/ CommitOffset

WriterNext(w) == Insert(w) \/ Commit(w) \/ Rollback(w)

Next ==
    \/ \E w \in Writers : WriterNext(w)
    \/ \E r \in Relays : RelayNext(r) \/ RelayFails(r)
    \/ ConsumerNext
    \/ ConsumerFails

Spec == Init /\ [][Next]_vars

\* Producers and consumers loop for ever and are restarted; nobody has to
\* write, and an open transaction may stay open.
FairSpec ==
    /\ Spec
    /\ \A r \in Relays : WF_vars(RelayNext(r))
    /\ WF_vars(ConsumerNext)

TypeOK ==
    /\ nextRow \in 1..(MaxRows + 1)
    /\ writing \in [Writers -> SUBSET Rows]
    /\ outbox \subseteq Rows
    /\ held \in [Relays -> {0} \cup Rows]
    /\ sent \subseteq Relays
    /\ log \in Seq(Rows)
    /\ 0 <= offset /\ offset <= position
    /\ position <= polled /\ polled <= Len(log)
    /\ offset \in Nat /\ position \in Nat /\ polled \in Nat
    /\ posted \subseteq Rows
    /\ earlier \in [Rows -> SUBSET Rows]
    /\ handled \in [Rows -> Nat]
    /\ atOnce \in 1..2
    /\ relayFailures \in 0..MaxFailures
    /\ consumerFailures \in 0..MaxFailures

-----------------------------------------------------------------------------
Logged == {log[k] : k \in 1..Len(log)}

(***************************************************************************)
(* A row that was committed is in the outbox until it is in the log: no    *)
(* failure of a relay loses it (producer.rs:25-46).                        *)
(***************************************************************************)
NothingLost == posted \subseteq outbox \cup Logged

(***************************************************************************)
(* A record is repeated only if a relay has failed, once for each failure; *)
(* relays that work side by side never send the same row (producer.rs:     *)
(* 26-31).                                                                 *)
(***************************************************************************)
RepeatsArePaid == Len(log) <= Cardinality(Logged) + relayFailures

(***************************************************************************)
(* A row is sent before every row that was inserted after it had been      *)
(* committed, or after it in the same transaction, unless two relays have  *)
(* held rows at the same time.  A saga's next command never overtakes the  *)
(* one before (producer.rs:26-31).                                         *)
(***************************************************************************)
CausesFirst ==
    atOnce = 1 =>
        \A k \in 1..Len(log) :
            \A i \in earlier[log[k]] : \E j \in 1..(k - 1) : log[j] = i

(***************************************************************************)
(* The committed offset never passes a record that has not been handled: a *)
(* crash of the consumer loses none (order consumer.rs:201-226).           *)
(***************************************************************************)
OffsetIsHandled == \A k \in 1..offset : handled[log[k]] > 0

(***************************************************************************)
(* The pipeline implements what the senders rely on: what is handled was   *)
(* committed (producer.rs:18-56, consumer.rs:201-226) ...                  *)
(***************************************************************************)
Channel == INSTANCE AtLeastOnce WITH
    Messages <- Rows, posted <- posted, handled <- handled

ImplementsChannel == Channel!Spec

(***************************************************************************)
(* ... and when nobody writes any more, everything committed is handled in *)
(* the end, though relays and consumer may fail at any step (producer.rs:  *)
(* 25-46, consumer.rs:201-226).                                            *)
(***************************************************************************)
EverythingDelivered == Channel!Delivery
=============================================================================
