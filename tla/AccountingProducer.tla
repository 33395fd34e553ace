------------------------- MODULE AccountingProducer -------------------------
(***************************************************************************)
(* The producer process of the accounting service (app/producer.rs).  It   *)
(* sends every event of every account stream to Kafka: a                   *)
(* CommandReplyRequested as the reply it holds, on the reply channel, the  *)
(* others on accounting.event.  The send and the checkpoint are two steps, *)
(* and a crash between them sends the event again.                         *)
(***************************************************************************)
EXTENDS CheckpointStore, FiniteSets

VARIABLES
    log,   \* account -> the sequence numbers of the events sent, in order
    sent   \* the record of the next row has been sent, its checkpoint not stored

producerVars == <<storeVars, log, sent>>

ProducerInit ==
    /\ StoreInit
    /\ log = [a \in Accounts |-> <<>>]
    /\ sent = FALSE

ProducerWriteSide(a) == AppendEvents(a) /\ UNCHANGED <<log, sent>>

ProducerQuery == Load /\ UNCHANGED <<log, sent>>

\* publish_accounting_event or publish_command_reply.
Send ==
    /\ rows # {}
    /\ ~sent
    /\ log' = [log EXCEPT ![NextRow.account] = Append(@, NextRow.sequence)]
    /\ sent' = TRUE
    /\ UNCHANGED storeVars

ProducerMayStore == sent

ProducerStore ==
    /\ rows # {}
    /\ ProducerMayStore
    /\ StoreCheckpoint
    /\ sent' = FALSE
    /\ UNCHANGED log

\* A crash, or an error of Kafka or the database: main unwraps it.  Kafka may
\* have taken a record whose send has failed.
ProducerCrash == CrashOnce /\ sent' = FALSE /\ UNCHANGED log

ProducerLoop == ProducerQuery \/ Send \/ ProducerStore

ProducerNext ==
    \/ ProducerLoop
    \/ ProducerCrash
    \/ \E a \in Accounts : ProducerWriteSide(a)

ProducerSpec == ProducerInit /\ [][ProducerNext]_producerVars

\* The process runs for ever and is restarted; nobody has to append.
FairProducerSpec == ProducerSpec /\ WF_producerVars(ProducerLoop)

ProducerTypeOK ==
    /\ StoreTypeOK
    /\ log \in [Accounts -> Seq(Nat)]
    /\ sent \in BOOLEAN

-----------------------------------------------------------------------------
Sent(a) == {log[a][i] : i \in 1..Len(log[a])}

(***************************************************************************)
(* No event overtakes an earlier one of its stream: when it is sent for    *)
(* the first time, all before it have been.  The reply to a command comes  *)
(* after the event it reports.  Crashes do not change it (producer.rs:     *)
(* 36-61, checkpoint.rs:44-59).                                            *)
(***************************************************************************)
SentInOrder ==
    \A a \in Accounts : \A i \in 1..Len(log[a]) :
        \A n \in 0..(log[a][i] - 1) : \E j \in 1..(i - 1) : log[a][j] = n

(***************************************************************************)
(* A crash costs one repeated record at most, however many rows the query  *)
(* returned: the checkpoint follows each record (producer.rs:56).          *)
(***************************************************************************)
OneRepeatPerCrash ==
    \A a \in Accounts : Len(log[a]) <= Cardinality(Sent(a)) + crashes

(***************************************************************************)
(* Every event is sent in the end, those of streams that have no           *)
(* checkpoint yet included (checkpoint.rs:52).  A saga waits for its reply *)
(* on this.                                                                *)
(***************************************************************************)
EveryEventSent ==
    \A a \in Accounts, n \in 0..MaxEvents :
        n < Len(streams[a]) ~> n \in Sent(a)
=============================================================================
