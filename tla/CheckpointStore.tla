--------------------------- MODULE CheckpointStore ---------------------------
(***************************************************************************)
(* What the producer and the projector of the accounting service share:    *)
(* the event streams, which the write side extends while they read, and a  *)
(* CheckpointStore (store/checkpoint.rs) for one subscription.  A query    *)
(* returns the events after the checkpoints as they are when it runs; the  *)
(* process goes through these rows in the order of the query, and stores a *)
(* checkpoint after each.  The rows are in the memory of the process: a    *)
(* crash loses them, and the restarted process runs the query again.       *)
(***************************************************************************)
EXTENDS Integers, Sequences

CONSTANTS
    Accounts,    \* accounts, numbered as their stream names are ordered
    Amounts,     \* amounts of deposits and withdrawals
    MaxEvents,   \* bound: nothing is appended to a stream that is as long
    MaxCrashes   \* bound: how often the process crashes

ASSUME StoreConstants ==
    /\ Accounts \subseteq Nat
    /\ Amounts \subseteq Nat
    /\ MaxEvents \in Nat
    /\ MaxCrashes \in Nat

VARIABLES
    streams,     \* account -> its events, that of sequence number n at n + 1
    checkpoint,  \* account -> checkpoints.sequence, -1 if it has no row
    rows,        \* the rows of the running query that are not done yet
    crashes      \* how often the process has crashed

storeVars == <<streams, checkpoint, rows, crashes>>

-----------------------------------------------------------------------------
MoneyKinds == {"AccountDeposited", "AccountWithdrawn"}

(***************************************************************************)
(* An event.  balance is what the events of the stream up to this one add  *)
(* up to; the code computes it by replaying them.                          *)
(***************************************************************************)
Events ==
    [kind : {"AccountOpened", "CommandReplyRequested"} \cup MoneyKinds,
     amount : Nat, balance : Int]

BalanceOf(a) ==
    IF streams[a] = <<>> THEN 0 ELSE streams[a][Len(streams[a])].balance

Event(kind, amount, balance) ==
    [kind |-> kind, amount |-> amount, balance |-> balance]

MoneyEvents(a) ==
    {Event("AccountDeposited", m, BalanceOf(a) + m) : m \in Amounts}
    \cup {Event("AccountWithdrawn", m, BalanceOf(a) - m) :
              m \in {x \in Amounts : x <= BalanceOf(a)}}

ReplyRequested(balance) == Event("CommandReplyRequested", 0, balance)

(***************************************************************************)
(* What one append may add to the stream of a: create opens a stream that  *)
(* is empty; deposit and withdraw add their event if they are granted, and *)
(* a reply if they come from a command.  They do so for any stream, also   *)
(* one that was never opened.                                              *)
(***************************************************************************)
Appends(a) ==
    (IF streams[a] = <<>> THEN {<<Event("AccountOpened", 0, 0)>>} ELSE {})
    \cup {<<e>> : e \in MoneyEvents(a)}
    \cup {<<e, ReplyRequested(e.balance)>> : e \in MoneyEvents(a)}
    \cup {<<ReplyRequested(BalanceOf(a))>>}

StoreInit ==
    /\ streams = [a \in Accounts |-> <<>>]
    /\ checkpoint = [a \in Accounts |-> -1]
    /\ rows = {}
    /\ crashes = 0

\* EventStore::append, which keeps a stream gapless: see AccountingService.
AppendEvents(a) ==
    /\ Len(streams[a]) < MaxEvents
    /\ \E es \in Appends(a) : streams' = [streams EXCEPT ![a] = @ \o es]
    /\ UNCHANGED <<checkpoint, rows, crashes>>

-----------------------------------------------------------------------------
\* A row names an event: the account and the sequence number.
Row(a, n) == [account |-> a, sequence |-> n]

\* Mutant: without the or_filter for streams that have no checkpoint.
RowsOfKnownStreams ==
    UNION {{Row(a, n) : n \in (checkpoint[a] + 1)..(Len(streams[a]) - 1)} :
              a \in {b \in Accounts : checkpoint[b] >= 0}}

\* Mutant: events from the checkpoint on, instead of after it.
RowsFromCheckpoint ==
    UNION {{Row(a, n) : n \in {x \in 0..(Len(streams[a]) - 1) :
                                  x >= checkpoint[a]}} : a \in Accounts}

\* retrieve_events_after_checkpoint.
RowsAfterCheckpoint ==
    UNION {{Row(a, n) : n \in (checkpoint[a] + 1)..(Len(streams[a]) - 1)} :
              a \in Accounts}

\* The query finds nothing, or its rows are the next to be done.
Load ==
    /\ rows = {}
    /\ RowsAfterCheckpoint # {}
    /\ rows' = RowsAfterCheckpoint
    /\ UNCHANGED <<streams, checkpoint, crashes>>

\* Mutant: without the order by sequence, a late event may come first.
Backwards(r, s) ==
    \/ r.account < s.account
    \/ r.account = s.account /\ r.sequence >= s.sequence

\* ORDER BY stream_name, sequence.
Before(r, s) ==
    \/ r.account < s.account
    \/ r.account = s.account /\ r.sequence <= s.sequence

NextRow == CHOOSE r \in rows : \A s \in rows : Before(r, s)

EventAt(r) == streams[r.account][r.sequence + 1]

\* CheckpointStore::store after the next row; that row is done.
StoreCheckpoint ==
    /\ checkpoint' = [checkpoint EXCEPT ![NextRow.account] = NextRow.sequence]
    /\ rows' = rows \ {NextRow}
    /\ UNCHANGED <<streams, crashes>>

\* The process is restarted with nothing in memory.
LoseRows == rows' = {} /\ UNCHANGED <<streams, checkpoint>>

CrashOnce ==
    /\ rows # {}
    /\ crashes < MaxCrashes
    /\ crashes' = crashes + 1
    /\ LoseRows

StoreTypeOK ==
    /\ streams \in [Accounts -> Seq(Events)]
    /\ checkpoint \in [Accounts -> Int]
    /\ \A a \in Accounts : checkpoint[a] \in -1..(Len(streams[a]) - 1)
    /\ rows \subseteq [account : Accounts, sequence : Nat]
    /\ crashes \in 0..MaxCrashes
=============================================================================
