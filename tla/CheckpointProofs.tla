--------------------------- MODULE CheckpointProofs ---------------------------
(***************************************************************************)
(* The two readers of the accounting streams, for any number of accounts,  *)
(* events and crashes.  The first part is what they share: the rows left   *)
(* of a query are a run right after the checkpoints.  The second part is   *)
(* the producer: an event is first sent after all before it in its stream, *)
(* a checkpoint never passes an event that has not been sent, and a crash  *)
(* repeats one record at most.  The third is the projector: its two tables *)
(* show what a prefix of the stream adds up to, however often an event is  *)
(* projected, and what lies behind a checkpoint is in both.                *)
(***************************************************************************)
EXTENDS AccountingProducer, AccountingProjector, FiniteSetTheorems,
        WellFoundedInduction, TLAPS

\* What is left of the rows starts right after the checkpoints.
RowsFollow ==
    \A r \in rows :
        /\ checkpoint[r.account] < r.sequence
        /\ r.sequence < Len(streams[r.account])
        /\ \A n \in (checkpoint[r.account] + 1)..r.sequence :
              Row(r.account, n) \in rows

\* Streams are only added to.
StreamsGrow ==
    \A a \in Accounts :
        /\ Len(streams'[a]) \in Nat /\ Len(streams[a]) <= Len(streams'[a])
        /\ \A i \in 1..Len(streams[a]) : streams'[a][i] = streams[a][i]

\* What the types say of one account.
LEMMA StoreTypes ==
    ASSUME StoreTypeOK, NEW a \in Accounts
    PROVE  /\ streams[a] \in Seq(Events) /\ Len(streams[a]) \in Nat
           /\ checkpoint[a] \in Int /\ -1 <= checkpoint[a]
           /\ checkpoint[a] < Len(streams[a])
           /\ crashes \in Nat /\ crashes <= MaxCrashes
<1>1. streams[a] \in Seq(Events) /\ checkpoint[a] \in Int
  BY DEF StoreTypeOK
<1>2. Len(streams[a]) \in Nat
  BY <1>1
<1>3. checkpoint[a] \in -1..(Len(streams[a]) - 1)
  BY DEF StoreTypeOK
<1>4. -1 <= checkpoint[a] /\ checkpoint[a] < Len(streams[a])
  BY <1>1, <1>2, <1>3
<1>5. crashes \in Nat /\ crashes <= MaxCrashes
  BY StoreConstants DEF StoreTypeOK
<1> QED BY <1>1, <1>2, <1>4, <1>5

-----------------------------------------------------------------------------
(* The query's order has a first row. *)

LEMMA LeastNumber ==
    ASSUME NEW S \in SUBSET Nat, S # {}
    PROVE  \E n \in S : \A m \in S : n <= m
<1>1. PICK n \in S : \A m \in S : <<m, n>> \notin OpToRel(<, Nat)
  BY NatLessThanWellFounded, WFMin
<1>2. \A m \in S : ~(m < n)
  BY <1>1 DEF OpToRel
<1> QED BY <1>2

LEMMA NextRowIsFirst ==
    ASSUME rows \subseteq [account : Accounts, sequence : Nat], rows # {}
    PROVE  NextRow \in rows /\ \A s \in rows : Before(NextRow, s)
<1>1. Accounts \subseteq Nat
  BY StoreConstants
<1> DEFINE A == {r.account : r \in rows}
<1>2. A \in SUBSET Nat /\ A # {}
  BY <1>1
<1>3. PICK a \in A : \A b \in A : a <= b
  BY <1>2, LeastNumber
<1> DEFINE Q == {r.sequence : r \in {s \in rows : s.account = a}}
<1>4. Q \in SUBSET Nat /\ Q # {}
  OBVIOUS
<1>5. PICK q \in Q : \A p \in Q : q <= p
  BY <1>4, LeastNumber
<1>6. PICK r \in rows : r.account = a /\ r.sequence = q
  BY <1>5
<1>7. \A s \in rows : Before(r, s)
  <2> SUFFICES ASSUME NEW s \in rows PROVE Before(r, s)
    OBVIOUS
  <2>1. a <= s.account /\ a \in Nat /\ s.account \in Nat
    BY <1>2, <1>3
  <2>2. s.account = a => q <= s.sequence
    BY <1>5
  <2> QED BY <1>6, <2>1, <2>2 DEF Before
<1> QED BY <1>7 DEF NextRow

\* It is the event right after its account's checkpoint.
LEMMA NextRowFollows ==
    ASSUME StoreTypeOK, RowsFollow, rows # {}
    PROVE  /\ NextRow \in rows
           /\ NextRow.account \in Accounts /\ NextRow.sequence \in Nat
           /\ NextRow.sequence = checkpoint[NextRow.account] + 1
           /\ NextRow.sequence < Len(streams[NextRow.account])
<1> DEFINE r == NextRow
           c == checkpoint[r.account]
<1>1. rows \subseteq [account : Accounts, sequence : Nat]
  BY DEF StoreTypeOK
<1>2. r \in rows /\ \A s \in rows : Before(r, s)
  BY <1>1, NextRowIsFirst
<1>3. r.account \in Accounts /\ r.sequence \in Nat /\ Accounts \subseteq Nat
  BY <1>1, <1>2, StoreConstants
<1>4. c \in Int /\ -1 <= c
  BY <1>3, StoreTypes
<1>5. /\ c < r.sequence /\ r.sequence < Len(streams[r.account])
      /\ \A n \in (c + 1)..r.sequence : Row(r.account, n) \in rows
  BY <1>2 DEF RowsFollow
<1> HIDE DEF r
<1>6. Row(r.account, c + 1) \in rows
  BY <1>3, <1>4, <1>5
<1>7. Before(r, Row(r.account, c + 1))
  BY <1>2, <1>6 DEF r
<1>8. r.sequence <= c + 1
  <2>1. /\ Row(r.account, c + 1).account = r.account
        /\ Row(r.account, c + 1).sequence = c + 1
    BY DEF Row
  <2>2. ~(r.account < r.account)
    <3>1. r.account \in Nat
      BY <1>3
    <3>2. \A k \in Nat : ~(k < k)
      OBVIOUS
    <3> QED BY <3>1, <3>2
  <2> QED BY <1>7, <2>1, <2>2 DEF Before
<1>9. r.sequence = c + 1
  BY <1>3, <1>4, <1>5, <1>8
<1> QED BY <1>2, <1>3, <1>5, <1>9 DEF r

-----------------------------------------------------------------------------
(* What an append adds to a stream. *)

LEMMA AppendsType ==
    ASSUME StoreTypeOK, NEW a \in Accounts
    PROVE  Appends(a) \subseteq Seq(Events)
<1>1. streams[a] \in Seq(Events)
  BY DEF StoreTypeOK
<1>2. BalanceOf(a) \in Int
  <2>1. CASE streams[a] = <<>>
    BY <2>1 DEF BalanceOf
  <2>2. CASE streams[a] # <<>>
    <3>1. streams[a][Len(streams[a])] \in Events
      BY <1>1, <2>2
    <3> QED BY <2>2, <3>1 DEF BalanceOf, Events
  <2> QED BY <2>1, <2>2
<1>3. /\ Event("AccountOpened", 0, 0) \in Events
      /\ \A b \in Int : ReplyRequested(b) \in Events
  BY DEF Event, Events, ReplyRequested
<1>4. MoneyEvents(a) \subseteq Events
  BY <1>2, StoreConstants DEF MoneyEvents, Event, Events, MoneyKinds
<1>5. \A e \in MoneyEvents(a) : e.balance \in Int
  BY <1>4 DEF Events
<1>6. \A e \in Events : \A f \in Events : <<e>> \in Seq(Events) /\ <<e, f>> \in Seq(Events)
  OBVIOUS
<1>7. \A e \in MoneyEvents(a) : <<e>> \in Seq(Events)
                                 /\ <<e, ReplyRequested(e.balance)>> \in Seq(Events)
  BY <1>3, <1>4, <1>5, <1>6
<1>8. /\ <<Event("AccountOpened", 0, 0)>> \in Seq(Events)
      /\ <<ReplyRequested(BalanceOf(a))>> \in Seq(Events)
  BY <1>2, <1>3, <1>6
<1> QED BY <1>7, <1>8 DEF Appends

-----------------------------------------------------------------------------
(* What the steps of the store do, whoever reads. *)

\* The write side adds to a stream and leaves the rows as they were read.
LEMMA AppendKeepsStore ==
    ASSUME StoreTypeOK, RowsFollow, NEW a \in Accounts, AppendEvents(a)
    PROVE  /\ StoreTypeOK' /\ RowsFollow' /\ StreamsGrow
           /\ NextRow' = NextRow
           /\ UNCHANGED <<checkpoint, rows, crashes>>
<1>1. PICK es \in Appends(a) : streams' = [streams EXCEPT ![a] = streams[a] \o es]
  BY DEF AppendEvents
<1>2. /\ streams \in [Accounts -> Seq(Events)] /\ es \in Seq(Events)
      /\ UNCHANGED <<checkpoint, rows, crashes>>
  BY <1>1, AppendsType DEF StoreTypeOK, AppendEvents
<1>3. /\ streams[a] \o es \in Seq(Events)
      /\ Len(streams[a] \o es) = Len(streams[a]) + Len(es)
      /\ Len(es) \in Nat /\ Len(streams[a]) \in Nat
      /\ \A i \in 1..Len(streams[a]) : (streams[a] \o es)[i] = streams[a][i]
  BY <1>2
<1>4. /\ streams' \in [Accounts -> Seq(Events)]
      /\ \A b \in Accounts : /\ Len(streams[b]) \in Nat /\ Len(streams'[b]) \in Nat
                             /\ Len(streams[b]) <= Len(streams'[b])
  BY <1>1, <1>2, <1>3
<1>5. StoreTypeOK'
  BY <1>2, <1>4 DEF StoreTypeOK
<1>6. RowsFollow'
  BY <1>2, <1>4 DEF StoreTypeOK, RowsFollow, Row
<1>7. StreamsGrow
  BY <1>1, <1>2, <1>3, <1>4 DEF StreamsGrow
<1>8. NextRow' = NextRow
  BY <1>2 DEF NextRow, Before
<1> QED BY <1>2, <1>5, <1>6, <1>7, <1>8

LEMMA LoadKeepsStore ==
    ASSUME StoreTypeOK, Load
    PROVE  StoreTypeOK' /\ RowsFollow'
<1>1. /\ rows' = RowsAfterCheckpoint
      /\ UNCHANGED <<streams, checkpoint, crashes>>
  BY DEF Load
<1>2. \A r \in rows' : \E a \in Accounts, n \in Int :
          /\ r = Row(a, n) /\ checkpoint[a] < n /\ n < Len(streams[a])
          /\ n \in Nat
  <2> SUFFICES ASSUME NEW r \in RowsAfterCheckpoint
               PROVE  \E a \in Accounts, n \in Int :
                         /\ r = Row(a, n) /\ checkpoint[a] < n
                         /\ n < Len(streams[a]) /\ n \in Nat
    BY <1>1
  <2>1. PICK a \in Accounts :
            \E n \in (checkpoint[a] + 1)..(Len(streams[a]) - 1) : r = Row(a, n)
    BY DEF RowsAfterCheckpoint
  <2>2. PICK n \in (checkpoint[a] + 1)..(Len(streams[a]) - 1) : r = Row(a, n)
    BY <2>1
  <2>3. checkpoint[a] \in Int /\ -1 <= checkpoint[a] /\ Len(streams[a]) \in Nat
    BY StoreTypes
  <2>4. n \in Int /\ n \in Nat /\ checkpoint[a] < n /\ n < Len(streams[a])
    BY <2>2, <2>3
  <2> QED BY <2>2, <2>4
<1>3. \A a \in Accounts : \A n \in Int :
          checkpoint[a] < n /\ n < Len(streams[a]) => Row(a, n) \in rows'
  BY <1>1 DEF RowsAfterCheckpoint, StoreTypeOK
<1>4. StoreTypeOK'
  BY <1>1, <1>2 DEF StoreTypeOK, Row
<1>5. RowsFollow'
  <2> SUFFICES ASSUME NEW r \in rows'
               PROVE  /\ checkpoint[r.account] < r.sequence
                      /\ r.sequence < Len(streams[r.account])
                      /\ \A m \in (checkpoint[r.account] + 1)..r.sequence :
                            Row(r.account, m) \in rows'
    BY <1>1 DEF RowsFollow, Row
  <2>1. PICK a \in Accounts, n \in Int :
            r = Row(a, n) /\ checkpoint[a] < n /\ n < Len(streams[a])
    BY <1>2
  <2>2. r.account = a /\ r.sequence = n
    BY <2>1 DEF Row
  <2>3. checkpoint[a] \in Int /\ Len(streams[a]) \in Nat
    BY DEF StoreTypeOK
  <2> QED BY <1>3, <2>1, <2>2, <2>3
<1> QED BY <1>4, <1>5

\* The checkpoint moves by one, to the row that is done.
LEMMA CheckpointKeepsStore ==
    ASSUME StoreTypeOK, RowsFollow, rows # {}, StoreCheckpoint,
           NEW a \in Accounts, NEW n \in Nat,
           a = NextRow.account, n = NextRow.sequence
    PROVE  /\ StoreTypeOK' /\ RowsFollow'
           /\ n = checkpoint[a] + 1 /\ checkpoint'[a] = n
           /\ \A b \in Accounts : b # a => checkpoint'[b] = checkpoint[b]
           /\ UNCHANGED <<streams, crashes>>
<1>1. /\ NextRow \in rows
      /\ n = checkpoint[a] + 1 /\ n < Len(streams[a])
      /\ checkpoint' = [checkpoint EXCEPT ![a] = n]
      /\ rows' = rows \ {NextRow}
      /\ UNCHANGED <<streams, crashes>>
  BY NextRowFollows DEF StoreCheckpoint
<1>2. /\ checkpoint \in [Accounts -> Int] /\ checkpoint[a] \in Int
      /\ Len(streams[a]) \in Nat
      /\ rows \subseteq [account : Accounts, sequence : Nat]
  BY <1>1 DEF StoreTypeOK
<1>3. NextRow = Row(a, n)
  BY <1>1, <1>2 DEF Row
<1>4. /\ checkpoint'[a] = n
      /\ \A b \in Accounts : b # a => checkpoint'[b] = checkpoint[b]
  BY <1>1, <1>2
<1>5. StoreTypeOK'
  <2>1. checkpoint' \in [Accounts -> Int]
    BY <1>1, <1>2
  <2>2. ASSUME NEW b \in Accounts
        PROVE  checkpoint'[b] \in -1..(Len(streams[b]) - 1)
    <3>1. checkpoint[b] \in -1..(Len(streams[b]) - 1)
      BY DEF StoreTypeOK
    <3>2. CASE b = a
      BY <1>1, <1>2, <1>4, <3>2
    <3> QED BY <1>4, <3>1, <3>2
  <2>3. /\ streams' \in [Accounts -> Seq(Events)]
        /\ rows' \subseteq [account : Accounts, sequence : Nat]
        /\ crashes' \in 0..MaxCrashes
    BY <1>1, <1>2 DEF StoreTypeOK
  <2>4. \A b \in Accounts : checkpoint'[b] \in -1..(Len(streams'[b]) - 1)
    BY <1>1, <2>2
  <2> QED BY <2>1, <2>3, <2>4 DEF StoreTypeOK
<1>6. RowsFollow'
  <2> SUFFICES ASSUME NEW r \in rows'
               PROVE  /\ checkpoint'[r.account] < r.sequence
                      /\ r.sequence < Len(streams[r.account])
                      /\ \A m \in (checkpoint'[r.account] + 1)..r.sequence :
                            Row(r.account, m) \in rows'
    BY <1>1 DEF RowsFollow, Row
  <2>1. /\ r \in rows /\ r # Row(a, n)
        /\ r.account \in Accounts /\ r.sequence \in Nat
        /\ r = Row(r.account, r.sequence)
        /\ checkpoint[r.account] < r.sequence
        /\ r.sequence < Len(streams[r.account])
        /\ \A m \in (checkpoint[r.account] + 1)..r.sequence :
              Row(r.account, m) \in rows
        /\ checkpoint[r.account] \in Int
    BY <1>1, <1>2, <1>3 DEF RowsFollow, StoreTypeOK, Row
  <2>2. CASE r.account # a
    <3>1. \A m : Row(r.account, m) # Row(a, n)
      BY <2>2 DEF Row
    <3> QED BY <1>1, <1>3, <1>4, <2>1, <2>2, <3>1
  <2>3. CASE r.account = a
    <3>1. r.sequence # n
      BY <2>1, <2>3
    <3>2. \A m \in (n + 1)..r.sequence : Row(a, m) # Row(a, n)
      BY <1>1 DEF Row
    <3>3. n < r.sequence /\ r.sequence < Len(streams[r.account])
      BY <1>1, <1>2, <2>1, <2>3, <3>1
    <3>4. ASSUME NEW m \in (n + 1)..r.sequence
          PROVE  Row(r.account, m) \in rows'
      <4>1. m \in (checkpoint[a] + 1)..r.sequence
        BY <1>1, <1>2, <2>1
      <4>2. Row(a, m) \in rows /\ Row(a, m) # Row(a, n)
        BY <2>1, <2>3, <3>2, <4>1
      <4> QED BY <1>1, <1>3, <2>3, <4>2
    <3>5. checkpoint'[r.account] = n
      BY <1>4, <2>3
    <3> QED BY <3>3, <3>4, <3>5
  <2> QED BY <2>2, <2>3
<1> QED BY <1>1, <1>4, <1>5, <1>6

\* When a query finds nothing, the checkpoints are at the ends of the streams.
LEMMA NothingAfterCheckpoint ==
    ASSUME StoreTypeOK, RowsAfterCheckpoint = {}, NEW a \in Accounts,
           NEW n \in 0..(Len(streams[a]) - 1)
    PROVE  n \in 0..checkpoint[a]
<1>1. checkpoint[a] \in Int /\ Len(streams[a]) \in Nat
  BY StoreTypes
<1>2. ASSUME checkpoint[a] < n PROVE FALSE
  <2>1. n \in (checkpoint[a] + 1)..(Len(streams[a]) - 1)
    BY <1>1, <1>2
  <2>2. Row(a, n) \in RowsAfterCheckpoint
    BY <2>1 DEF RowsAfterCheckpoint
  <2> QED BY <2>2
<1> QED BY <1>1, <1>2

\* A restart loses the rows; nothing else.
LEMMA LoseRowsKeepsStore ==
    ASSUME StoreTypeOK, LoseRows, crashes' \in 0..MaxCrashes
    PROVE  StoreTypeOK' /\ RowsFollow' /\ UNCHANGED <<streams, checkpoint>>
<1>1. rows' = {} /\ UNCHANGED <<streams, checkpoint>>
  BY DEF LoseRows
<1>2. \A b \in Accounts : checkpoint'[b] \in -1..(Len(streams'[b]) - 1)
  BY <1>1 DEF StoreTypeOK
<1>3. streams' \in [Accounts -> Seq(Events)] /\ checkpoint' \in [Accounts -> Int]
  BY <1>1 DEF StoreTypeOK
<1> QED BY <1>1, <1>2, <1>3 DEF StoreTypeOK, RowsFollow

LEMMA CrashIsCounted ==
    ASSUME StoreTypeOK, CrashOnce
    PROVE  /\ crashes \in Nat /\ crashes' = crashes + 1
           /\ crashes' \in 0..MaxCrashes
<1>1. crashes' = crashes + 1 /\ crashes < MaxCrashes
  BY DEF CrashOnce
<1> QED BY <1>1, StoreConstants DEF StoreTypeOK

\* Empty streams, no rows.
LEMMA StoreInitOK ==
    ASSUME StoreInit
    PROVE  /\ StoreTypeOK /\ RowsFollow /\ rows = {} /\ crashes = 0
           /\ \A a \in Accounts : streams[a] = <<>> /\ checkpoint[a] = -1
<1>1. <<>> \in Seq(Events) /\ Len(<<>>) = 0
  OBVIOUS
<1>2. /\ streams \in [Accounts -> Seq(Events)] /\ rows = {} /\ crashes = 0
      /\ \A a \in Accounts : /\ streams[a] = <<>> /\ Len(streams[a]) = 0
                             /\ checkpoint[a] = -1
  BY <1>1 DEF StoreInit
<1>3. \A a \in Accounts : checkpoint[a] \in -1..(Len(streams[a]) - 1)
  <2>1. -1 \in -1..(0 - 1)
    OBVIOUS
  <2> QED BY <1>2, <2>1
<1>4. checkpoint \in [Accounts -> Int] /\ crashes \in 0..MaxCrashes
  BY StoreConstants DEF StoreInit
<1> QED BY <1>2, <1>3, <1>4 DEF StoreTypeOK, RowsFollow
-----------------------------------------------------------------------------
(* The producer. *)

(***************************************************************************)
(* No checkpoint passes an event that has not been sent: what a restart    *)
(* skips has gone out (producer.rs:48-56).                                 *)
(***************************************************************************)
CheckpointIsSent ==
    \A a \in Accounts : \A n \in 0..checkpoint[a] : n \in Sent(a)

SentRow == sent => rows # {} /\ NextRow.sequence \in Sent(NextRow.account)

\* At most the event after the checkpoint has been sent early.
NotFarAhead ==
    \A a \in Accounts :
        /\ IsFiniteSet(Sent(a))
        /\ \A n \in Sent(a) : n <= checkpoint[a] + 1

\* The record that will be repeated, unless its checkpoint is about to follow.
Due(a) ==
    IF checkpoint[a] + 1 \in Sent(a) /\ ~(sent /\ NextRow.account = a) THEN 1 ELSE 0

RepeatsCounted ==
    \A a \in Accounts : Len(log[a]) + Due(a) <= Cardinality(Sent(a)) + crashes

ProducerInv ==
    /\ ProducerTypeOK
    /\ RowsFollow
    /\ CheckpointIsSent
    /\ SentRow
    /\ SentInOrder
    /\ NotFarAhead
    /\ RepeatsCounted

LEMMA ProducerTypes ==
    ASSUME ProducerTypeOK, NEW a \in Accounts
    PROVE  /\ StoreTypeOK
           /\ log[a] \in Seq(Nat) /\ Len(log[a]) \in Nat
           /\ \A n \in Sent(a) : n \in Nat
<1>1. log[a] \in Seq(Nat)
  BY DEF ProducerTypeOK
<1> QED BY <1>1 DEF ProducerTypeOK, Sent

LEMMA ProducerWriteSideInv ==
    ASSUME ProducerInv, NEW a \in Accounts, ProducerWriteSide(a)
    PROVE  ProducerInv'
<1>1. /\ StoreTypeOK' /\ RowsFollow' /\ NextRow' = NextRow
      /\ UNCHANGED <<checkpoint, rows, crashes>>
  BY AppendKeepsStore DEF ProducerInv, ProducerTypeOK, ProducerWriteSide
<1>2. UNCHANGED <<log, sent>>
  BY DEF ProducerWriteSide
<1>3. \A b : Sent(b)' = Sent(b)
  BY <1>2 DEF Sent
<1>4. \A b : Due(b)' = Due(b)
  BY <1>1, <1>2, <1>3 DEF Due
<1>5. ProducerTypeOK'
  BY <1>1, <1>2 DEF ProducerInv, ProducerTypeOK
<1>6. CheckpointIsSent' /\ SentRow' /\ SentInOrder'
  BY <1>1, <1>2, <1>3 DEF ProducerInv, CheckpointIsSent, SentRow, SentInOrder
<1>7. NotFarAhead' /\ RepeatsCounted'
  BY <1>1, <1>2, <1>3, <1>4 DEF ProducerInv, NotFarAhead, RepeatsCounted
<1> QED BY <1>1, <1>5, <1>6, <1>7 DEF ProducerInv

LEMMA ProducerQueryInv ==
    ASSUME ProducerInv, ProducerQuery
    PROVE  ProducerInv'
<1>1. /\ rows = {}
      /\ UNCHANGED <<streams, checkpoint, crashes, log, sent>>
  BY DEF ProducerQuery, Load
<1>2. ~sent
  BY <1>1 DEF ProducerInv, SentRow
<1>3. StoreTypeOK' /\ RowsFollow'
  BY LoadKeepsStore DEF ProducerInv, ProducerTypeOK, ProducerQuery
<1>4. ProducerTypeOK'
  BY <1>1, <1>3 DEF ProducerInv, ProducerTypeOK
<1>5. \A b : Sent(b)' = Sent(b)
  BY <1>1 DEF Sent
<1>6. \A b : Due(b)' = Due(b)
  BY <1>1, <1>2, <1>5 DEF Due
<1> QED BY <1>1, <1>2, <1>3, <1>4, <1>5, <1>6
        DEF ProducerInv, CheckpointIsSent, SentRow, SentInOrder, NotFarAhead,
            RepeatsCounted

\* What the next record does to its account's log.
LEMMA SendAppends ==
    ASSUME ProducerInv, Send, NEW a \in Accounts, NEW n \in Nat,
           a = NextRow.account, n = NextRow.sequence
    PROVE  /\ log' \in [Accounts -> Seq(Nat)]
           /\ \A b \in Accounts : b # a => log'[b] = log[b] /\ Sent(b)' = Sent(b)
           /\ Len(log'[a]) = Len(log[a]) + 1
           /\ \A i \in 1..Len(log[a]) : log'[a][i] = log[a][i]
           /\ log'[a][Len(log[a]) + 1] = n
           /\ Sent(a)' = Sent(a) \cup {n}
<1>1. log' = [log EXCEPT ![a] = Append(log[a], n)]
  BY DEF Send
<1>2. log \in [Accounts -> Seq(Nat)]
  BY DEF ProducerInv, ProducerTypeOK
<1>3. /\ Append(log[a], n) \in Seq(Nat)
      /\ Len(Append(log[a], n)) = Len(log[a]) + 1
      /\ \A i \in 1..Len(log[a]) : Append(log[a], n)[i] = log[a][i]
      /\ Append(log[a], n)[Len(log[a]) + 1] = n
      /\ Len(log[a]) \in Nat
  BY <1>2
<1>4. log'[a] = Append(log[a], n) /\ log' \in [Accounts -> Seq(Nat)]
  BY <1>1, <1>2, <1>3
<1>5. \A b \in Accounts : b # a => log'[b] = log[b] /\ Sent(b)' = Sent(b)
  BY <1>1, <1>2 DEF Sent
<1>6. {log'[a][i] : i \in 1..Len(log'[a])} = {log[a][i] : i \in 1..Len(log[a])} \cup {n}
  BY <1>3, <1>4
<1>7. Sent(a)' = Sent(a) \cup {n}
  BY <1>6 DEF Sent
<1> QED BY <1>3, <1>4, <1>5, <1>7

LEMMA ProducerSendInv ==
    ASSUME ProducerInv, Send
    PROVE  ProducerInv'
<1>0. PICK a \in Accounts, n \in Nat : a = NextRow.account /\ n = NextRow.sequence
  BY NextRowFollows DEF ProducerInv, ProducerTypeOK, Send
<1>1. /\ n = checkpoint[a] + 1
      /\ rows # {} /\ ~sent /\ sent'
      /\ UNCHANGED <<streams, checkpoint, rows, crashes>>
  BY <1>0, NextRowFollows DEF ProducerInv, ProducerTypeOK, Send, storeVars
<1>2. /\ log' \in [Accounts -> Seq(Nat)]
      /\ \A b \in Accounts : b # a => log'[b] = log[b] /\ Sent(b)' = Sent(b)
      /\ Len(log'[a]) = Len(log[a]) + 1
      /\ \A i \in 1..Len(log[a]) : log'[a][i] = log[a][i]
      /\ log'[a][Len(log[a]) + 1] = n
      /\ Sent(a)' = Sent(a) \cup {n}
  BY <1>0, SendAppends
<1>3. NextRow' = NextRow
  BY <1>1 DEF NextRow, Before
<1>4. Len(log[a]) \in Nat /\ checkpoint[a] \in Int
  BY <1>1 DEF ProducerInv, ProducerTypeOK, StoreTypeOK
<1>5. ProducerTypeOK' /\ RowsFollow'
  BY <1>1, <1>2 DEF ProducerInv, ProducerTypeOK, StoreTypeOK, RowsFollow
<1>6. \A b \in Accounts : Sent(b) \subseteq Sent(b)'
  <2>1. Sent(a) \subseteq Sent(a)'
    BY <1>2
  <2> QED BY <1>2, <2>1
<1>7. CheckpointIsSent'
  BY <1>1, <1>6 DEF ProducerInv, CheckpointIsSent
<1>8. SentRow'
  <2>1. NextRow'.account = a /\ NextRow'.sequence = n
    BY <1>0, <1>3
  <2>2. n \in {log'[a][i] : i \in 1..Len(log'[a])}
    BY <1>2, <1>4
  <2> QED BY <1>1, <2>1, <2>2 DEF SentRow, Sent
<1>9. SentInOrder'
  <2> SUFFICES ASSUME NEW b \in Accounts, NEW i \in 1..Len(log'[b]),
                      NEW m \in 0..(log'[b][i] - 1)
               PROVE  \E j \in 1..(i - 1) : log'[b][j] = m
    BY DEF SentInOrder
  <2>1. CASE b # a
    <3>1. log'[b] = log[b]
      BY <1>2, <2>1
    <3> QED BY <3>1 DEF ProducerInv, SentInOrder
  <2>2. CASE b = a /\ i \in 1..Len(log[a])
    <3>1. PICK j \in 1..(i - 1) : log[a][j] = m
      BY <1>2, <2>2 DEF ProducerInv, SentInOrder
    <3>2. j \in 1..Len(log[a])
      BY <1>4, <2>2
    <3> QED BY <1>2, <2>2, <3>1, <3>2
  <2>3. CASE b = a /\ i = Len(log[a]) + 1
    <3>1. m \in 0..checkpoint[a]
      BY <1>1, <1>2, <1>4, <2>3
    <3>2. m \in Sent(a)
      BY <1>1, <3>1 DEF ProducerInv, CheckpointIsSent
    <3>3. PICK j \in 1..Len(log[a]) : log[a][j] = m
      BY <3>2 DEF Sent
    <3> QED BY <1>2, <1>4, <2>3, <3>3
  <2> QED BY <1>2, <1>4, <2>1, <2>2, <2>3
<1>10. IsFiniteSet(Sent(a)) /\ IsFiniteSet(Sent(a) \cup {n})
  BY <1>1, FS_AddElement DEF ProducerInv, NotFarAhead
<1>11. NotFarAhead'
  <2> SUFFICES ASSUME NEW b \in Accounts
               PROVE  /\ IsFiniteSet(Sent(b)')
                      /\ \A m \in Sent(b)' : m <= checkpoint[b] + 1
    BY <1>1 DEF NotFarAhead
  <2>1. IsFiniteSet(Sent(b)) /\ \A m \in Sent(b) : m <= checkpoint[b] + 1
    BY DEF ProducerInv, NotFarAhead
  <2>2. CASE b # a
    BY <1>2, <2>1, <2>2
  <2>3. CASE b = a
    <3>1. Sent(b)' = Sent(a) \cup {n} /\ n <= checkpoint[b] + 1
      BY <1>1, <1>2, <1>4, <2>3
    <3> QED BY <1>10, <2>1, <2>3, <3>1
  <2> QED BY <2>2, <2>3
<1>12. RepeatsCounted'
  <2> SUFFICES ASSUME NEW b \in Accounts
               PROVE  Len(log'[b]) + Due(b)' <= Cardinality(Sent(b)') + crashes
    BY <1>1 DEF RepeatsCounted
  <2>1. Len(log[b]) + Due(b) <= Cardinality(Sent(b)) + crashes
    BY DEF ProducerInv, RepeatsCounted
  <2>2. CASE b # a
    <3>1. Due(b)' = Due(b)
      BY <1>0, <1>1, <1>2, <1>3, <2>2 DEF Due
    <3> QED BY <1>2, <2>1, <2>2, <3>1
  <2>3. CASE b = a
    <3>1. Due(b)' = 0 /\ Due(b) = IF n \in Sent(a) THEN 1 ELSE 0
      BY <1>0, <1>1, <1>2, <1>3, <2>3 DEF Due
    <3>2. /\ Cardinality(Sent(a)) \in Nat
          /\ Cardinality(Sent(a)')
               = IF n \in Sent(a) THEN Cardinality(Sent(a)) ELSE Cardinality(Sent(a)) + 1
      BY <1>2, <1>10, FS_AddElement, FS_CardinalityType
    <3>3. crashes \in Nat
      BY StoreTypes DEF ProducerInv, ProducerTypeOK
    <3> DEFINE C == Cardinality(Sent(a))
               D == Cardinality(Sent(a)')
    <3>4. C \in Nat /\ D = IF n \in Sent(a) THEN C ELSE C + 1
      BY <3>2
    <3>5. Cardinality(Sent(b)) = C /\ Cardinality(Sent(b)') = D
      BY <1>2, <2>3
    <3> HIDE DEF C, D
    <3>6. Len(log'[b]) = Len(log[b]) + 1 /\ Len(log[b]) \in Nat
      BY <1>2, <1>4, <2>3
    <3>7. CASE n \in Sent(a)
      <4>1. Due(b) = 1 /\ Due(b)' = 0 /\ D = C
        BY <3>1, <3>4, <3>7
      <4> QED BY <2>1, <3>3, <3>4, <3>5, <3>6, <4>1
    <3>8. CASE n \notin Sent(a)
      <4>1. Due(b) = 0 /\ Due(b)' = 0 /\ D = C + 1
        BY <3>1, <3>4, <3>8
      <4> QED BY <2>1, <3>3, <3>4, <3>5, <3>6, <4>1
    <3> QED BY <3>7, <3>8
  <2> QED BY <2>2, <2>3
<1> QED BY <1>5, <1>7, <1>8, <1>9, <1>11, <1>12 DEF ProducerInv

\* The checkpoint moves to the record that has just been sent.
LEMMA ProducerStoreInv ==
    ASSUME ProducerInv, ProducerStore
    PROVE  ProducerInv'
<1>0. PICK a \in Accounts, n \in Nat : a = NextRow.account /\ n = NextRow.sequence
  BY NextRowFollows DEF ProducerInv, ProducerTypeOK, ProducerStore
<1>1. /\ sent /\ sent' = FALSE /\ log' = log
      /\ n \in Sent(a)
  BY <1>0 DEF ProducerInv, SentRow, ProducerStore, ProducerMayStore
<1>2. /\ StoreTypeOK' /\ RowsFollow'
      /\ n = checkpoint[a] + 1 /\ checkpoint'[a] = n
      /\ \A b \in Accounts : b # a => checkpoint'[b] = checkpoint[b]
      /\ UNCHANGED <<streams, crashes>>
  BY <1>0, CheckpointKeepsStore DEF ProducerInv, ProducerTypeOK, ProducerStore
<1>3. checkpoint[a] \in Int
  BY DEF ProducerInv, ProducerTypeOK, StoreTypeOK
<1>4. ProducerTypeOK'
  BY <1>1, <1>2 DEF ProducerInv, ProducerTypeOK
<1>5. \A b : Sent(b)' = Sent(b)
  BY <1>1 DEF Sent
<1>6. CheckpointIsSent'
  <2> SUFFICES ASSUME NEW b \in Accounts, NEW m \in 0..checkpoint'[b]
               PROVE  m \in Sent(b)
    BY <1>5 DEF CheckpointIsSent
  <2>1. CASE b = a /\ m = n
    BY <1>1, <2>1
  <2>2. CASE ~(b = a /\ m = n)
    <3>1. m \in 0..checkpoint[b]
      BY <1>2, <1>3, <2>2
    <3> QED BY <3>1 DEF ProducerInv, CheckpointIsSent
  <2> QED BY <2>1, <2>2
<1>7. SentRow' /\ SentInOrder'
  BY <1>1 DEF ProducerInv, SentRow, SentInOrder
<1>8. NotFarAhead'
  <2> SUFFICES ASSUME NEW b \in Accounts
               PROVE  /\ IsFiniteSet(Sent(b))
                      /\ \A m \in Sent(b) : m <= checkpoint'[b] + 1
    BY <1>5 DEF NotFarAhead
  <2>1. /\ IsFiniteSet(Sent(b)) /\ \A m \in Sent(b) : m <= checkpoint[b] + 1
        /\ \A m \in Sent(b) : m \in Nat
    BY ProducerTypes DEF ProducerInv, NotFarAhead
  <2> QED BY <1>2, <1>3, <2>1
<1>9. RepeatsCounted'
  <2> SUFFICES ASSUME NEW b \in Accounts
               PROVE  Len(log[b]) + Due(b)' <= Cardinality(Sent(b)) + crashes
    BY <1>1, <1>2, <1>5 DEF RepeatsCounted
  <2>1. Len(log[b]) + Due(b) <= Cardinality(Sent(b)) + crashes
    BY DEF ProducerInv, RepeatsCounted
  <2>2. CASE b # a
    <3>1. Due(b)' = Due(b)
      BY <1>0, <1>1, <1>2, <1>5, <2>2 DEF Due
    <3> QED BY <2>1, <3>1
  <2>3. CASE b = a
    <3>1. n + 1 \notin Sent(a)
      BY <1>2, <1>3 DEF ProducerInv, NotFarAhead
    <3>2. Due(b)' = 0
      BY <1>2, <1>5, <2>3, <3>1 DEF Due
    <3>3. Due(b) = 0
      BY <1>0, <1>1, <2>3 DEF Due
    <3> QED BY <2>1, <3>2, <3>3
  <2> QED BY <2>2, <2>3
<1> QED BY <1>2, <1>4, <1>6, <1>7, <1>8, <1>9 DEF ProducerInv

\* A crash makes at most one record of an account due again.
LEMMA ProducerCrashInv ==
    ASSUME ProducerInv, ProducerCrash
    PROVE  ProducerInv'
<1>1. sent' = FALSE /\ log' = log
  BY DEF ProducerCrash
<1>2. crashes \in Nat /\ crashes' = crashes + 1 /\ crashes' \in 0..MaxCrashes
  BY CrashIsCounted DEF ProducerInv, ProducerTypeOK, ProducerCrash
<1>3. StoreTypeOK' /\ RowsFollow' /\ UNCHANGED <<streams, checkpoint>>
  BY <1>2, LoseRowsKeepsStore DEF ProducerInv, ProducerTypeOK, ProducerCrash, CrashOnce
<1>4. ProducerTypeOK' /\ SentRow'
  BY <1>1, <1>3 DEF ProducerInv, ProducerTypeOK, SentRow
<1>5. \A b : Sent(b)' = Sent(b)
  BY <1>1 DEF Sent
<1>6. CheckpointIsSent' /\ SentInOrder' /\ NotFarAhead'
  BY <1>1, <1>3, <1>5 DEF ProducerInv, CheckpointIsSent, SentInOrder, NotFarAhead
<1>7. RepeatsCounted'
  <2> SUFFICES ASSUME NEW b \in Accounts
               PROVE  Len(log[b]) + Due(b)' <= Cardinality(Sent(b)) + (crashes + 1)
    BY <1>1, <1>2, <1>5 DEF RepeatsCounted
  <2>1. Len(log[b]) + Due(b) <= Cardinality(Sent(b)) + crashes
    BY DEF ProducerInv, RepeatsCounted
  <2>2. Due(b) \in {0, 1} /\ Due(b)' \in {0, 1}
    BY DEF Due
  <2>3. Len(log[b]) \in Nat /\ Cardinality(Sent(b)) \in Nat
    BY FS_CardinalityType DEF ProducerInv, ProducerTypeOK, NotFarAhead
  <2> QED BY <1>2, <2>1, <2>2, <2>3
<1> QED BY <1>3, <1>4, <1>6, <1>7 DEF ProducerInv

LEMMA ProducerInitInv == ProducerInit => ProducerInv
<1> SUFFICES ASSUME ProducerInit PROVE ProducerInv
  OBVIOUS
<1>1. /\ StoreTypeOK /\ RowsFollow /\ rows = {} /\ crashes = 0
      /\ \A a \in Accounts : streams[a] = <<>> /\ checkpoint[a] = -1
  BY StoreInitOK DEF ProducerInit
<1>2. /\ log \in [Accounts -> Seq(Nat)] /\ sent = FALSE
      /\ \A a \in Accounts : log[a] = <<>> /\ Len(log[a]) = 0
  BY DEF ProducerInit
<1>3. ProducerTypeOK
  BY <1>1, <1>2 DEF ProducerTypeOK
<1>4. \A a \in Accounts : Sent(a) = {}
  <2>1. \A a \in Accounts : Len(log[a]) = 0
    BY <1>2
  <2>2. 1..0 = {}
    OBVIOUS
  <2> QED BY <2>1, <2>2 DEF Sent
<1>5. CheckpointIsSent /\ SentRow /\ SentInOrder
  BY <1>1, <1>2 DEF CheckpointIsSent, SentRow, SentInOrder
<1>6. \A a \in Accounts : Due(a) = 0
  BY <1>4 DEF Due
<1>7. IsFiniteSet({}) /\ Cardinality({}) = 0
  BY FS_EmptySet
<1>8. NotFarAhead
  BY <1>4, <1>7 DEF NotFarAhead
<1>9. RepeatsCounted
  <2> SUFFICES ASSUME NEW a \in Accounts
               PROVE  Len(log[a]) + Due(a) <= Cardinality(Sent(a)) + crashes
    BY DEF RepeatsCounted
  <2>1. Len(log[a]) = 0 /\ Due(a) = 0 /\ Cardinality(Sent(a)) = 0
    BY <1>2, <1>4, <1>6, <1>7
  <2> QED BY <1>1, <2>1
<1> QED BY <1>1, <1>3, <1>5, <1>8, <1>9 DEF ProducerInv

LEMMA ProducerStep ==
    ASSUME ProducerInv, [ProducerNext]_producerVars
    PROVE  ProducerInv'
<1>1. CASE UNCHANGED producerVars
  <2>1. UNCHANGED <<streams, checkpoint, rows, crashes, log, sent>>
    BY <1>1 DEF producerVars, storeVars
  <2>2. NextRow' = NextRow /\ \A b : Sent(b)' = Sent(b)
    BY <2>1 DEF NextRow, Before, Sent
  <2> QED BY <2>1, <2>2
          DEF ProducerInv, ProducerTypeOK, StoreTypeOK, RowsFollow, CheckpointIsSent,
              SentRow, SentInOrder, NotFarAhead, RepeatsCounted, Due
<1> QED BY <1>1, ProducerQueryInv, ProducerSendInv, ProducerStoreInv, ProducerCrashInv,
           ProducerWriteSideInv
        DEF ProducerNext, ProducerLoop

LEMMA ProducerInvariant == ProducerSpec => []ProducerInv
<1> QED BY ProducerInitInv, ProducerStep, PTL DEF ProducerSpec

(***************************************************************************)
(* No event of a stream, and so no reply, overtakes one before it          *)
(* (producer.rs:36-61, checkpoint.rs:44-59).                               *)
(***************************************************************************)
THEOREM EventsInOrder == ProducerSpec => []SentInOrder
<1>1. ProducerInv => SentInOrder
  BY DEF ProducerInv
<1> QED BY <1>1, ProducerInvariant, PTL

(***************************************************************************)
(* A restart skips nothing that has not been sent (producer.rs:48-56).     *)
(***************************************************************************)
THEOREM ProducerSkipsNothing == ProducerSpec => []CheckpointIsSent
<1>1. ProducerInv => CheckpointIsSent
  BY DEF ProducerInv
<1> QED BY <1>1, ProducerInvariant, PTL

(***************************************************************************)
(* Each crash repeats one record at most (producer.rs:56).                 *)
(***************************************************************************)
THEOREM RepeatsBounded == ProducerSpec => []OneRepeatPerCrash
<1>1. ASSUME ProducerInv, NEW a \in Accounts
      PROVE  Len(log[a]) <= Cardinality(Sent(a)) + crashes
  <2>1. Len(log[a]) + Due(a) <= Cardinality(Sent(a)) + crashes
    BY <1>1 DEF ProducerInv, RepeatsCounted
  <2>2. Len(log[a]) \in Nat /\ Due(a) \in {0, 1} /\ crashes \in Nat
    BY <1>1, StoreConstants DEF ProducerInv, ProducerTypeOK, StoreTypeOK, Due
  <2>3. Cardinality(Sent(a)) \in Nat
    BY <1>1, FS_CardinalityType DEF ProducerInv, NotFarAhead
  <2> QED BY <2>1, <2>2, <2>3
<1>2. ProducerInv => OneRepeatPerCrash
  BY <1>1 DEF OneRepeatPerCrash
<1> QED BY <1>2, ProducerInvariant, PTL

\* With nothing in hand and nothing to be read, the producer has sent all.
IdleMeansSent ==
    rows = {} /\ RowsAfterCheckpoint = {} =>
        \A a \in Accounts : \A n \in 0..(Len(streams[a]) - 1) : n \in Sent(a)

(***************************************************************************)
(* The producer sleeps only when every event of every stream, the new ones *)
(* among them, has been sent (producer.rs:129-140).                        *)
(***************************************************************************)
THEOREM ProducerSleepsWhenDone == ProducerSpec => []IdleMeansSent
<1>1. ProducerInv => IdleMeansSent
  BY NothingAfterCheckpoint
     DEF ProducerInv, ProducerTypeOK, CheckpointIsSent, IdleMeansSent
<1> QED BY <1>1, ProducerInvariant, PTL
-----------------------------------------------------------------------------
(* The projector. *)

\* What an event adds to the balance.
Delta(e) ==
    CASE e.kind = "AccountDeposited" -> e.amount
      [] e.kind = "AccountWithdrawn" -> -e.amount
      [] OTHER -> 0

\* The balances of a stream are the sums of its events; only the first opens.
AddsUp(s) ==
    \A i \in 1..Len(s) :
        /\ s[i].balance = (IF i = 1 THEN 0 ELSE s[i - 1].balance) + Delta(s[i])
        /\ s[i].kind = "AccountOpened" => i = 1

(***************************************************************************)
(* With checkpoint c of stream s, the row is one event ahead at most, and  *)
(* what it is behind are replies, which leave the balance as it is.  NoRow *)
(* is behind every event.                                                  *)
(***************************************************************************)
KeepsUp(row, s, c) ==
    /\ row.last <= c + 1
    /\ row.last < Len(s)
    /\ \A k \in (row.last + 1)..c :
          /\ s[k + 1].kind = "CommandReplyRequested"
          /\ row # NoRow => s[k + 1].balance = s[row.last + 1].balance

\* The row shows event e of number n, if its table shows events of this kind.
Shows(row, e, n) == e.kind # "CommandReplyRequested" => row.last >= n

DetailRows == {NoRow} \cup [amount : Int, last : Nat]

InfoRows ==
    {NoRow} \cup [deposited : Nat, deposits : Nat, withdrawn : Nat,
                  withdrawals : Nat, last : Nat]

\* What TablesMatchStream says of one row of each table.
DetailsMatch(row, s) == row # NoRow => row.amount = s[row.last + 1].balance

OfKind(s, n, k) == {i \in 1..(n + 1) : s[i].kind = k}

InfosMatch(row, s) ==
    row # NoRow =>
        /\ row.deposited - row.withdrawn = s[row.last + 1].balance
        /\ row.deposits = Cardinality(OfKind(s, row.last, "AccountDeposited"))
        /\ row.withdrawals = Cardinality(OfKind(s, row.last, "AccountWithdrawn"))

StreamsAddUp == \A a \in Accounts : AddsUp(streams[a])

DetailsSound ==
    \A a \in Accounts : /\ KeepsUp(details[a], streams[a], checkpoint[a])
                        /\ DetailsMatch(details[a], streams[a])

InfosSound ==
    \A a \in Accounts : /\ KeepsUp(infos[a], streams[a], checkpoint[a])
                        /\ InfosMatch(infos[a], streams[a])

\* After the first transaction, and after the second.
PhaseSound ==
    /\ phase # "details" =>
          /\ rows # {}
          /\ Shows(details[NextRow.account], EventAt(NextRow), NextRow.sequence)
    /\ phase = "checkpoint" =>
          Shows(infos[NextRow.account], EventAt(NextRow), NextRow.sequence)

ProjectorInv ==
    /\ ProjectorTypeOK
    /\ RowsFollow
    /\ StreamsAddUp
    /\ DetailsSound
    /\ InfosSound
    /\ PhaseSound

-----------------------------------------------------------------------------
(* Rows. *)

LEMMA DetailRowType ==
    ASSUME NEW row \in DetailRows
    PROVE  /\ row.last \in Int /\ -1 <= row.last
           /\ row # NoRow <=> row.last \in Nat
           /\ row # NoRow => row \in [amount : Int, last : Nat]
<1>1. NoRow.last = -1
  BY DEF NoRow
<1>2. CASE row = NoRow
  BY <1>1, <1>2
<1>3. CASE row \in [amount : Int, last : Nat]
  <2>1. row.last \in Nat
    BY <1>3
  <2> QED BY <1>1, <1>3, <2>1
<1> QED BY <1>2, <1>3 DEF DetailRows

LEMMA InfoRowType ==
    ASSUME NEW row \in InfoRows
    PROVE  /\ row.last \in Int /\ -1 <= row.last
           /\ row # NoRow <=> row.last \in Nat
           /\ row # NoRow => row \in [deposited : Nat, deposits : Nat,
                                withdrawn : Nat, withdrawals : Nat, last : Nat]
<1> DEFINE Full == [deposited : Nat, deposits : Nat, withdrawn : Nat,
                    withdrawals : Nat, last : Nat]
<1>1. NoRow.last = -1
  BY DEF NoRow
<1>2. CASE row = NoRow
  BY <1>1, <1>2
<1>3. CASE row \in Full
  <2>1. row.last \in Nat
    BY <1>3
  <2> QED BY <1>1, <1>3, <2>1
<1> QED BY <1>2, <1>3 DEF InfoRows

LEMMA EventType ==
    ASSUME NEW s \in Seq(Events), NEW i \in 1..Len(s)
    PROVE  /\ s[i] \in Events /\ s[i].amount \in Nat /\ s[i].balance \in Int
           /\ Delta(s[i]) \in Int
           /\ s[i].kind \in {"AccountOpened", "CommandReplyRequested",
                             "AccountDeposited", "AccountWithdrawn"}
<1>1. s[i] \in Events
  OBVIOUS
<1>2. /\ s[i].amount \in Nat /\ s[i].balance \in Int
      /\ s[i].kind \in {"AccountOpened", "CommandReplyRequested"} \cup MoneyKinds
  BY <1>1 DEF Events
<1> QED BY <1>1, <1>2 DEF Delta, MoneyKinds

\* A longer stream shows the same at a row that is there.
LEMMA GrowKeepsRow ==
    ASSUME NEW s \in Seq(Events), NEW t \in Seq(Events),
           Len(s) <= Len(t), \A i \in 1..Len(s) : t[i] = s[i],
           NEW c \in Int, c < Len(s),
           NEW row, row.last \in Int, -1 <= row.last,
           row # NoRow <=> row.last \in Nat, KeepsUp(row, s, c)
    PROVE  /\ KeepsUp(row, t, c)
           /\ DetailsMatch(row, s) => DetailsMatch(row, t)
           /\ InfosMatch(row, s) => InfosMatch(row, t)
<1> DEFINE l == row.last
<1>1. Len(s) \in Nat /\ Len(t) \in Nat /\ l \in Int /\ -1 <= l
  OBVIOUS
<1>2. /\ l <= c + 1 /\ l < Len(s)
      /\ \A k \in (l + 1)..c :
          /\ s[k + 1].kind = "CommandReplyRequested"
          /\ row # NoRow => s[k + 1].balance = s[l + 1].balance
  BY DEF KeepsUp
<1>3. \A k \in Int : 0 <= k /\ k < Len(s) => t[k + 1] = s[k + 1]
  BY <1>1
<1>4. row # NoRow => l \in Nat /\ t[l + 1] = s[l + 1]
  BY <1>1, <1>2, <1>3
<1>5. \A k \in (l + 1)..c : t[k + 1] = s[k + 1]
  BY <1>1, <1>2, <1>3
<1>6. \A i \in 1..(l + 1) : t[i] = s[i]
  BY <1>1, <1>2
<1>7. \A k : OfKind(t, l, k) = OfKind(s, l, k)
  BY <1>6 DEF OfKind
<1>8. l < Len(t)
  BY <1>1, <1>2
<1>9. KeepsUp(row, t, c)
  BY <1>2, <1>4, <1>5, <1>8 DEF KeepsUp
<1> QED BY <1>4, <1>7, <1>9 DEF DetailsMatch, InfosMatch

\* The balance a row shows is the one before the next event it is applied to.
LEMMA BalanceBefore ==
    ASSUME NEW s \in Seq(Events), AddsUp(s), NEW c \in Int, -1 <= c,
           c + 1 < Len(s),
           NEW row, row.last \in Nat, row # NoRow, row.last < c + 1,
           KeepsUp(row, s, c)
    PROVE  /\ s[c + 2].balance = s[row.last + 1].balance + Delta(s[c + 2])
           /\ c \in Nat
           /\ \A i \in (row.last + 2)..(c + 1) :
                 s[i].kind = "CommandReplyRequested"
<1> DEFINE l == row.last
<1>1. Len(s) \in Nat /\ l \in Nat /\ c \in Nat
  OBVIOUS
<1>2. \A k \in (l + 1)..c : /\ s[k + 1].kind = "CommandReplyRequested"
                            /\ s[k + 1].balance = s[l + 1].balance
  BY DEF KeepsUp
<1>3. s[c + 1].balance = s[l + 1].balance
  <2>1. CASE l = c
    BY <2>1
  <2>2. CASE l < c
    <3>1. c \in (l + 1)..c
      BY <1>1, <2>2
    <3> QED BY <1>2, <3>1
  <2> QED BY <1>1, <2>1, <2>2
<1>4. c + 2 \in 1..Len(s) /\ c + 2 # 1 /\ (c + 2) - 1 = c + 1
  BY <1>1
<1>5. s[c + 2].balance = s[c + 1].balance + Delta(s[c + 2])
  BY <1>4 DEF AddsUp
<1>6. \A i \in (l + 2)..(c + 1) : s[i].kind = "CommandReplyRequested"
  <2> SUFFICES ASSUME NEW i \in (l + 2)..(c + 1)
               PROVE  s[i].kind = "CommandReplyRequested"
    OBVIOUS
  <2>1. i - 1 \in (l + 1)..c /\ (i - 1) + 1 = i
    BY <1>1
  <2> QED BY <1>2, <2>1
<1> QED BY <1>1, <1>3, <1>5, <1>6

\* What a row that is up to the event n after the checkpoint needs.
LEMMA KeepsUpNext ==
    ASSUME NEW s \in Seq(Events), NEW c \in Int, -1 <= c, c + 1 < Len(s),
           NEW row, row.last = c + 1
    PROVE  KeepsUp(row, s, c)
<1>1. \A k \in (row.last + 1)..c : FALSE
  OBVIOUS
<1> QED BY <1>1 DEF KeepsUp

\* The first transaction, when it does not fail.
LEMMA DetailsStep ==
    ASSUME NEW s \in Seq(Events), AddsUp(s), NEW c \in Int, -1 <= c,
           c + 1 < Len(s),
           NEW row \in DetailRows, KeepsUp(row, s, c), DetailsMatch(row, s),
           ~Fails(row, s[c + 2]),
           NEW next, next = DetailsAfter(row, s[c + 2], c + 1)
    PROVE  /\ next \in DetailRows /\ KeepsUp(next, s, c) /\ DetailsMatch(next, s)
           /\ Shows(next, s[c + 2], c + 1)
<1> DEFINE e == s[c + 2]
<1>1. Len(s) \in Nat /\ c + 2 \in 1..Len(s) /\ c + 1 \in Nat
  OBVIOUS
<1>2. /\ e.amount \in Nat /\ e.balance \in Int
      /\ e.kind \in {"AccountOpened", "CommandReplyRequested",
                     "AccountDeposited", "AccountWithdrawn"}
  BY <1>1, EventType
<1>3. /\ row.last \in Int /\ -1 <= row.last
      /\ row # NoRow <=> row.last \in Nat
      /\ row # NoRow => row \in [amount : Int, last : Nat]
  BY DetailRowType
<1>4. /\ e.kind = "AccountOpened" => row = NoRow
      /\ e.kind \in MoneyKinds => row # NoRow
  BY DEF Fails
<1>5. row.last <= c + 1
  BY DEF KeepsUp
<1>6. CASE e.kind = "AccountOpened"
  <2>1. c + 2 = 1 /\ e.balance = 0
    <3>1. /\ e.balance = (IF c + 2 = 1 THEN 0 ELSE s[(c + 2) - 1].balance) + Delta(e)
          /\ c + 2 = 1
      BY <1>1, <1>6 DEF AddsUp
    <3>2. Delta(e) = 0
      BY <1>6 DEF Delta
    <3> QED BY <3>1, <3>2
  <2>2. next = [amount |-> 0, last |-> c + 1]
    BY <1>6 DEF DetailsAfter, NewDetails
  <2>3. next.last = c + 1 /\ next.amount = 0 /\ next \in DetailRows
    BY <1>1, <2>2 DEF DetailRows
  <2>4. KeepsUp(next, s, c)
    BY <2>3, KeepsUpNext
  <2>5. s[next.last + 1].balance = 0
    BY <2>1, <2>3
  <2> QED BY <1>1, <2>3, <2>4, <2>5 DEF DetailsMatch, Shows
<1>7. CASE e.kind \in MoneyKinds /\ row.last < c + 1
  <2>1. /\ row # NoRow /\ row.last \in Nat
        /\ row \in [amount : Int, last : Nat]
    BY <1>3, <1>4, <1>7
  <2>2. e.balance = s[row.last + 1].balance + Delta(e)
    BY <1>7, <2>1, BalanceBefore
  <2>3. row.amount = s[row.last + 1].balance
    BY <2>1 DEF DetailsMatch
  <2>4. /\ next = [row EXCEPT !.amount = row.amount + Delta(e), !.last = c + 1]
        /\ Delta(e) \in Int
    <3>1. ~(row.last >= c + 1)
      BY <1>3, <1>7
    <3>2. CASE e.kind = "AccountDeposited"
      <4>1. next = [row EXCEPT !.amount = row.amount + e.amount, !.last = c + 1]
        BY <3>1, <3>2 DEF DetailsAfter, WasAlreadyApplied
      <4>2. Delta(e) = e.amount
        BY <3>2 DEF Delta
      <4> QED BY <1>2, <4>1, <4>2
    <3>3. CASE e.kind = "AccountWithdrawn"
      <4>1. next = [row EXCEPT !.amount = row.amount - e.amount, !.last = c + 1]
        BY <3>1, <3>3 DEF DetailsAfter, WasAlreadyApplied
      <4>2. Delta(e) = -e.amount
        BY <3>3 DEF Delta
      <4>3. row.amount - e.amount = row.amount + Delta(e)
        <5>1. row.amount \in Int /\ e.amount \in Int
          BY <1>2, <2>1
        <5>2. \A x, y \in Int : x - y = x + (-y)
          OBVIOUS
        <5> QED BY <4>2, <5>1, <5>2
      <4>4. Delta(e) \in Int
        BY <1>2, <4>2
      <4> QED BY <4>1, <4>3, <4>4
    <3> QED BY <1>7, <3>2, <3>3 DEF MoneyKinds
  <2>5. /\ next \in DetailRows /\ next.last = c + 1
        /\ next.amount = row.amount + Delta(e)
    <3>1. PICK d \in Int : d = Delta(e)
      BY <2>4
    <3>2. next = [row EXCEPT !.amount = row.amount + d, !.last = c + 1]
      BY <2>4, <3>1
    <3>3. next.last = c + 1 /\ next.amount = row.amount + d
      BY <2>1, <3>2
    <3>4. next = [amount |-> row.amount + d, last |-> c + 1]
      BY <2>1, <3>2
    <3>5. row.amount \in Int /\ row.amount + d \in Int
      BY <2>1
    <3>6. next \in [amount : Int, last : Nat]
      BY <1>1, <3>4, <3>5
    <3> QED BY <3>1, <3>3, <3>6 DEF DetailRows
  <2>6. KeepsUp(next, s, c)
    BY <2>5, KeepsUpNext
  <2>7. s[next.last + 1].balance = next.amount
    <3>1. next.last + 1 = c + 2
      BY <2>5
    <3> QED BY <2>2, <2>3, <2>5, <3>1
  <2> QED BY <1>1, <2>5, <2>6, <2>7 DEF DetailsMatch, Shows
<1>8. CASE e.kind \in MoneyKinds /\ ~(row.last < c + 1)
  <2>1. row.last >= c + 1
    BY <1>3, <1>8
  <2>2. next = row
    BY <1>8, <2>1 DEF DetailsAfter, WasAlreadyApplied, MoneyKinds
  <2> QED BY <2>1, <2>2 DEF Shows
<1>9. CASE e.kind = "CommandReplyRequested"
  <2>1. next = row
    BY <1>9 DEF DetailsAfter
  <2> QED BY <1>9, <2>1 DEF Shows
<1> QED BY <1>2, <1>6, <1>7, <1>8, <1>9 DEF MoneyKinds

\* The events of a kind up to the next event.
LEMMA OfKindNext ==
    ASSUME NEW s \in Seq(Events), NEW c \in Nat, c + 1 < Len(s),
           NEW l \in Nat, l < c + 1,
           \A i \in (l + 2)..(c + 1) : s[i].kind = "CommandReplyRequested",
           NEW k \in MoneyKinds
    PROVE  Cardinality(OfKind(s, c + 1, k))
               = Cardinality(OfKind(s, l, k)) + (IF s[c + 2].kind = k THEN 1 ELSE 0)
<1> DEFINE Old == OfKind(s, l, k)
           New == OfKind(s, c + 1, k)
<1>1. k # "CommandReplyRequested"
  BY DEF MoneyKinds
<1>2. \A i \in 1..(c + 2) : s[i].kind = k <=> i \in Old \/ (i = c + 2 /\ s[c + 2].kind = k)
  <2> SUFFICES ASSUME NEW i \in 1..(c + 2)
               PROVE  s[i].kind = k <=> i \in Old \/ (i = c + 2 /\ s[c + 2].kind = k)
    OBVIOUS
  <2>1. i \in 1..(l + 1) \/ i \in (l + 2)..(c + 1) \/ i = c + 2
    OBVIOUS
  <2>2. \A j \in Old : j \in 1..(l + 1) /\ s[j].kind = k
    BY DEF OfKind
  <2>3. CASE i \in 1..(l + 1)
    <3>1. i # c + 2
      BY <2>3
    <3>2. i \in Old <=> s[i].kind = k
      BY <2>3 DEF OfKind
    <3> QED BY <3>1, <3>2
  <2>4. CASE i \in (l + 2)..(c + 1)
    <3>1. i \notin 1..(l + 1) /\ i # c + 2
      BY <2>4
    <3> QED BY <1>1, <2>2, <2>4, <3>1
  <2>5. CASE i = c + 2
    <3>1. i \notin 1..(l + 1)
      BY <2>5
    <3> QED BY <2>2, <2>5, <3>1
  <2> QED BY <2>1, <2>3, <2>4, <2>5
<1>3. (c + 1) + 1 = c + 2 /\ c + 2 \in 1..(c + 2) /\ c + 2 \notin 1..(l + 1)
  OBVIOUS
<1>4. 1..(l + 1) \subseteq 1..(c + 2)
  OBVIOUS
<1>5. Old \subseteq 1..(l + 1)
  BY DEF OfKind
<1>6. New = {i \in 1..(c + 2) : s[i].kind = k}
  BY <1>3 DEF OfKind
<1>7. New = IF s[c + 2].kind = k THEN Old \cup {c + 2} ELSE Old
  <2> HIDE DEF New, Old
  <2>1. \A i : i \in New <=> i \in 1..(c + 2) /\ s[i].kind = k
    BY <1>6
  <2>2. \A i \in Old : i \in 1..(c + 2)
    BY <1>4, <1>5
  <2>3. CASE s[c + 2].kind = k
    <3>1. \A i : i \in New <=> i \in Old \/ i = c + 2
      BY <1>2, <1>3, <2>1, <2>2, <2>3
    <3> QED BY <2>3, <3>1
  <2>4. CASE s[c + 2].kind # k
    <3>1. \A i : i \in New <=> i \in Old
      BY <1>2, <2>1, <2>2, <2>4
    <3> QED BY <2>4, <3>1
  <2> QED BY <2>3, <2>4
<1>8. IsFiniteSet(Old) /\ c + 2 \notin Old
  <2>1. IsFiniteSet(1..(l + 1))
    BY FS_Interval
  <2> QED BY <1>3, <1>5, <2>1, FS_Subset
<1>9. /\ Cardinality(Old \cup {c + 2}) = Cardinality(Old) + 1
      /\ Cardinality(Old) \in Nat
  BY <1>8, FS_AddElement, FS_CardinalityType
<1> HIDE DEF New, Old
<1>10. Cardinality(New) = Cardinality(Old) + (IF s[c + 2].kind = k THEN 1 ELSE 0)
  BY <1>7, <1>9
<1> QED BY <1>10 DEF New, Old

\* The second transaction, when it does not fail.
LEMMA InfosStep ==
    ASSUME NEW s \in Seq(Events), AddsUp(s), NEW c \in Int, -1 <= c,
           c + 1 < Len(s),
           NEW row \in InfoRows, KeepsUp(row, s, c), InfosMatch(row, s),
           ~Fails(row, s[c + 2]),
           NEW next, next = InfosAfter(row, s[c + 2], c + 1)
    PROVE  /\ next \in InfoRows /\ KeepsUp(next, s, c) /\ InfosMatch(next, s)
           /\ Shows(next, s[c + 2], c + 1)
<1> DEFINE e == s[c + 2]
           Full == [deposited : Nat, deposits : Nat, withdrawn : Nat,
                    withdrawals : Nat, last : Nat]
<1>1. Len(s) \in Nat /\ c + 2 \in 1..Len(s) /\ c + 1 \in Nat
  OBVIOUS
<1>2. /\ e.amount \in Nat /\ e.balance \in Int
      /\ e.kind \in {"AccountOpened", "CommandReplyRequested",
                     "AccountDeposited", "AccountWithdrawn"}
  BY <1>1, EventType
<1>3. /\ row.last \in Int /\ -1 <= row.last
      /\ row # NoRow <=> row.last \in Nat
      /\ row # NoRow => row \in Full
  BY InfoRowType
<1>4. /\ e.kind = "AccountOpened" => row = NoRow
      /\ e.kind \in MoneyKinds => row # NoRow
  BY DEF Fails
<1>5. row.last <= c + 1
  BY DEF KeepsUp
<1>6. CASE e.kind = "AccountOpened"
  <2>1. c + 2 = 1 /\ e.balance = 0
    <3>1. /\ e.balance = (IF c + 2 = 1 THEN 0 ELSE s[(c + 2) - 1].balance) + Delta(e)
          /\ c + 2 = 1
      BY <1>1, <1>6 DEF AddsUp
    <3>2. Delta(e) = 0
      BY <1>6 DEF Delta
    <3> QED BY <3>1, <3>2
  <2>2. next = [deposited |-> 0, deposits |-> 0, withdrawn |-> 0,
                withdrawals |-> 0, last |-> c + 1]
    BY <1>6 DEF InfosAfter, NewInfos
  <2>3. /\ next.last = c + 1 /\ next.deposited = 0 /\ next.deposits = 0
        /\ next.withdrawn = 0 /\ next.withdrawals = 0
        /\ next \in InfoRows
    BY <1>1, <2>2 DEF InfoRows
  <2>4. KeepsUp(next, s, c)
    BY <2>3, KeepsUpNext
  <2>5. s[next.last + 1].balance = 0
    BY <2>1, <2>3
  <2>6. \A k \in MoneyKinds : OfKind(s, next.last, k) = {}
    <3>1. next.last + 1 = 1 /\ 1..1 = {1}
      BY <2>1, <2>3
    <3>2. s[1].kind = "AccountOpened"
      BY <1>6, <2>1
    <3> QED BY <3>1, <3>2 DEF OfKind, MoneyKinds
  <2>7. /\ Cardinality(OfKind(s, next.last, "AccountDeposited")) = 0
        /\ Cardinality(OfKind(s, next.last, "AccountWithdrawn")) = 0
    BY <2>6, FS_EmptySet DEF MoneyKinds
  <2>8. InfosMatch(next, s)
    BY <2>3, <2>5, <2>7 DEF InfosMatch
  <2> QED BY <1>1, <2>3, <2>4, <2>8 DEF Shows
<1>7. CASE e.kind \in MoneyKinds /\ row.last < c + 1
  <2>1. row # NoRow /\ row.last \in Nat /\ row \in Full
    BY <1>3, <1>4, <1>7
  <2>2. /\ e.balance = s[row.last + 1].balance + Delta(e)
        /\ c \in Nat
        /\ \A i \in (row.last + 2)..(c + 1) : s[i].kind = "CommandReplyRequested"
    BY <1>7, <2>1, BalanceBefore
  <2>3. \A k \in MoneyKinds :
            Cardinality(OfKind(s, c + 1, k)) =
                Cardinality(OfKind(s, row.last, k)) + (IF e.kind = k THEN 1 ELSE 0)
    BY <1>7, <2>1, <2>2, OfKindNext
  <2>4. /\ row.deposited - row.withdrawn = s[row.last + 1].balance
        /\ row.deposits = Cardinality(OfKind(s, row.last, "AccountDeposited"))
        /\ row.withdrawals = Cardinality(OfKind(s, row.last, "AccountWithdrawn"))
    BY <2>1 DEF InfosMatch
  <2>5. ~(row.last >= c + 1)
    BY <1>3, <1>7
  <2>6. /\ row.deposited \in Nat /\ row.deposits \in Nat
        /\ row.withdrawn \in Nat /\ row.withdrawals \in Nat
    BY <2>1
  <2>7. CASE e.kind = "AccountDeposited"
    <3>1. next = [row EXCEPT !.deposited = row.deposited + e.amount,
                             !.deposits = row.deposits + 1, !.last = c + 1]
      BY <2>5, <2>7 DEF InfosAfter, WasAlreadyApplied
    <3>2. next = [deposited |-> row.deposited + e.amount,
                  deposits |-> row.deposits + 1, withdrawn |-> row.withdrawn,
                  withdrawals |-> row.withdrawals, last |-> c + 1]
      BY <2>1, <3>1
    <3>3. /\ row.deposited + e.amount \in Nat /\ row.deposits + 1 \in Nat
          /\ Delta(e) = e.amount
      <4>1. row.deposited + e.amount \in Nat /\ row.deposits + 1 \in Nat
        BY <1>2, <2>6
      <4>2. Delta(e) = e.amount
        BY <2>7 DEF Delta
      <4> QED BY <4>1, <4>2
    <3>4. /\ next \in InfoRows /\ next.last = c + 1
          /\ next.deposited = row.deposited + e.amount
          /\ next.deposits = row.deposits + 1
          /\ next.withdrawn = row.withdrawn
          /\ next.withdrawals = row.withdrawals
      BY <1>1, <2>6, <3>2, <3>3 DEF InfoRows
    <3>5. next.deposited - next.withdrawn = s[c + 2].balance
      <4>1. next.deposited - next.withdrawn = (row.deposited - row.withdrawn) + e.amount
        BY <1>2, <2>6, <3>4
      <4> QED BY <2>2, <2>4, <3>3, <4>1
    <3>6. /\ Cardinality(OfKind(s, c + 1, "AccountDeposited")) = row.deposits + 1
          /\ Cardinality(OfKind(s, c + 1, "AccountWithdrawn")) = row.withdrawals + 0
      BY <2>3, <2>4, <2>7 DEF MoneyKinds
    <3>7. next.last + 1 = c + 2 /\ row.withdrawals + 0 = row.withdrawals
      BY <2>6, <3>4
    <3>8. InfosMatch(next, s)
      BY <3>4, <3>5, <3>6, <3>7 DEF InfosMatch
    <3>9. KeepsUp(next, s, c)
      BY <3>4, KeepsUpNext
    <3> QED BY <1>1, <3>4, <3>8, <3>9 DEF Shows
  <2>8. CASE e.kind = "AccountWithdrawn"
    <3>1. next = [row EXCEPT !.withdrawn = row.withdrawn + e.amount,
                             !.withdrawals = row.withdrawals + 1, !.last = c + 1]
      BY <2>5, <2>8 DEF InfosAfter, WasAlreadyApplied
    <3>2. next = [deposited |-> row.deposited, deposits |-> row.deposits,
                  withdrawn |-> row.withdrawn + e.amount,
                  withdrawals |-> row.withdrawals + 1, last |-> c + 1]
      BY <2>1, <3>1
    <3>3. /\ row.withdrawn + e.amount \in Nat /\ row.withdrawals + 1 \in Nat
          /\ Delta(e) = -e.amount
      <4>1. row.withdrawn + e.amount \in Nat /\ row.withdrawals + 1 \in Nat
        BY <1>2, <2>6
      <4>2. Delta(e) = -e.amount
        BY <2>8 DEF Delta
      <4> QED BY <4>1, <4>2
    <3>4. /\ next \in InfoRows /\ next.last = c + 1
          /\ next.withdrawn = row.withdrawn + e.amount
          /\ next.withdrawals = row.withdrawals + 1
          /\ next.deposited = row.deposited
          /\ next.deposits = row.deposits
      BY <1>1, <2>6, <3>2, <3>3 DEF InfoRows
    <3>5. next.deposited - next.withdrawn = s[c + 2].balance
      <4>1. next.deposited - next.withdrawn
                = (row.deposited - row.withdrawn) + (-e.amount)
        BY <1>2, <2>6, <3>4
      <4> QED BY <2>2, <2>4, <3>3, <4>1
    <3>6. /\ Cardinality(OfKind(s, c + 1, "AccountWithdrawn")) = row.withdrawals + 1
          /\ Cardinality(OfKind(s, c + 1, "AccountDeposited")) = row.deposits + 0
      BY <2>3, <2>4, <2>8 DEF MoneyKinds
    <3>7. next.last + 1 = c + 2 /\ row.deposits + 0 = row.deposits
      BY <2>6, <3>4
    <3>8. InfosMatch(next, s)
      BY <3>4, <3>5, <3>6, <3>7 DEF InfosMatch
    <3>9. KeepsUp(next, s, c)
      BY <3>4, KeepsUpNext
    <3> QED BY <1>1, <3>4, <3>8, <3>9 DEF Shows
  <2> QED BY <1>7, <2>7, <2>8 DEF MoneyKinds
<1>8. CASE e.kind \in MoneyKinds /\ ~(row.last < c + 1)
  <2>1. row.last >= c + 1
    BY <1>3, <1>8
  <2>2. next = row
    BY <1>8, <2>1 DEF InfosAfter, WasAlreadyApplied, MoneyKinds
  <2> QED BY <2>1, <2>2 DEF Shows
<1>9. CASE e.kind = "CommandReplyRequested"
  <2>1. next = row
    BY <1>9 DEF InfosAfter
  <2> QED BY <1>9, <2>1 DEF Shows
<1> QED BY <1>2, <1>6, <1>7, <1>8, <1>9 DEF MoneyKinds

\* The third: the checkpoint may follow a row that shows the event.
LEMMA CheckpointStep ==
    ASSUME NEW s \in Seq(Events), AddsUp(s), NEW c \in Int, -1 <= c,
           c + 1 < Len(s),
           NEW row, row.last \in Int, -1 <= row.last,
           row # NoRow <=> row.last \in Nat, KeepsUp(row, s, c),
           Shows(row, s[c + 2], c + 1)
    PROVE  KeepsUp(row, s, c + 1)
<1> DEFINE l == row.last
<1>1. /\ l \in Int /\ -1 <= l /\ l <= c + 1 /\ l < Len(s)
      /\ Len(s) \in Nat
  BY DEF KeepsUp
<1>2. CASE l = c + 1
  <2>1. \A k \in (l + 1)..(c + 1) : FALSE
    BY <1>2
  <2>2. l <= (c + 1) + 1
    BY <1>2
  <2> QED BY <1>1, <2>1, <2>2 DEF KeepsUp
<1>3. CASE l < c + 1
  <2>1. s[c + 2].kind = "CommandReplyRequested"
    BY <1>1, <1>3 DEF Shows
  <2>2. row # NoRow => s[c + 2].balance = s[l + 1].balance
    <3> SUFFICES ASSUME row # NoRow PROVE s[c + 2].balance = s[l + 1].balance
      OBVIOUS
    <3>1. s[c + 2].balance = s[l + 1].balance + Delta(s[c + 2])
      BY <1>3, BalanceBefore
    <3>2. Delta(s[c + 2]) = 0
      BY <2>1 DEF Delta
    <3>3. l \in Nat /\ l + 1 \in 1..Len(s)
      BY <1>1
    <3>4. s[l + 1].balance \in Int
      BY <3>3, EventType
    <3> QED BY <3>1, <3>2, <3>4
  <2>3. ASSUME NEW k \in (l + 1)..(c + 1)
        PROVE  /\ s[k + 1].kind = "CommandReplyRequested"
               /\ row # NoRow => s[k + 1].balance = s[l + 1].balance
    <3>1. CASE k = c + 1
      <4>1. k + 1 = c + 2
        BY <3>1
      <4> QED BY <2>1, <2>2, <4>1
    <3>2. CASE k # c + 1
      <4>1. k \in (l + 1)..c
        BY <1>1, <3>2
      <4> QED BY <4>1 DEF KeepsUp
    <3> QED BY <3>1, <3>2
  <2>4. l <= (c + 1) + 1
    BY <1>1
  <2> QED BY <1>1, <2>3, <2>4 DEF KeepsUp
<1> QED BY <1>1, <1>2, <1>3

-----------------------------------------------------------------------------
(* The write side keeps the streams sound. *)

\* An append opens an empty stream only, and its balances go on from the last.
LEMMA AppendsAddUp ==
    ASSUME StoreTypeOK, NEW a \in Accounts, NEW es \in Appends(a)
    PROVE  /\ es \in Seq(Events) /\ Len(es) \in {1, 2}
           /\ es[1].balance = BalanceOf(a) + Delta(es[1])
           /\ es[1].kind = "AccountOpened" => streams[a] = <<>>
           /\ Len(es) = 2 => /\ es[2].balance = es[1].balance + Delta(es[2])
                             /\ es[2].kind # "AccountOpened"
<1> DEFINE B == BalanceOf(a)
<1>1. es \in Seq(Events)
  BY AppendsType
<1>2. streams[a] \in Seq(Events)
  BY DEF StoreTypeOK
<1>3. B \in Int
  <2>1. CASE streams[a] = <<>>
    BY <2>1 DEF BalanceOf
  <2>2. CASE streams[a] # <<>>
    <3>1. streams[a][Len(streams[a])] \in Events
      BY <1>2, <2>2
    <3> QED BY <2>2, <3>1 DEF BalanceOf, Events
  <2> QED BY <2>1, <2>2
<1>4. \A e \in MoneyEvents(a) :
          e.balance = B + Delta(e) /\ e.balance \in Int /\ e.kind # "AccountOpened"
  <2> SUFFICES ASSUME NEW e \in MoneyEvents(a)
               PROVE  /\ e.balance = B + Delta(e) /\ e.balance \in Int
                      /\ e.kind # "AccountOpened"
    OBVIOUS
  <2>1. CASE \E m \in Amounts : e = Event("AccountDeposited", m, B + m)
    <3>1. PICK m \in Amounts : e = Event("AccountDeposited", m, B + m)
      BY <2>1
    <3>2. m \in Nat /\ B + m \in Int
      BY <1>3, StoreConstants
    <3>3. e.kind = "AccountDeposited" /\ e.amount = m /\ e.balance = B + m
      BY <3>1 DEF Event
    <3>4. Delta(e) = m
      BY <3>3 DEF Delta
    <3> QED BY <3>2, <3>3, <3>4
  <2>2. CASE \E m \in Amounts : e = Event("AccountWithdrawn", m, B - m)
    <3>1. PICK m \in Amounts : e = Event("AccountWithdrawn", m, B - m)
      BY <2>2
    <3>2. m \in Nat /\ B - m \in Int /\ B - m = B + (-m)
      BY <1>3, StoreConstants
    <3>3. e.kind = "AccountWithdrawn" /\ e.amount = m /\ e.balance = B - m
      BY <3>1 DEF Event
    <3>4. Delta(e) = -m
      BY <3>3 DEF Delta
    <3> QED BY <3>2, <3>3, <3>4
  <2> QED BY <2>1, <2>2 DEF MoneyEvents
<1>5. \A b \in Int : LET r == ReplyRequested(b) IN
          r.balance = b /\ Delta(r) = 0 /\ r.kind # "AccountOpened"
  BY DEF ReplyRequested, Event, Delta
<1> HIDE DEF B
<1>6. CASE streams[a] = <<>> /\ es = <<Event("AccountOpened", 0, 0)>>
  <2>1. Len(es) = 1 /\ es[1] = Event("AccountOpened", 0, 0)
    BY <1>6
  <2>2. es[1].balance = 0 /\ Delta(es[1]) = 0
    BY <2>1 DEF Event, Delta
  <2>3. B = 0
    BY <1>6 DEF B, BalanceOf
  <2> QED BY <1>1, <1>6, <2>1, <2>2, <2>3 DEF B
<1>7. CASE \E e \in MoneyEvents(a) : es = <<e>>
  <2>1. PICK e \in MoneyEvents(a) : es = <<e>>
    BY <1>7
  <2>2. Len(es) = 1 /\ es[1] = e
    BY <2>1
  <2> QED BY <1>1, <1>4, <2>2 DEF B
<1>8. CASE \E e \in MoneyEvents(a) : es = <<e, ReplyRequested(e.balance)>>
  <2>1. PICK e \in MoneyEvents(a) : es = <<e, ReplyRequested(e.balance)>>
    BY <1>8
  <2>2. Len(es) = 2 /\ es[1] = e /\ es[2] = ReplyRequested(e.balance)
    BY <2>1
  <2>3. /\ es[1].balance = B + Delta(es[1]) /\ e.balance \in Int
        /\ es[1].kind # "AccountOpened"
    BY <1>4, <2>2
  <2>4. /\ es[2].balance = e.balance /\ Delta(es[2]) = 0
        /\ es[2].kind # "AccountOpened"
    BY <1>5, <2>2, <2>3
  <2>5. es[2].balance = es[1].balance + Delta(es[2])
    BY <2>2, <2>3, <2>4
  <2> QED BY <1>1, <2>2, <2>3, <2>4, <2>5 DEF B
<1>9. CASE es = <<ReplyRequested(B)>>
  <2>1. Len(es) = 1 /\ es[1] = ReplyRequested(B)
    BY <1>9
  <2>2. es[1].balance = B /\ Delta(es[1]) = 0 /\ es[1].kind # "AccountOpened"
    BY <1>3, <1>5, <2>1
  <2> QED BY <1>1, <1>3, <2>1, <2>2 DEF B
<1> QED BY <1>6, <1>7, <1>8, <1>9 DEF Appends, B

LEMMA AppendKeepsAddsUp ==
    ASSUME StoreTypeOK, StreamsAddUp, NEW a \in Accounts, AppendEvents(a)
    PROVE  StreamsAddUp'
<1>1. PICK es \in Appends(a) : streams' = [streams EXCEPT ![a] = streams[a] \o es]
  BY DEF AppendEvents
<1>2. PICK s \in Seq(Events) : s = streams[a] /\ streams \in [Accounts -> Seq(Events)]
  BY DEF StoreTypeOK
<1>3. /\ es \in Seq(Events) /\ Len(es) \in {1, 2}
      /\ es[1].balance = BalanceOf(a) + Delta(es[1])
      /\ es[1].kind = "AccountOpened" => s = <<>>
      /\ Len(es) = 2 => /\ es[2].balance = es[1].balance + Delta(es[2])
                        /\ es[2].kind # "AccountOpened"
  BY <1>2, AppendsAddUp
<1>4. PICK t \in Seq(Events) : t = s \o es
  <2>1. es \in Seq(Events)
    BY <1>3
  <2>2. s \o es \in Seq(Events)
    BY <2>1
  <2> QED BY <2>2
<1>5. /\ streams'[a] = t
      /\ \A b \in Accounts : b # a => streams'[b] = streams[b]
  BY <1>1, <1>2, <1>4
<1>6. /\ Len(s) \in Nat /\ Len(t) = Len(s) + Len(es)
      /\ \A i \in 1..Len(s) : t[i] = s[i]
      /\ \A i \in 1..Len(es) : t[Len(s) + i] = es[i]
  BY <1>3, <1>4
<1>7. AddsUp(s)
  BY <1>2 DEF StreamsAddUp
<1>8. BalanceOf(a) = IF s = <<>> THEN 0 ELSE s[Len(s)].balance
  BY <1>2 DEF BalanceOf
<1>9. AddsUp(t)
  <2> SUFFICES ASSUME NEW i \in 1..Len(t)
               PROVE  /\ t[i].balance = (IF i = 1 THEN 0 ELSE t[i - 1].balance)
                                            + Delta(t[i])
                      /\ t[i].kind = "AccountOpened" => i = 1
    BY DEF AddsUp
  <2>1. CASE i \in 1..Len(s)
    <3>1. t[i] = s[i] /\ (i # 1 => t[i - 1] = s[i - 1])
      BY <1>6, <2>1
    <3> QED BY <1>7, <2>1, <3>1 DEF AddsUp
  <2>2. CASE i = Len(s) + 1
    <3>1. t[i] = es[1]
      BY <1>3, <1>6, <2>2
    <3>2. i = 1 <=> s = <<>>
      BY <1>6, <2>2
    <3>3. i # 1 => t[i - 1] = s[Len(s)]
      <4> SUFFICES ASSUME i # 1 PROVE t[i - 1] = s[Len(s)]
        OBVIOUS
      <4>1. i - 1 = Len(s) /\ Len(s) \in 1..Len(s)
        BY <1>6, <2>2
      <4> QED BY <1>6, <4>1
    <3>4. BalanceOf(a) = IF i = 1 THEN 0 ELSE t[i - 1].balance
      BY <1>8, <3>2, <3>3
    <3> QED BY <1>3, <3>1, <3>2, <3>4
  <2>3. CASE i = Len(s) + 2
    <3>1. Len(es) = 2
      BY <1>3, <1>6, <2>3
    <3>2. t[i] = es[2]
      BY <1>6, <2>3, <3>1
    <3>3. t[i - 1] = es[1]
      <4>1. i - 1 = Len(s) + 1
        BY <1>6, <2>3
      <4> QED BY <1>6, <3>1, <4>1
    <3>4. i # 1
      BY <1>6, <2>3
    <3> QED BY <1>3, <3>1, <3>2, <3>3, <3>4
  <2>4. i \in 1..Len(s) \/ i = Len(s) + 1 \/ i = Len(s) + 2
    <3>1. Len(es) = 1 \/ Len(es) = 2
      BY <1>3
    <3>2. Len(s) \in Nat /\ Len(t) = Len(s) + Len(es) /\ i \in 1..Len(t)
      BY <1>6
    <3>3. \A l \in Nat : \A j \in 1..(l + 2) : j \in 1..l \/ j = l + 1 \/ j = l + 2
      OBVIOUS
    <3>4. Len(t) = Len(s) + 1 \/ Len(t) = Len(s) + 2
      BY <3>1, <3>2
    <3>5. i \in 1..(Len(s) + 2)
      BY <3>2, <3>4
    <3> QED BY <3>2, <3>3, <3>5
  <2> QED BY <2>1, <2>2, <2>3, <2>4
<1> QED BY <1>5, <1>9 DEF StreamsAddUp

-----------------------------------------------------------------------------
(* The steps of the projector. *)

LEMMA ProjectorTypes ==
    ASSUME ProjectorTypeOK, NEW a \in Accounts
    PROVE  /\ StoreTypeOK
           /\ details[a] \in DetailRows /\ infos[a] \in InfoRows
           /\ details[a].last \in Int /\ -1 <= details[a].last
           /\ details[a] # NoRow <=> details[a].last \in Nat
           /\ infos[a].last \in Int /\ -1 <= infos[a].last
           /\ infos[a] # NoRow <=> infos[a].last \in Nat
<1>1. /\ StoreTypeOK
      /\ details[a] \in DetailRows /\ infos[a] \in InfoRows
  BY DEF ProjectorTypeOK, DetailRows, InfoRows
<1> QED BY <1>1, DetailRowType, InfoRowType

\* The next row, and what is known of its account.
LEMMA NextEvent ==
    ASSUME ProjectorInv, rows # {}
    PROVE  \E a \in Accounts, n \in Nat, s \in Seq(Events), c \in Int :
              /\ a = NextRow.account /\ n = NextRow.sequence
              /\ s = streams[a] /\ c = checkpoint[a]
              /\ n = c + 1 /\ -1 <= c /\ c + 1 < Len(s)
              /\ EventAt(NextRow) = s[c + 2]
              /\ AddsUp(s)
<1>1. PICK a \in Accounts, n \in Nat : a = NextRow.account /\ n = NextRow.sequence
  BY NextRowFollows DEF ProjectorInv, ProjectorTypeOK
<1>2. n = checkpoint[a] + 1 /\ n < Len(streams[a])
  BY <1>1, NextRowFollows DEF ProjectorInv, ProjectorTypeOK
<1>3. PICK s \in Seq(Events), c \in Int :
          s = streams[a] /\ c = checkpoint[a] /\ -1 <= c
  BY StoreTypes DEF ProjectorInv, ProjectorTypeOK
<1>4. n + 1 = c + 2
  BY <1>2, <1>3
<1>5. EventAt(NextRow) = s[c + 2]
  BY <1>1, <1>3, <1>4 DEF EventAt
<1>6. AddsUp(s)
  BY <1>3 DEF ProjectorInv, StreamsAddUp
<1> QED BY <1>1, <1>2, <1>3, <1>5, <1>6

LEMMA ProjectorWriteSideInv ==
    ASSUME ProjectorInv, NEW a \in Accounts, ProjectorWriteSide(a)
    PROVE  ProjectorInv'
<1>1. /\ StoreTypeOK' /\ RowsFollow' /\ NextRow' = NextRow /\ StreamsGrow
      /\ UNCHANGED <<checkpoint, rows, crashes>>
  BY AppendKeepsStore DEF ProjectorInv, ProjectorTypeOK, ProjectorWriteSide
<1>2. UNCHANGED <<details, infos, phase, panicked>>
  BY DEF ProjectorWriteSide
<1>3. StreamsAddUp'
  BY AppendKeepsAddsUp DEF ProjectorInv, ProjectorTypeOK, ProjectorWriteSide
<1>4. ProjectorTypeOK'
  BY <1>1, <1>2 DEF ProjectorInv, ProjectorTypeOK
<1>5. DetailsSound' /\ InfosSound'
  <2> SUFFICES ASSUME NEW b \in Accounts
               PROVE  /\ KeepsUp(details[b], streams'[b], checkpoint[b])
                      /\ DetailsMatch(details[b], streams'[b])
                      /\ KeepsUp(infos[b], streams'[b], checkpoint[b])
                      /\ InfosMatch(infos[b], streams'[b])
    BY <1>1, <1>2 DEF DetailsSound, InfosSound
  <2>1. PICK s \in Seq(Events), t \in Seq(Events), c \in Int :
            s = streams[b] /\ t = streams'[b] /\ c = checkpoint[b] /\ c < Len(s)
    <3>1. streams[b] \in Seq(Events) /\ streams'[b] \in Seq(Events)
      BY <1>1 DEF ProjectorInv, ProjectorTypeOK, StoreTypeOK
    <3>2. checkpoint[b] \in Int /\ checkpoint[b] < Len(streams[b])
      BY StoreTypes DEF ProjectorInv, ProjectorTypeOK
    <3> QED BY <3>1, <3>2
  <2>2. Len(s) <= Len(t) /\ \A i \in 1..Len(s) : t[i] = s[i]
    BY <1>1, <2>1 DEF StreamsGrow
  <2>3. PICK d, f : d = details[b] /\ f = infos[b]
    OBVIOUS
  <2>4. /\ d.last \in Int /\ -1 <= d.last /\ (d # NoRow <=> d.last \in Nat)
        /\ f.last \in Int /\ -1 <= f.last /\ (f # NoRow <=> f.last \in Nat)
    BY <2>3, ProjectorTypes DEF ProjectorInv
  <2>5. /\ KeepsUp(d, s, c) /\ DetailsMatch(d, s)
        /\ KeepsUp(f, s, c) /\ InfosMatch(f, s)
    BY <2>1, <2>3 DEF ProjectorInv, DetailsSound, InfosSound
  <2>6. KeepsUp(d, t, c) /\ DetailsMatch(d, t)
    BY <2>1, <2>2, <2>4, <2>5, GrowKeepsRow
  <2>7. KeepsUp(f, t, c) /\ InfosMatch(f, t)
    BY <2>1, <2>2, <2>4, <2>5, GrowKeepsRow
  <2> QED BY <2>1, <2>3, <2>6, <2>7
<1>6. PhaseSound'
  <2>1. phase # "details" => EventAt(NextRow)' = EventAt(NextRow)
    <3> SUFFICES ASSUME phase # "details"
                 PROVE  EventAt(NextRow)' = EventAt(NextRow)
      OBVIOUS
    <3>1. rows # {}
      BY DEF ProjectorInv, PhaseSound
    <3>2. /\ NextRow.account \in Accounts /\ NextRow.sequence \in Nat
          /\ NextRow.sequence < Len(streams[NextRow.account])
      BY <3>1, NextRowFollows DEF ProjectorInv, ProjectorTypeOK
    <3>3. PICK b \in Accounts, n \in Nat :
              b = NextRow.account /\ n = NextRow.sequence /\ n < Len(streams[b])
      BY <3>2
    <3>4. Len(streams[b]) \in Nat /\ n + 1 \in 1..Len(streams[b])
      BY <3>3, StoreTypes DEF ProjectorInv, ProjectorTypeOK
    <3>5. streams'[b][n + 1] = streams[b][n + 1]
      BY <1>1, <3>4 DEF StreamsGrow
    <3> QED BY <1>1, <3>3, <3>5 DEF EventAt
  <2> QED BY <1>1, <1>2, <2>1 DEF ProjectorInv, PhaseSound
<1> QED BY <1>1, <1>3, <1>4, <1>5, <1>6 DEF ProjectorInv

LEMMA ProjectorQueryInv ==
    ASSUME ProjectorInv, ProjectorQuery
    PROVE  ProjectorInv'
<1>1. /\ rows = {}
      /\ UNCHANGED <<streams, checkpoint, crashes, details, infos, phase, panicked>>
  BY DEF ProjectorQuery, Load
<1>2. phase = "details"
  BY <1>1 DEF ProjectorInv, PhaseSound
<1>3. StoreTypeOK' /\ RowsFollow'
  BY LoadKeepsStore DEF ProjectorInv, ProjectorTypeOK, ProjectorQuery
<1>4. ProjectorTypeOK'
  BY <1>1, <1>3 DEF ProjectorInv, ProjectorTypeOK
<1>5. StreamsAddUp' /\ DetailsSound' /\ InfosSound'
  BY <1>1 DEF ProjectorInv, StreamsAddUp, DetailsSound, InfosSound
<1>6. PhaseSound'
  BY <1>1, <1>2 DEF PhaseSound
<1> QED BY <1>3, <1>4, <1>5, <1>6 DEF ProjectorInv

LEMMA ProjectDetailsInv ==
    ASSUME ProjectorInv, ProjectDetails
    PROVE  ProjectorInv'
<1>1. PICK a \in Accounts, n \in Nat, s \in Seq(Events), c \in Int :
          /\ a = NextRow.account /\ n = NextRow.sequence
          /\ s = streams[a] /\ c = checkpoint[a]
          /\ n = c + 1 /\ -1 <= c /\ c + 1 < Len(s)
          /\ EventAt(NextRow) = s[c + 2]
          /\ AddsUp(s)
  BY NextEvent DEF ProjectDetails
<1>2. PICK row \in DetailRows : row = details[a]
  BY ProjectorTypes DEF ProjectorInv
<1>3. PICK next : next = DetailsAfter(row, s[c + 2], c + 1)
  OBVIOUS
<1>4. /\ rows # {} /\ ~Fails(row, s[c + 2])
      /\ details' = [details EXCEPT ![a] = next]
      /\ phase' = "infos"
      /\ UNCHANGED <<streams, checkpoint, rows, crashes, infos, panicked>>
  BY <1>1, <1>2, <1>3 DEF ProjectDetails, storeVars
<1>5. KeepsUp(row, s, c) /\ DetailsMatch(row, s)
  BY <1>1, <1>2 DEF ProjectorInv, DetailsSound
<1>6. /\ next \in DetailRows /\ KeepsUp(next, s, c) /\ DetailsMatch(next, s)
      /\ Shows(next, s[c + 2], c + 1)
  BY <1>1, <1>3, <1>4, <1>5, DetailsStep
<1>7. /\ details \in [Accounts -> DetailRows]
      /\ infos \in [Accounts -> InfoRows]
      /\ StoreTypeOK /\ phase \in {"details", "infos", "checkpoint"}
      /\ panicked \subseteq Accounts
  BY DEF ProjectorInv, ProjectorTypeOK, DetailRows, InfoRows
<1>8. /\ details'[a] = next /\ details' \in [Accounts -> DetailRows]
      /\ \A b \in Accounts : b # a => details'[b] = details[b]
  BY <1>4, <1>6, <1>7
<1>9. NextRow' = NextRow /\ EventAt(NextRow)' = EventAt(NextRow)
  BY <1>4 DEF NextRow, Before, EventAt
<1>10. ProjectorTypeOK'
  <2>1. StoreTypeOK'
    BY <1>4, <1>7 DEF StoreTypeOK
  <2> QED BY <1>4, <1>7, <1>8, <2>1 DEF ProjectorTypeOK, DetailRows, InfoRows
<1>11. RowsFollow' /\ StreamsAddUp' /\ InfosSound'
  BY <1>4 DEF ProjectorInv, RowsFollow, StreamsAddUp, InfosSound
<1>12. DetailsSound'
  <2> SUFFICES ASSUME NEW b \in Accounts
               PROVE  /\ KeepsUp(details'[b], streams[b], checkpoint[b])
                      /\ DetailsMatch(details'[b], streams[b])
    BY <1>4 DEF DetailsSound
  <2>1. CASE b = a
    BY <1>1, <1>6, <1>8, <2>1
  <2>2. CASE b # a
    BY <1>8, <2>2 DEF ProjectorInv, DetailsSound
  <2> QED BY <2>1, <2>2
<1>13. PhaseSound'
  <2>1. Shows(details'[a], s[c + 2], n)
    BY <1>1, <1>6, <1>8
  <2>2. Shows(details'[NextRow.account], EventAt(NextRow), NextRow.sequence)
    BY <1>1, <2>1
  <2> QED BY <1>4, <1>9, <2>2 DEF PhaseSound
<1> QED BY <1>10, <1>11, <1>12, <1>13 DEF ProjectorInv

LEMMA ProjectInfosInv ==
    ASSUME ProjectorInv, ProjectInfos
    PROVE  ProjectorInv'
<1>1. PICK a \in Accounts, n \in Nat, s \in Seq(Events), c \in Int :
          /\ a = NextRow.account /\ n = NextRow.sequence
          /\ s = streams[a] /\ c = checkpoint[a]
          /\ n = c + 1 /\ -1 <= c /\ c + 1 < Len(s)
          /\ EventAt(NextRow) = s[c + 2]
          /\ AddsUp(s)
  BY NextEvent DEF ProjectInfos
<1>2. PICK row \in InfoRows : row = infos[a]
  BY ProjectorTypes DEF ProjectorInv
<1>3. PICK next : next = InfosAfter(row, s[c + 2], c + 1)
  OBVIOUS
<1>4. /\ rows # {} /\ ~Fails(row, s[c + 2]) /\ phase = "infos"
      /\ infos' = [infos EXCEPT ![a] = next]
      /\ phase' = "checkpoint"
      /\ UNCHANGED <<streams, checkpoint, rows, crashes, details, panicked>>
  BY <1>1, <1>2, <1>3 DEF ProjectInfos, storeVars
<1>5. KeepsUp(row, s, c) /\ InfosMatch(row, s)
  BY <1>1, <1>2 DEF ProjectorInv, InfosSound
<1>6. /\ next \in InfoRows /\ KeepsUp(next, s, c) /\ InfosMatch(next, s)
      /\ Shows(next, s[c + 2], c + 1)
  BY <1>1, <1>3, <1>4, <1>5, InfosStep
<1>7. /\ details \in [Accounts -> DetailRows]
      /\ infos \in [Accounts -> InfoRows]
      /\ StoreTypeOK /\ phase \in {"details", "infos", "checkpoint"}
      /\ panicked \subseteq Accounts
  BY DEF ProjectorInv, ProjectorTypeOK, DetailRows, InfoRows
<1>8. /\ infos'[a] = next /\ infos' \in [Accounts -> InfoRows]
      /\ \A b \in Accounts : b # a => infos'[b] = infos[b]
  BY <1>4, <1>6, <1>7
<1>9. NextRow' = NextRow /\ EventAt(NextRow)' = EventAt(NextRow)
  BY <1>4 DEF NextRow, Before, EventAt
<1>10. ProjectorTypeOK'
  <2>1. StoreTypeOK'
    BY <1>4, <1>7 DEF StoreTypeOK
  <2> QED BY <1>4, <1>7, <1>8, <2>1 DEF ProjectorTypeOK, DetailRows, InfoRows
<1>11. RowsFollow' /\ StreamsAddUp' /\ DetailsSound'
  BY <1>4 DEF ProjectorInv, RowsFollow, StreamsAddUp, DetailsSound
<1>12. InfosSound'
  <2> SUFFICES ASSUME NEW b \in Accounts
               PROVE  /\ KeepsUp(infos'[b], streams[b], checkpoint[b])
                      /\ InfosMatch(infos'[b], streams[b])
    BY <1>4 DEF InfosSound
  <2>1. CASE b = a
    BY <1>1, <1>6, <1>8, <2>1
  <2>2. CASE b # a
    BY <1>8, <2>2 DEF ProjectorInv, InfosSound
  <2> QED BY <2>1, <2>2
<1>13. PhaseSound'
  <2>1. Shows(infos'[a], s[c + 2], n)
    BY <1>1, <1>6, <1>8
  <2>2. Shows(infos'[NextRow.account], EventAt(NextRow), NextRow.sequence)
    BY <1>1, <2>1
  <2>3. Shows(details[NextRow.account], EventAt(NextRow), NextRow.sequence)
    BY <1>4 DEF ProjectorInv, PhaseSound
  <2> QED BY <1>4, <1>9, <2>2, <2>3 DEF PhaseSound
<1> QED BY <1>10, <1>11, <1>12, <1>13 DEF ProjectorInv

LEMMA ProjectorStoreInv ==
    ASSUME ProjectorInv, ProjectorStore
    PROVE  ProjectorInv'
<1>1. PICK a \in Accounts, n \in Nat, s \in Seq(Events), c \in Int :
          /\ a = NextRow.account /\ n = NextRow.sequence
          /\ s = streams[a] /\ c = checkpoint[a]
          /\ n = c + 1 /\ -1 <= c /\ c + 1 < Len(s)
          /\ EventAt(NextRow) = s[c + 2]
          /\ AddsUp(s)
  BY NextEvent DEF ProjectorStore
<1>2. /\ rows # {} /\ phase = "checkpoint" /\ phase' = "details"
      /\ UNCHANGED <<details, infos, panicked>>
  BY DEF ProjectorStore, ProjectorMayStore
<1>3. /\ StoreTypeOK' /\ RowsFollow' /\ checkpoint'[a] = n
      /\ \A b \in Accounts : b # a => checkpoint'[b] = checkpoint[b]
      /\ UNCHANGED <<streams, crashes>>
  BY <1>1, CheckpointKeepsStore DEF ProjectorInv, ProjectorTypeOK, ProjectorStore
<1>4. ProjectorTypeOK' /\ PhaseSound' /\ StreamsAddUp'
  BY <1>2, <1>3 DEF ProjectorInv, ProjectorTypeOK, PhaseSound, StreamsAddUp
<1>5. PICK d, f : d = details[a] /\ f = infos[a]
  OBVIOUS
<1>6. /\ d.last \in Int /\ -1 <= d.last /\ (d # NoRow <=> d.last \in Nat)
      /\ f.last \in Int /\ -1 <= f.last /\ (f # NoRow <=> f.last \in Nat)
  BY <1>5, ProjectorTypes DEF ProjectorInv
<1>7. /\ KeepsUp(d, s, c) /\ KeepsUp(f, s, c)
      /\ Shows(d, s[c + 2], c + 1) /\ Shows(f, s[c + 2], c + 1)
  BY <1>1, <1>2, <1>5 DEF ProjectorInv, DetailsSound, InfosSound, PhaseSound
<1>8. KeepsUp(d, s, n)
  BY <1>1, <1>6, <1>7, CheckpointStep
<1>9. KeepsUp(f, s, n)
  BY <1>1, <1>6, <1>7, CheckpointStep
<1>10. DetailsSound' /\ InfosSound'
  <2> SUFFICES ASSUME NEW b \in Accounts
               PROVE  /\ KeepsUp(details[b], streams[b], checkpoint'[b])
                      /\ DetailsMatch(details[b], streams[b])
                      /\ KeepsUp(infos[b], streams[b], checkpoint'[b])
                      /\ InfosMatch(infos[b], streams[b])
    BY <1>2, <1>3 DEF DetailsSound, InfosSound
  <2>1. CASE b = a
    BY <1>1, <1>3, <1>5, <1>8, <1>9, <2>1 DEF ProjectorInv, DetailsSound, InfosSound
  <2>2. CASE b # a
    BY <1>3, <2>2 DEF ProjectorInv, DetailsSound, InfosSound
  <2> QED BY <2>1, <2>2
<1> QED BY <1>3, <1>4, <1>10 DEF ProjectorInv

\* A restart, after a crash or a panic.
LEMMA ProjectorRestartInv ==
    ASSUME ProjectorInv, ProjectorCrash \/ Panic
    PROVE  ProjectorInv'
<1>1. /\ phase' = "details" /\ UNCHANGED <<details, infos>>
      /\ LoseRows
  BY DEF ProjectorCrash, CrashOnce, Panic
<1>2. crashes' \in 0..MaxCrashes /\ panicked' \subseteq Accounts
  <2>1. CASE ProjectorCrash
    BY <2>1, CrashIsCounted DEF ProjectorCrash, ProjectorInv, ProjectorTypeOK
  <2>2. CASE Panic
    <3>1. crashes' = crashes /\ rows # {} /\ panicked' = panicked \cup {NextRow.account}
      BY <2>2 DEF Panic
    <3>2. NextRow.account \in Accounts
      BY <3>1, NextRowFollows DEF ProjectorInv, ProjectorTypeOK
    <3> QED BY <3>1, <3>2 DEF ProjectorInv, ProjectorTypeOK, StoreTypeOK
  <2> QED BY <2>1, <2>2
<1>3. StoreTypeOK' /\ RowsFollow' /\ UNCHANGED <<streams, checkpoint>>
  BY <1>1, <1>2, LoseRowsKeepsStore DEF ProjectorInv, ProjectorTypeOK
<1>4. ProjectorTypeOK' /\ PhaseSound'
  BY <1>1, <1>2, <1>3 DEF ProjectorInv, ProjectorTypeOK, PhaseSound
<1>5. StreamsAddUp' /\ DetailsSound' /\ InfosSound'
  BY <1>1, <1>3 DEF ProjectorInv, StreamsAddUp, DetailsSound, InfosSound
<1> QED BY <1>3, <1>4, <1>5 DEF ProjectorInv

LEMMA ProjectorInitInv == ProjectorInit => ProjectorInv
<1> SUFFICES ASSUME ProjectorInit PROVE ProjectorInv
  OBVIOUS
<1>1. /\ StoreTypeOK /\ RowsFollow /\ rows = {}
      /\ \A a \in Accounts : streams[a] = <<>> /\ checkpoint[a] = -1
  BY StoreInitOK DEF ProjectorInit
<1>2. /\ \A a \in Accounts : details[a] = NoRow /\ infos[a] = NoRow
      /\ phase = "details" /\ panicked = {}
  BY DEF ProjectorInit
<1>3. ProjectorTypeOK
  BY <1>1, <1>2 DEF ProjectorInit, ProjectorTypeOK
<1>4. AddsUp(<<>>)
  BY DEF AddsUp
<1>5. KeepsUp(NoRow, <<>>, -1)
  <2>1. NoRow.last = -1 /\ Len(<<>>) = 0
    BY DEF NoRow
  <2>2. \A k \in (-1 + 1)..(-1) : FALSE
    OBVIOUS
  <2> QED BY <2>1, <2>2 DEF KeepsUp
<1>6. DetailsMatch(NoRow, <<>>) /\ InfosMatch(NoRow, <<>>)
  BY DEF DetailsMatch, InfosMatch
<1>7. StreamsAddUp /\ DetailsSound /\ InfosSound
  BY <1>1, <1>2, <1>4, <1>5, <1>6 DEF StreamsAddUp, DetailsSound, InfosSound
<1>8. PhaseSound
  BY <1>2 DEF PhaseSound
<1> QED BY <1>1, <1>3, <1>7, <1>8 DEF ProjectorInv

LEMMA ProjectorStep ==
    ASSUME ProjectorInv, [ProjectorNext]_projectorVars
    PROVE  ProjectorInv'
<1>1. CASE UNCHANGED projectorVars
  <2>1. UNCHANGED <<streams, checkpoint, rows, crashes, details, infos, phase, panicked>>
    BY <1>1 DEF projectorVars, storeVars
  <2>2. NextRow' = NextRow /\ EventAt(NextRow)' = EventAt(NextRow)
    BY <2>1 DEF NextRow, Before, EventAt
  <2> QED BY <2>1, <2>2
          DEF ProjectorInv, ProjectorTypeOK, StoreTypeOK, RowsFollow,
              StreamsAddUp, DetailsSound, InfosSound, PhaseSound
<1> QED BY <1>1, ProjectorQueryInv, ProjectDetailsInv, ProjectInfosInv,
           ProjectorStoreInv, ProjectorRestartInv, ProjectorWriteSideInv
        DEF ProjectorNext, ProjectorLoop

LEMMA ProjectorInvariant == ProjectorSpec => []ProjectorInv
<1> QED BY ProjectorInitInv, ProjectorStep, PTL DEF ProjectorSpec

(***************************************************************************)
(* The variables of the projector, its tables among them, stay in their    *)
(* types (projector.rs:20-70).                                             *)
(***************************************************************************)
THEOREM ProjectorTypeCorrect == ProjectorSpec => []ProjectorTypeOK
<1>1. ProjectorInv => ProjectorTypeOK
  BY DEF ProjectorInv
<1> QED BY <1>1, ProjectorInvariant, PTL

(***************************************************************************)
(* Each row shows what its stream adds up to at the last event applied to  *)
(* it (account_details.rs:73-94, 116-137, account_infos.rs: 77-98,         *)
(* 121-142).                                                               *)
(***************************************************************************)
THEOREM TablesShowStream == ProjectorSpec => []TablesMatchStream
<1>1. ProjectorInv => TablesMatchStream
  <2>1. \A a, n, k : EventsUpTo(a, n, k) = OfKind(streams[a], n, k)
    BY DEF EventsUpTo, OfKind
  <2> QED BY <2>1 DEF ProjectorInv, DetailsSound, InfosSound, DetailsMatch,
                      InfosMatch, TablesMatchStream
<1> QED BY <1>1, ProjectorInvariant, PTL

\* What lies behind a checkpoint is in both tables.
LEMMA BehindCheckpoint ==
    ASSUME ProjectorInv, NEW a \in Accounts, NEW n \in 0..checkpoint[a]
    PROVE  IsProjected(a, n)
<1>1. /\ details[a].last \in Int /\ -1 <= details[a].last
      /\ infos[a].last \in Int /\ -1 <= infos[a].last
      /\ checkpoint[a] \in Int
  BY ProjectorTypes, StoreTypes DEF ProjectorInv
<1>2. /\ \A k \in (details[a].last + 1)..checkpoint[a] :
             streams[a][k + 1].kind = "CommandReplyRequested"
      /\ \A k \in (infos[a].last + 1)..checkpoint[a] :
             streams[a][k + 1].kind = "CommandReplyRequested"
  BY DEF ProjectorInv, DetailsSound, InfosSound, KeepsUp
<1>3. /\ details[a].last < n => n \in (details[a].last + 1)..checkpoint[a]
      /\ infos[a].last < n => n \in (infos[a].last + 1)..checkpoint[a]
      /\ ~(details[a].last < n) => details[a].last >= n
      /\ ~(infos[a].last < n) => infos[a].last >= n
  BY <1>1
<1> QED BY <1>2, <1>3 DEF IsProjected

(***************************************************************************)
(* A restart skips no event that either table still has to show            *)
(* (projector.rs:33-44).                                                   *)
(***************************************************************************)
THEOREM CheckpointsAreProjected == ProjectorSpec => []CheckpointIsProjected
<1>1. ProjectorInv => CheckpointIsProjected
  BY BehindCheckpoint DEF CheckpointIsProjected
<1> QED BY <1>1, ProjectorInvariant, PTL

\* With nothing in hand and nothing to be read, the tables show all.
IdleMeansCaughtUp ==
    rows = {} /\ RowsAfterCheckpoint = {} => \A a \in Accounts : CaughtUp(a)

(***************************************************************************)
(* The projector sleeps only when both tables show every event of every    *)
(* stream (projector.rs:51-58).                                            *)
(***************************************************************************)
THEOREM ProjectorSleepsWhenDone == ProjectorSpec => []IdleMeansCaughtUp
<1>1. ProjectorInv => CheckpointIsProjected
  BY BehindCheckpoint DEF CheckpointIsProjected
<1>2. ProjectorInv => IdleMeansCaughtUp
  BY <1>1, NothingAfterCheckpoint
     DEF ProjectorInv, ProjectorTypeOK, CheckpointIsProjected, CaughtUp,
         IdleMeansCaughtUp
<1> QED BY <1>2, ProjectorInvariant, PTL
-----------------------------------------------------------------------------
(* Accounts that have made the projector panic. *)

\* With rows d and f, the event after checkpoint c of stream s is there, and
\* one of the two projections fails with it.
Refused(d, f, s, c) ==
    /\ c + 1 < Len(s)
    /\ Fails(d, s[c + 2]) \/ Fails(f, s[c + 2])

(***************************************************************************)
(* The next event of an account that has panicked is refused, it is in     *)
(* every query, and the projector does not come through both projections   *)
(* with it.                                                                *)
(***************************************************************************)
PanicSound ==
    /\ \A a \in panicked :
          /\ Refused(details[a], infos[a], streams[a], checkpoint[a])
          /\ rows # {} => Row(a, checkpoint[a] + 1) \in rows
    /\ phase = "infos" /\ NextRow.account \in panicked =>
          Fails(infos[NextRow.account], EventAt(NextRow))
    /\ phase = "checkpoint" => NextRow.account \notin panicked

PanicInv == ProjectorInv /\ PanicSound

\* The next row is not behind that of an account that has panicked.
LEMMA NextRowBeforePanicked ==
    ASSUME PanicInv, rows # {}, NEW a \in panicked
    PROVE  NextRow.account <= a
<1>1. /\ rows \subseteq [account : Accounts, sequence : Nat]
      /\ panicked \subseteq Accounts
  BY DEF PanicInv, ProjectorInv, ProjectorTypeOK, StoreTypeOK
<1>2. NextRow \in rows /\ \A r \in rows : Before(NextRow, r)
  BY <1>1, NextRowIsFirst
<1>3. Before(NextRow, Row(a, checkpoint[a] + 1))
  BY <1>2 DEF PanicInv, PanicSound
<1>4. NextRow.account < a \/ NextRow.account = a
  BY <1>3 DEF Before, Row
<1>5. NextRow.account \in Nat /\ a \in Nat
  BY <1>1, <1>2, StoreConstants
<1> QED BY <1>4, <1>5

\* Streams only grow, so what is refused stays refused.
LEMMA PanicWriteSide ==
    ASSUME PanicInv, NEW b \in Accounts, ProjectorWriteSide(b)
    PROVE  PanicSound'
<1>1. /\ NextRow' = NextRow /\ StreamsGrow
      /\ UNCHANGED <<checkpoint, rows, crashes, details, infos, phase, panicked>>
  BY AppendKeepsStore
     DEF PanicInv, ProjectorInv, ProjectorTypeOK, ProjectorWriteSide
<1>2. ASSUME NEW a \in Accounts, NEW n \in Nat, n < Len(streams[a])
      PROVE  n < Len(streams'[a]) /\ streams'[a][n + 1] = streams[a][n + 1]
  <2>1. Len(streams[a]) \in Nat /\ Len(streams'[a]) \in Nat
        /\ Len(streams[a]) <= Len(streams'[a])
    BY <1>1, StoreTypes DEF StreamsGrow, PanicInv, ProjectorInv, ProjectorTypeOK
  <2>2. n + 1 \in 1..Len(streams[a]) /\ n < Len(streams'[a])
    BY <1>2, <2>1
  <2> QED BY <1>1, <2>2 DEF StreamsGrow
<1>3. ASSUME NEW a \in panicked
      PROVE  Refused(details[a], infos[a], streams'[a], checkpoint[a])
  <2>1. PICK c \in Int : c = checkpoint[a] /\ -1 <= c /\ a \in Accounts
    BY StoreTypes DEF PanicInv, ProjectorInv, ProjectorTypeOK
  <2>2. Refused(details[a], infos[a], streams[a], c)
    BY <2>1 DEF PanicInv, PanicSound
  <2>3. c + 1 \in Nat /\ c + 1 < Len(streams[a]) /\ (c + 1) + 1 = c + 2
    BY <2>1, <2>2 DEF Refused
  <2>4. c + 1 < Len(streams'[a]) /\ streams'[a][c + 2] = streams[a][c + 2]
    BY <1>2, <2>1, <2>3
  <2> QED BY <2>1, <2>2, <2>4 DEF Refused
<1>4. phase = "infos" => EventAt(NextRow)' = EventAt(NextRow)
  <2>1. SUFFICES ASSUME phase = "infos" PROVE EventAt(NextRow)' = EventAt(NextRow)
    OBVIOUS
  <2>2. rows # {}
    BY <2>1 DEF PanicInv, ProjectorInv, PhaseSound
  <2>3. PICK a \in Accounts, n \in Nat :
            a = NextRow.account /\ n = NextRow.sequence /\ n < Len(streams[a])
    BY <2>2, NextRowFollows DEF PanicInv, ProjectorInv, ProjectorTypeOK
  <2>4. streams'[a][n + 1] = streams[a][n + 1]
    BY <1>2, <2>3
  <2> QED BY <1>1, <2>3, <2>4 DEF EventAt
<1>5. \A a \in panicked' :
          /\ Refused(details'[a], infos'[a], streams'[a], checkpoint'[a])
          /\ rows' # {} => Row(a, checkpoint'[a] + 1) \in rows'
  BY <1>1, <1>3 DEF PanicInv, PanicSound
<1> QED BY <1>1, <1>4, <1>5 DEF PanicInv, PanicSound

\* A query returns the events that are refused again.
LEMMA PanicQuery ==
    ASSUME PanicInv, ProjectorQuery
    PROVE  PanicSound'
<1>1. /\ rows = {} /\ rows' = RowsAfterCheckpoint
      /\ UNCHANGED <<streams, checkpoint, crashes, details, infos, phase, panicked>>
  BY DEF ProjectorQuery, Load
<1>2. phase = "details"
  BY <1>1 DEF PanicInv, ProjectorInv, PhaseSound
<1>3. ASSUME NEW a \in panicked
      PROVE  Row(a, checkpoint[a] + 1) \in RowsAfterCheckpoint
  <2>1. /\ a \in Accounts /\ checkpoint[a] \in Int /\ Len(streams[a]) \in Nat
        /\ checkpoint[a] + 1 < Len(streams[a])
    BY StoreTypes DEF PanicInv, PanicSound, Refused, ProjectorInv, ProjectorTypeOK
  <2>2. checkpoint[a] + 1 \in (checkpoint[a] + 1)..(Len(streams[a]) - 1)
    BY <2>1
  <2> QED BY <2>1, <2>2 DEF RowsAfterCheckpoint
<1> QED BY <1>1, <1>2, <1>3 DEF PanicInv, PanicSound

\* If the first projection of a refused event is done, the second fails.
LEMMA PanicDetails ==
    ASSUME PanicInv, ProjectDetails
    PROVE  PanicSound'
<1>1. PICK a \in Accounts, s \in Seq(Events), c \in Int :
          /\ a = NextRow.account /\ s = streams[a] /\ c = checkpoint[a]
          /\ EventAt(NextRow) = s[c + 2]
  BY NextEvent DEF PanicInv, ProjectDetails
<1>2. PICK next : details' = [details EXCEPT ![a] = next]
  BY <1>1 DEF ProjectDetails
<1>3. /\ rows # {} /\ ~Fails(details[a], s[c + 2]) /\ phase' = "infos"
      /\ UNCHANGED <<streams, checkpoint, rows, crashes, infos, panicked>>
  BY <1>1 DEF ProjectDetails, storeVars
<1>4. NextRow' = NextRow /\ EventAt(NextRow)' = EventAt(NextRow)
  BY <1>3 DEF NextRow, Before, EventAt
<1>5. a \in panicked => /\ c + 1 < Len(s)
                        /\ Fails(infos[a], s[c + 2])
  BY <1>1, <1>3 DEF PanicInv, PanicSound, Refused
<1>6. ASSUME NEW b \in panicked
      PROVE  Refused(details'[b], infos[b], streams[b], checkpoint[b])
  <2>1. CASE b = a
    BY <1>1, <1>5, <2>1 DEF Refused
  <2>2. CASE b # a
    <3>1. details'[b] = details[b]
      BY <1>2, <2>2 DEF PanicInv, ProjectorInv, ProjectorTypeOK
    <3> QED BY <3>1 DEF PanicInv, PanicSound
  <2> QED BY <2>1, <2>2
<1>7. \A b \in panicked' :
          /\ Refused(details'[b], infos'[b], streams'[b], checkpoint'[b])
          /\ rows' # {} => Row(b, checkpoint'[b] + 1) \in rows'
  BY <1>3, <1>6 DEF PanicInv, PanicSound
<1> QED BY <1>1, <1>3, <1>4, <1>5, <1>7 DEF PanicSound

\* No refused event comes through the second projection.
LEMMA PanicInfos ==
    ASSUME PanicInv, ProjectInfos
    PROVE  PanicSound'
<1>1. PICK a \in Accounts : a = NextRow.account
  BY NextEvent DEF PanicInv, ProjectInfos
<1>2. PICK next : infos' = [infos EXCEPT ![a] = next]
  BY <1>1 DEF ProjectInfos
<1>3. /\ ~Fails(infos[a], EventAt(NextRow))
      /\ phase = "infos" /\ phase' = "checkpoint"
      /\ UNCHANGED <<streams, checkpoint, rows, crashes, details, panicked>>
  BY <1>1 DEF ProjectInfos, storeVars
<1>4. NextRow' = NextRow
  BY <1>3 DEF NextRow, Before
<1>5. a \notin panicked
  BY <1>1, <1>3 DEF PanicInv, PanicSound
<1>6. \A b \in panicked : infos'[b] = infos[b]
  BY <1>2, <1>5 DEF PanicInv, ProjectorInv, ProjectorTypeOK
<1>7. \A b \in panicked' :
          /\ Refused(details'[b], infos'[b], streams'[b], checkpoint'[b])
          /\ rows' # {} => Row(b, checkpoint'[b] + 1) \in rows'
  BY <1>3, <1>6 DEF PanicInv, PanicSound
<1> QED BY <1>1, <1>3, <1>4, <1>5, <1>7 DEF PanicSound

\* So a checkpoint is that of another account.
LEMMA PanicStore ==
    ASSUME PanicInv, ProjectorStore
    PROVE  PanicSound'
<1>1. PICK a \in Accounts, n \in Nat : a = NextRow.account /\ n = NextRow.sequence
  BY NextEvent DEF PanicInv, ProjectorStore
<1>2. /\ rows' = rows \ {NextRow} /\ phase = "checkpoint" /\ phase' = "details"
      /\ UNCHANGED <<streams, details, infos, panicked>>
  BY DEF ProjectorStore, StoreCheckpoint, ProjectorMayStore
<1>3. \A b \in Accounts : b # a => checkpoint'[b] = checkpoint[b]
  BY <1>1, CheckpointKeepsStore
     DEF PanicInv, ProjectorInv, ProjectorTypeOK, ProjectorStore
<1>4. a \notin panicked /\ panicked \subseteq Accounts
  BY <1>1, <1>2 DEF PanicInv, PanicSound, ProjectorInv, ProjectorTypeOK
<1>5. ASSUME NEW b \in panicked
      PROVE  /\ Refused(details'[b], infos'[b], streams'[b], checkpoint'[b])
             /\ rows' # {} => Row(b, checkpoint'[b] + 1) \in rows'
  <2>1. checkpoint'[b] = checkpoint[b] /\ b # a
    BY <1>3, <1>4
  <2>2. Row(b, checkpoint[b] + 1) # NextRow
    BY <1>1, <2>1 DEF Row
  <2>3. Refused(details'[b], infos'[b], streams'[b], checkpoint'[b])
    BY <1>2, <2>1 DEF PanicInv, PanicSound
  <2>4. rows' # {} => Row(b, checkpoint[b] + 1) \in rows'
    BY <1>2, <2>2 DEF PanicInv, PanicSound
  <2> QED BY <2>1, <2>3, <2>4
<1> QED BY <1>2, <1>5 DEF PanicSound

\* A panic is of an account whose next event is refused.
LEMMA PanicRestart ==
    ASSUME PanicInv, ProjectorCrash \/ Panic
    PROVE  PanicSound'
<1>1. /\ rows' = {} /\ phase' = "details"
      /\ UNCHANGED <<streams, checkpoint, details, infos>>
  BY DEF ProjectorCrash, CrashOnce, Panic, LoseRows
<1>2. \A a \in panicked' :
          Refused(details[a], infos[a], streams[a], checkpoint[a])
  <2>1. CASE ProjectorCrash
    BY <2>1 DEF ProjectorCrash, PanicInv, PanicSound
  <2>2. CASE Panic
    <3>1. PICK a \in Accounts, s \in Seq(Events), c \in Int :
              /\ a = NextRow.account /\ s = streams[a] /\ c = checkpoint[a]
              /\ c + 1 < Len(s)
              /\ EventAt(NextRow) = s[c + 2]
      BY <2>2, NextEvent DEF PanicInv, Panic
    <3>2. /\ Fails(details[a], s[c + 2]) \/ Fails(infos[a], s[c + 2])
          /\ panicked' = panicked \cup {a}
      BY <2>2, <3>1 DEF Panic
    <3>3. Refused(details[a], infos[a], streams[a], checkpoint[a])
      BY <3>1, <3>2 DEF Refused
    <3> QED BY <3>2, <3>3 DEF PanicInv, PanicSound
  <2> QED BY <2>1, <2>2
<1> QED BY <1>1, <1>2 DEF PanicSound

LEMMA PanicStep ==
    ASSUME PanicInv, [ProjectorNext]_projectorVars
    PROVE  PanicInv'
<1>1. ProjectorInv'
  BY ProjectorStep DEF PanicInv
<1>2. PanicSound'
  <2>1. CASE UNCHANGED projectorVars
    <3>1. UNCHANGED <<streams, checkpoint, rows, details, infos, phase, panicked>>
      BY <2>1 DEF projectorVars, storeVars
    <3>2. NextRow' = NextRow /\ EventAt(NextRow)' = EventAt(NextRow)
      BY <3>1 DEF NextRow, Before, EventAt
    <3>3. \A b \in panicked' :
              /\ Refused(details'[b], infos'[b], streams'[b], checkpoint'[b])
              /\ rows' # {} => Row(b, checkpoint'[b] + 1) \in rows'
      BY <3>1 DEF PanicInv, PanicSound
    <3> QED BY <3>1, <3>2, <3>3 DEF PanicInv, PanicSound
  <2> QED BY <2>1, PanicQuery, PanicDetails, PanicInfos, PanicStore,
             PanicRestart, PanicWriteSide
          DEF ProjectorNext, ProjectorLoop
<1> QED BY <1>1, <1>2 DEF PanicInv

(***************************************************************************)
(* Once the projector has panicked on an account, it neither passes that   *)
(* event nor shows anything more of the accounts that come after it        *)
(* (projector.rs:33-44, checkpoint.rs:51-56).                              *)
(***************************************************************************)
THEOREM PanicsAreForGood == ProjectorSpec => PanicIsForGood
<1> DEFINE Still == \A a \in panicked, b \in Accounts :
          /\ b >= a => checkpoint'[b] = checkpoint[b]
          /\ b > a => details'[b] = details[b] /\ infos'[b] = infos[b]
<1>1. ASSUME PanicInv, [ProjectorNext]_projectorVars PROVE Still
  <2> SUFFICES ASSUME NEW a \in panicked, NEW b \in Accounts
               PROVE  /\ b >= a => checkpoint'[b] = checkpoint[b]
                      /\ b > a => details'[b] = details[b] /\ infos'[b] = infos[b]
    OBVIOUS
  <2>1. a \in Nat /\ b \in Nat
    BY <1>1, StoreConstants DEF PanicInv, ProjectorInv, ProjectorTypeOK
  <2>2. CASE UNCHANGED <<checkpoint, details, infos>>
    BY <2>2
  <2>3. CASE ProjectDetails \/ ProjectInfos
    <3>1. PICK c \in Accounts : c = NextRow.account
      BY <1>1, <2>3, NextEvent DEF PanicInv, ProjectDetails, ProjectInfos
    <3>2. c <= a /\ c \in Nat
      BY <1>1, <2>3, <3>1, NextRowBeforePanicked, StoreConstants
         DEF ProjectDetails, ProjectInfos
    <3>3. /\ checkpoint' = checkpoint
          /\ b # c => details'[b] = details[b] /\ infos'[b] = infos[b]
      BY <1>1, <2>3, <3>1
         DEF ProjectDetails, ProjectInfos, storeVars, PanicInv, ProjectorInv,
             ProjectorTypeOK
    <3>4. b > a => b # c
      BY <2>1, <3>2
    <3> QED BY <3>3, <3>4
  <2>4. CASE ProjectorStore
    <3>1. PICK c \in Accounts, n \in Nat : c = NextRow.account /\ n = NextRow.sequence
      BY <1>1, <2>4, NextEvent DEF PanicInv, ProjectorStore
    <3>2. c <= a /\ c \in Nat
      BY <1>1, <2>4, <3>1, NextRowBeforePanicked, StoreConstants DEF ProjectorStore
    <3>3. c # a
      BY <1>1, <2>4, <3>1 DEF PanicInv, PanicSound, ProjectorStore, ProjectorMayStore
    <3>4. b # c => checkpoint'[b] = checkpoint[b]
      BY <1>1, <2>4, <3>1, CheckpointKeepsStore
         DEF PanicInv, ProjectorInv, ProjectorTypeOK, ProjectorStore
    <3>5. b >= a => b # c
      BY <2>1, <3>2, <3>3
    <3> QED BY <2>4, <3>4, <3>5 DEF ProjectorStore
  <2> QED BY <1>1, <2>2, <2>3, <2>4
          DEF ProjectorNext, ProjectorLoop, projectorVars, storeVars, Panic,
              LoseRows, ProjectorCrash, CrashOnce, ProjectorQuery, Load,
              ProjectorWriteSide, AppendEvents
<1>2. ProjectorInit => PanicInv
  BY ProjectorInitInv DEF PanicInv, PanicSound, ProjectorInit
<1>3. PanicInv /\ [ProjectorNext]_projectorVars => PanicInv'
  BY PanicStep
<1>4. PanicInv /\ [ProjectorNext]_projectorVars => [Still]_projectorVars
  BY <1>1
<1> QED BY <1>2, <1>3, <1>4, PTL DEF ProjectorSpec, PanicIsForGood
=============================================================================
