---------------------------- MODULE OutboxProofs ----------------------------
(***************************************************************************)
(* The outbox loses nothing and the consumer skips nothing, for any number *)
(* of writers, relays, rows and failures; and the pipeline implements the  *)
(* at-least-once channel.                                                  *)
(***************************************************************************)
EXTENDS OutboxRelay, FiniteSetTheorems, TLAPS

\* Every row belongs to one transaction at most, and is open or committed.
RowsApart ==
    /\ \A w \in Writers : \A i \in writing[w] : i < nextRow /\ i \notin posted
    /\ \A i \in posted : i < nextRow
    /\ \A v, w \in Writers : v # w => writing[v] \cap writing[w] = {}

\* Relays see committed rows only, and know which they have sent.
RelaysHonest ==
    /\ outbox \subseteq posted
    /\ \A r \in Relays : held[r] # 0 => held[r] \in posted
    /\ \A r \in sent : held[r] # 0 /\ held[r] \in Logged
    /\ Logged \subseteq posted

PositionIsHandled == \A k \in 1..position : handled[log[k]] > 0

OutboxInv ==
    /\ TypeOK
    /\ RowsApart
    /\ RelaysHonest
    /\ NothingLost
    /\ PositionIsHandled

\* What Append does to the set of records.
LEMMA LoggedAppend ==
    ASSUME log \in Seq(Rows), NEW i \in Rows, log' = Append(log, i)
    PROVE  /\ Logged' = Logged \cup {i}
           /\ Len(log') = Len(log) + 1
           /\ \A k \in 1..Len(log) : log'[k] = log[k]
<1>1. /\ Len(log) \in Nat
      /\ Len(log') = Len(log) + 1
      /\ \A k \in 1..Len(log) : log'[k] = log[k]
      /\ log'[Len(log) + 1] = i
  OBVIOUS
<1> QED
  BY <1>1 DEF Logged

LEMMA OutboxInit == Init => OutboxInv
<1> SUFFICES ASSUME Init PROVE OutboxInv
  OBVIOUS
<1>1. Logged = {}
  BY DEF Init, Logged
<1>2. TypeOK
  BY RelayConstants DEF Init, TypeOK, Rows
<1> QED
  BY <1>1, <1>2, RelayConstants
  DEF Init, OutboxInv, RowsApart, RelaysHonest, NothingLost, PositionIsHandled

LEMMA WriterStep ==
    ASSUME OutboxInv, NEW w \in Writers, WriterNext(w)
    PROVE  OutboxInv'
<1> USE RelayConstants DEF OutboxInv, Rows
<1>1. CASE Insert(w)
  <2>1. Logged' = Logged
    BY <1>1 DEF Insert, relayVars, Logged
  <2>2. nextRow \in 1..MaxRows /\ nextRow \in Nat
    BY <1>1 DEF Insert
  <2>4. /\ nextRow' = nextRow + 1
        /\ posted' = posted
        /\ writing' = [writing EXCEPT ![w] = @ \cup {nextRow}]
        /\ earlier' = [earlier EXCEPT ![nextRow] = posted \cup writing[w]]
    BY <1>1 DEF Insert
  <2>5. writing \in [Writers -> SUBSET Rows] /\ posted \subseteq Rows
    BY DEF TypeOK
  <2>3. TypeOK'
    <3>1. nextRow' \in 1..(MaxRows + 1)
      BY <2>2, <2>4
    <3>2. writing' \in [Writers -> SUBSET Rows]
      BY <2>2, <2>4, <2>5
    <3>3. earlier' \in [Rows -> SUBSET Rows]
      <4>1. posted \cup writing[w] \in SUBSET Rows
        BY <2>5
      <4>2. earlier \in [Rows -> SUBSET Rows]
        BY DEF TypeOK
      <4> QED
        BY <2>4, <4>1, <4>2
    <3> QED
      BY <1>1, <3>1, <3>2, <3>3 DEF Insert, TypeOK, relayVars, consumerVars
  <2>6. RowsApart'
    <3>1. \A i \in posted' : i < nextRow'
      BY <2>2, <2>4, <2>5 DEF RowsApart
    <3>2. ASSUME NEW v \in Writers, NEW i \in writing'[v]
          PROVE  i < nextRow' /\ i \notin posted'
      BY <2>2, <2>4, <2>5, <3>2 DEF RowsApart
    <3>3. ASSUME NEW u \in Writers, NEW v \in Writers, u # v
          PROVE  writing'[u] \cap writing'[v] = {}
      BY <2>2, <2>4, <2>5, <3>3 DEF RowsApart
    <3> QED
      BY <3>1, <3>2, <3>3 DEF RowsApart
  <2>7. RelaysHonest' /\ NothingLost'
    BY <1>1, <2>1 DEF Insert, relayVars, RelaysHonest, NothingLost
  <2>8. PositionIsHandled'
    BY <1>1 DEF Insert, relayVars, consumerVars, PositionIsHandled
  <2> QED
    BY <2>3, <2>6, <2>7, <2>8
<1>2. CASE Commit(w)
  <2>1. Logged' = Logged
    BY <1>2 DEF Commit, Logged
  <2>2. TypeOK'
    BY <1>2 DEF Commit, TypeOK, consumerVars
  <2>3. RowsApart'
    BY <1>2 DEF Commit, RowsApart, TypeOK
  <2>4. RelaysHonest' /\ NothingLost'
    BY <1>2, <2>1 DEF Commit, RelaysHonest, NothingLost
  <2>5. PositionIsHandled'
    BY <1>2 DEF Commit, consumerVars, PositionIsHandled
  <2> QED
    BY <2>2, <2>3, <2>4, <2>5
<1>3. CASE Rollback(w)
  <2>1. Logged' = Logged
    BY <1>3 DEF Rollback, relayVars, Logged
  <2>2. TypeOK'
    BY <1>3 DEF Rollback, TypeOK, relayVars, consumerVars
  <2>3. RowsApart'
    BY <1>3 DEF Rollback, RowsApart, TypeOK
  <2>4. RelaysHonest' /\ NothingLost'
    BY <1>3, <2>1 DEF Rollback, relayVars, RelaysHonest, NothingLost
  <2>5. PositionIsHandled'
    BY <1>3 DEF Rollback, relayVars, consumerVars, PositionIsHandled
  <2> QED
    BY <2>2, <2>3, <2>4, <2>5
<1> QED
  BY <1>1, <1>2, <1>3 DEF WriterNext

LEMMA RelayStep ==
    ASSUME OutboxInv, NEW r \in Relays, RelayNext(r) \/ RelayFails(r)
    PROVE  OutboxInv'
<1> USE RelayConstants DEF OutboxInv
<1>0. /\ held \in [Relays -> {0} \cup Rows]
      /\ sent \subseteq Relays
      /\ log \in Seq(Rows) /\ Len(log) \in Nat
      /\ position \in Nat /\ polled \in Nat
      /\ position <= polled /\ polled <= Len(log)
  BY DEF TypeOK
<1>1. CASE Lock(r)
  <2>1. PICK i \in Rows : First(i, Free) /\ held' = [held EXCEPT ![r] = i]
    BY <1>1 DEF Lock
  <2>2. i \in outbox
    BY <2>1 DEF First, Free
  <2>3. Logged' = Logged
    BY <1>1 DEF Lock, Logged
  <2>4. TypeOK'
    BY <1>1, <2>1 DEF Lock, TypeOK, writerVars, consumerVars
  <2>5. RowsApart'
    BY <1>1 DEF Lock, writerVars, RowsApart
  <2>6. held[r] = 0 /\ r \notin sent
    BY <1>1 DEF Lock, RelaysHonest
  <2>7. RelaysHonest' /\ NothingLost'
    BY <1>0, <1>1, <2>1, <2>2, <2>3, <2>6
    DEF Lock, writerVars, RelaysHonest, NothingLost
  <2>8. PositionIsHandled'
    BY <1>1 DEF Lock, consumerVars, PositionIsHandled
  <2> QED
    BY <2>4, <2>5, <2>7, <2>8
<1>2. CASE Send(r)
  <2>1. held[r] \in Rows /\ held[r] \in posted
    BY <1>0, <1>2 DEF Send, RelaysHonest
  <2>2. /\ log' = Append(log, held[r])
        /\ sent' = sent \cup {r}
        /\ held' = held /\ posted' = posted /\ outbox' = outbox
        /\ position' = position /\ handled' = handled
    BY <1>2 DEF Send, writerVars, consumerVars
  <2>3. /\ Logged' = Logged \cup {held[r]}
        /\ Len(log') = Len(log) + 1
        /\ \A k \in 1..Len(log) : log'[k] = log[k]
    BY <1>0, <2>1, <2>2, LoggedAppend
  <2>4. TypeOK'
    <3>1. log' \in Seq(Rows)
      BY <1>0, <2>1, <2>2
    <3> QED
      BY <1>0, <1>2, <2>3, <3>1 DEF Send, TypeOK, writerVars, consumerVars
  <2>5. RowsApart'
    BY <1>2 DEF Send, writerVars, RowsApart
  <2>6. RelaysHonest' /\ NothingLost'
    BY <1>2, <2>1, <2>2, <2>3 DEF Send, RelaysHonest, NothingLost
  <2>7. PositionIsHandled'
    BY <1>0, <2>2, <2>3 DEF PositionIsHandled
  <2> QED
    BY <2>4, <2>5, <2>6, <2>7
<1>3. CASE Delete(r)
  <2>1. Logged' = Logged /\ held[r] \in Logged
    BY <1>3 DEF Delete, MayDelete, RelaysHonest, Logged
  <2>2. TypeOK'
    BY <1>3 DEF Delete, TypeOK, writerVars, consumerVars
  <2>3. RowsApart'
    BY <1>3 DEF Delete, writerVars, RowsApart
  <2>4. RelaysHonest' /\ NothingLost'
    BY <1>0, <1>3, <2>1 DEF Delete, writerVars, RelaysHonest, NothingLost
  <2>5. PositionIsHandled'
    BY <1>3 DEF Delete, consumerVars, PositionIsHandled
  <2> QED
    BY <2>2, <2>3, <2>4, <2>5
<1>4. CASE RelayFails(r)
  <2>1. Logged' = Logged
    BY <1>4 DEF RelayFails, Logged
  <2>2. TypeOK'
    BY <1>4 DEF RelayFails, TypeOK, writerVars, consumerVars
  <2>3. RowsApart'
    BY <1>4 DEF RelayFails, writerVars, RowsApart
  <2>4. RelaysHonest' /\ NothingLost'
    BY <1>0, <1>4, <2>1 DEF RelayFails, writerVars, RelaysHonest, NothingLost
  <2>5. PositionIsHandled'
    BY <1>4 DEF RelayFails, consumerVars, PositionIsHandled
  <2> QED
    BY <2>2, <2>3, <2>4, <2>5
<1> QED
  BY <1>1, <1>2, <1>3, <1>4 DEF RelayNext

LEMMA ConsumerStep ==
    ASSUME OutboxInv, ConsumerNext \/ ConsumerFails
    PROVE  OutboxInv'
<1> USE RelayConstants DEF OutboxInv
<1>0. /\ log \in Seq(Rows) /\ Len(log) \in Nat
      /\ \A k \in 1..Len(log) : log[k] \in Rows
      /\ offset \in Nat /\ position \in Nat /\ polled \in Nat
      /\ offset <= position /\ position <= polled /\ polled <= Len(log)
      /\ handled \in [Rows -> Nat]
  BY DEF TypeOK
<1>1. UNCHANGED <<writerVars, relayVars>>
  BY DEF ConsumerNext, Poll, HandleNext, CommitOffset, ConsumerFails
<1>2. RowsApart' /\ RelaysHonest' /\ NothingLost'
  <2>1. Logged' = Logged
    BY <1>1 DEF relayVars, Logged
  <2> QED
    BY <1>1, <2>1
    DEF writerVars, relayVars, RowsApart, RelaysHonest, NothingLost
<1>3. CASE Poll
  <2>1. TypeOK'
    BY <1>0, <1>1, <1>3 DEF Poll, TypeOK, writerVars, relayVars
  <2>2. PositionIsHandled'
    BY <1>1, <1>3 DEF Poll, relayVars, PositionIsHandled
  <2> QED
    BY <1>2, <2>1, <2>2
<1>4. CASE HandleNext
  <2>1. /\ position' = position + 1 /\ log' = log
        /\ handled' = [handled EXCEPT ![log[position + 1]] = @ + 1]
        /\ position + 1 \in 1..Len(log) /\ position + 1 <= polled
    BY <1>0, <1>1, <1>4 DEF HandleNext, relayVars
  <2>2. /\ log[position + 1] \in Rows
        /\ handled' \in [Rows -> Nat]
        /\ handled'[log[position + 1]] > 0
        /\ \A i \in Rows : handled[i] > 0 => handled'[i] > 0
    BY <1>0, <2>1
  <2>3. TypeOK'
    BY <1>0, <1>1, <1>4, <2>1, <2>2
    DEF HandleNext, TypeOK, writerVars, relayVars
  <2>4. PositionIsHandled'
    <3> SUFFICES ASSUME NEW k \in 1..(position + 1) PROVE handled'[log[k]] > 0
      BY <2>1 DEF PositionIsHandled
    <3>1. CASE k = position + 1
      BY <2>2, <3>1
    <3>2. CASE k \in 1..position
      BY <1>0, <2>2, <3>2 DEF PositionIsHandled
    <3> QED
      BY <1>0, <3>1, <3>2
  <2> QED
    BY <1>2, <2>3, <2>4
<1>5. CASE CommitOffset
  <2>1. TypeOK'
    BY <1>0, <1>1, <1>5 DEF CommitOffset, MayCommit, TypeOK, writerVars, relayVars
  <2>2. PositionIsHandled'
    BY <1>1, <1>5 DEF CommitOffset, relayVars, PositionIsHandled
  <2> QED
    BY <1>2, <2>1, <2>2
<1>6. CASE ConsumerFails
  <2>1. TypeOK'
    BY <1>0, <1>1, <1>6 DEF ConsumerFails, Restart, TypeOK, writerVars, relayVars
  <2>2. PositionIsHandled'
    BY <1>0, <1>1, <1>6 DEF ConsumerFails, Restart, relayVars, PositionIsHandled
  <2> QED
    BY <1>2, <2>1, <2>2
<1> QED
  BY <1>3, <1>4, <1>5, <1>6 DEF ConsumerNext

(***************************************************************************)
(* The invariant holds in every reachable state.                           *)
(***************************************************************************)
THEOREM OutboxInvariant == Spec => []OutboxInv
<1>1. OutboxInv /\ [Next]_vars => OutboxInv'
  <2> SUFFICES ASSUME OutboxInv, [Next]_vars PROVE OutboxInv'
    OBVIOUS
  <2>1. CASE Next
    BY <2>1, WriterStep, RelayStep, ConsumerStep DEF Next
  <2>2. CASE UNCHANGED vars
    <3>1. Logged' = Logged
      BY <2>2 DEF vars, relayVars, Logged
    <3> QED
      BY <2>2, <3>1
      DEF vars, relayVars, consumerVars, writerVars, OutboxInv, TypeOK,
          RowsApart, RelaysHonest, NothingLost, PositionIsHandled
  <2> QED
    BY <2>1, <2>2
<1> QED
  BY OutboxInit, <1>1, PTL DEF Spec

(***************************************************************************)
(* Every variable of the pipeline keeps its type, and the consumer's       *)
(* offsets their order.                                                    *)
(***************************************************************************)
THEOREM OutboxTypeCorrect == Spec => []TypeOK
<1>1. OutboxInv => TypeOK
  BY DEF OutboxInv
<1> QED
  BY OutboxInvariant, <1>1, PTL

(***************************************************************************)
(* No committed row is lost, whatever the relays do and however often they *)
(* fail.                                                                   *)
(***************************************************************************)
THEOREM OutboxLosesNothing == Spec => []NothingLost
<1>1. OutboxInv => NothingLost
  BY DEF OutboxInv
<1> QED
  BY OutboxInvariant, <1>1, PTL

(***************************************************************************)
(* The committed offset covers handled records only.                       *)
(***************************************************************************)
THEOREM ConsumerSkipsNothing == Spec => []OffsetIsHandled
<1>1. OutboxInv => OffsetIsHandled
  BY DEF OutboxInv, TypeOK, PositionIsHandled, OffsetIsHandled
<1> QED
  BY OutboxInvariant, <1>1, PTL

(***************************************************************************)
(* Outbox, relays, log and consumer implement the at-least-once channel:   *)
(* Commit is its Post, HandleNext its Handle, every other step a stutter.  *)
(***************************************************************************)
THEOREM OutboxImplementsChannel == Spec => ImplementsChannel
<1>1. Init => Channel!Init
  BY DEF Init, Channel!Init
<1>2. OutboxInv /\ [Next]_vars => [Channel!Next]_(Channel!channelVars)
  <2> SUFFICES ASSUME OutboxInv, [Next]_vars
               PROVE  Channel!Next \/ (posted' = posted /\ handled' = handled)
    BY DEF Channel!channelVars
  <2>1. ASSUME NEW w \in Writers, Commit(w) PROVE Channel!Next
    <3>1. writing[w] \cap posted = {} /\ writing[w] \in SUBSET Rows
      BY DEF OutboxInv, RowsApart, TypeOK
    <3>2. Channel!Post(writing[w])
      BY <2>1, <3>1 DEF Commit, consumerVars, Channel!Post
    <3> QED
      BY <3>1, <3>2 DEF Channel!Next
  <2>2. ASSUME HandleNext PROVE Channel!Next
    <3>0. position + 1 \in 1..Len(log) /\ log \in Seq(Rows)
      BY <2>2 DEF HandleNext, OutboxInv, TypeOK
    <3>1. log[position + 1] \in posted /\ log[position + 1] \in Rows
      BY <3>0 DEF OutboxInv, RelaysHonest, Logged
    <3>2. Channel!Handle(log[position + 1])
      BY <2>2, <3>1 DEF HandleNext, writerVars, Channel!Handle
    <3> QED
      BY <3>1, <3>2 DEF Channel!Next
  <2>3. ASSUME NEW w \in Writers, Insert(w) \/ Rollback(w)
        PROVE  posted' = posted /\ handled' = handled
    BY <2>3 DEF Insert, Rollback, consumerVars
  <2>4. ASSUME NEW r \in Relays, RelayNext(r) \/ RelayFails(r)
        PROVE  posted' = posted /\ handled' = handled
    BY <2>4 DEF RelayNext, Lock, Send, Delete, RelayFails, writerVars, consumerVars
  <2>5. ASSUME Poll \/ CommitOffset \/ ConsumerFails
        PROVE  posted' = posted /\ handled' = handled
    BY <2>5 DEF Poll, CommitOffset, ConsumerFails, writerVars
  <2>6. ASSUME UNCHANGED vars PROVE posted' = posted /\ handled' = handled
    BY <2>6 DEF vars, writerVars, consumerVars
  <2> QED
    BY <2>1, <2>2, <2>3, <2>4, <2>5, <2>6 DEF Next, WriterNext, ConsumerNext
<1> QED
  BY <1>1, <1>2, OutboxInvariant, PTL DEF Spec, ImplementsChannel, Channel!Spec

-----------------------------------------------------------------------------
(* Causes and effects. *)

\* What a row comes after has a smaller id, and is committed with it at the
\* latest.
EarlierFirst ==
    /\ \A i \in posted : earlier[i] \subseteq posted
    /\ \A w \in Writers : \A i \in writing[w] :
          earlier[i] \subseteq posted \cup writing[w]
    /\ \A i \in Rows : i < nextRow => \A j \in earlier[i] : j < i

\* While relays take turns, the row one of them holds comes after sent ones.
HeldInOrder ==
    atOnce = 1 => \A r \in Relays : held[r] # 0 => earlier[held[r]] \subseteq Logged

CausesInv == OutboxInv /\ EarlierFirst /\ HeldInOrder /\ CausesFirst

LEMMA CausesInit == Init => CausesInv
<1> SUFFICES ASSUME Init PROVE CausesInv
  OBVIOUS
<1>1. EarlierFirst /\ HeldInOrder
  BY DEF Init, EarlierFirst, HeldInOrder, Rows
<1>2. CausesFirst
  BY DEF Init, CausesFirst
<1> QED
  BY <1>1, <1>2, OutboxInit DEF CausesInv

LEMMA CausesWriter ==
    ASSUME CausesInv, NEW w \in Writers, WriterNext(w)
    PROVE  EarlierFirst' /\ HeldInOrder' /\ CausesFirst'
<1>0. /\ writing \in [Writers -> SUBSET Rows] /\ posted \subseteq Rows
      /\ earlier \in [Rows -> SUBSET Rows]
      /\ log \in Seq(Rows) /\ Len(log) \in Nat
      /\ \A k \in 1..Len(log) : log[k] \in posted
      /\ \A r \in Relays : held[r] # 0 => held[r] \in posted
      /\ \A i \in posted : i < nextRow
      /\ \A v \in Writers : \A i \in writing[v] : i < nextRow /\ i \notin posted
      /\ nextRow \in 1..(MaxRows + 1)
  BY DEF CausesInv, OutboxInv, TypeOK, RowsApart, RelaysHonest, Logged
<1>1. /\ log' = log /\ held' = held /\ atOnce' = atOnce /\ Logged' = Logged
  BY DEF WriterNext, Insert, Commit, Rollback, relayVars, Logged
<1>2. CASE Insert(w)
  <2>1. /\ nextRow \in Rows /\ nextRow \in Nat /\ nextRow' = nextRow + 1
        /\ writing' = [writing EXCEPT ![w] = @ \cup {nextRow}]
        /\ earlier' = [earlier EXCEPT ![nextRow] = posted \cup writing[w]]
        /\ posted' = posted
    BY <1>2 DEF Insert, Rows
  <2>2. \A i \in Rows : i # nextRow => earlier'[i] = earlier[i]
    BY <1>0, <2>1
  <2>3. earlier'[nextRow] = posted \cup writing[w]
    BY <1>0, <2>1
  <2>4. \A i \in posted : earlier'[i] = earlier[i]
    BY <1>0, <2>1, <2>2 DEF Rows
  <2>5. \A i \in posted' : earlier'[i] \subseteq posted'
    BY <2>1, <2>4 DEF CausesInv, EarlierFirst
  <2>6. ASSUME NEW v \in Writers, NEW i \in writing'[v]
        PROVE  earlier'[i] \subseteq posted' \cup writing'[v]
    <3>1. writing[v] \subseteq writing'[v]
      BY <1>0, <2>1
    <3>2. CASE i \in writing[v]
      <4>1. earlier'[i] = earlier[i]
        BY <1>0, <2>1, <2>2, <3>2 DEF Rows
      <4> QED
        BY <2>1, <3>1, <3>2, <4>1 DEF CausesInv, EarlierFirst
    <3>3. CASE i \notin writing[v]
      <4>1. v = w /\ i = nextRow
        BY <1>0, <2>1, <2>6, <3>3
      <4> QED
        BY <2>1, <2>3, <3>1, <4>1
    <3> QED
      BY <3>2, <3>3
  <2>7. ASSUME NEW i \in Rows, i < nextRow', NEW j \in earlier'[i]
        PROVE  j < i
    <3>1. CASE i = nextRow
      BY <1>0, <2>3, <2>7, <3>1
    <3>2. CASE i # nextRow
      <4>1. i < nextRow
        BY <2>1, <2>7, <3>2 DEF Rows
      <4> QED
        BY <2>2, <2>7, <3>2, <4>1 DEF CausesInv, EarlierFirst
    <3> QED
      BY <3>1, <3>2
  <2>8. EarlierFirst'
    BY <2>5, <2>6, <2>7 DEF EarlierFirst
  <2>9. HeldInOrder'
    BY <1>0, <1>1, <2>4 DEF CausesInv, HeldInOrder
  <2>10. CausesFirst'
    BY <1>0, <1>1, <2>4 DEF CausesInv, CausesFirst
  <2> QED
    BY <2>8, <2>9, <2>10
<1>3. CASE Commit(w)
  <2>1. /\ earlier' = earlier /\ nextRow' = nextRow
        /\ posted' = posted \cup writing[w]
        /\ writing' = [writing EXCEPT ![w] = {}]
    BY <1>3 DEF Commit
  <2>2. EarlierFirst'
    BY <1>0, <2>1 DEF CausesInv, EarlierFirst
  <2>3. HeldInOrder'
    BY <1>1, <2>1 DEF CausesInv, HeldInOrder
  <2>4. CausesFirst'
    BY <1>1, <2>1 DEF CausesInv, CausesFirst
  <2> QED
    BY <2>2, <2>3, <2>4
<1>4. CASE Rollback(w)
  <2>1. /\ earlier' = earlier /\ nextRow' = nextRow /\ posted' = posted
        /\ writing' = [writing EXCEPT ![w] = {}]
    BY <1>4 DEF Rollback
  <2>2. EarlierFirst'
    BY <1>0, <2>1 DEF CausesInv, EarlierFirst
  <2>3. HeldInOrder'
    BY <1>1, <2>1 DEF CausesInv, HeldInOrder
  <2>4. CausesFirst'
    BY <1>1, <2>1 DEF CausesInv, CausesFirst
  <2> QED
    BY <2>2, <2>3, <2>4
<1> QED
  BY <1>2, <1>3, <1>4 DEF WriterNext

LEMMA CausesRelay ==
    ASSUME CausesInv, NEW r \in Relays, RelayNext(r) \/ RelayFails(r)
    PROVE  EarlierFirst' /\ HeldInOrder' /\ CausesFirst'
<1>0. /\ held \in [Relays -> {0} \cup Rows]
      /\ log \in Seq(Rows) /\ Len(log) \in Nat
      /\ outbox \subseteq Rows /\ outbox \subseteq posted
      /\ posted \subseteq outbox \cup Logged
      /\ \A i \in posted : i < nextRow
      /\ atOnce \in 1..2
      /\ earlier \in [Rows -> SUBSET Rows]
  BY DEF CausesInv, OutboxInv, TypeOK, RowsApart, RelaysHonest, NothingLost
<1>1. UNCHANGED writerVars
  BY DEF RelayNext, Lock, Send, Delete, RelayFails
<1>2. EarlierFirst'
  BY <1>1 DEF CausesInv, EarlierFirst, writerVars
<1>3. CASE Lock(r)
  <2>1. PICK i \in Rows : First(i, Free) /\ held' = [held EXCEPT ![r] = i]
    BY <1>3 DEF Lock
  <2>2. log' = log /\ Logged' = Logged /\ earlier' = earlier
    BY <1>1, <1>3 DEF Lock, Logged, writerVars
  <2>3. atOnce' = IF \E q \in Relays : held[q] # 0 THEN 2 ELSE atOnce
    BY <1>3 DEF Lock
  <2>4. ASSUME atOnce' = 1, NEW q \in Relays, held'[q] # 0
        PROVE  earlier[held'[q]] \subseteq Logged
    <3>1. \A p \in Relays : held[p] = 0
      BY <2>3, <2>4
    <3>2. q = r /\ held'[q] = i
      BY <1>0, <2>1, <2>4, <3>1
    <3>3. Free = outbox
      BY <1>0, <3>1 DEF Free, Rows
    <3>4. i \in outbox /\ \A j \in outbox : i <= j
      BY <2>1, <3>3 DEF First
    <3>5. earlier[i] \subseteq posted /\ \A j \in earlier[i] : j < i
      BY <1>0, <3>4 DEF CausesInv, EarlierFirst
    <3>6. \A j \in earlier[i] : j \in Nat /\ j \notin outbox
      BY <1>0, <3>4, <3>5 DEF Rows
    <3> QED
      BY <1>0, <3>2, <3>5, <3>6
  <2>5. HeldInOrder'
    BY <2>2, <2>4 DEF HeldInOrder
  <2>6. atOnce' = 1 => atOnce = 1
    BY <2>3
  <2> QED
    BY <1>2, <2>2, <2>5, <2>6 DEF CausesInv, CausesFirst
<1>4. CASE Send(r)
  <2>1. /\ log' = Append(log, held[r]) /\ held' = held /\ atOnce' = atOnce
        /\ held[r] \in Rows /\ held[r] # 0 /\ earlier' = earlier
    BY <1>0, <1>1, <1>4 DEF Send, writerVars
  <2>2. /\ Logged' = Logged \cup {held[r]}
        /\ Len(log') = Len(log) + 1
        /\ \A k \in 1..Len(log) : log'[k] = log[k]
    BY <1>0, <2>1, LoggedAppend
  <2>3. log'[Len(log) + 1] = held[r]
    BY <1>0, <2>1
  <2>4. HeldInOrder'
    BY <2>1, <2>2 DEF CausesInv, HeldInOrder
  <2>5. ASSUME atOnce = 1, NEW k \in 1..(Len(log) + 1), NEW i \in earlier[log'[k]]
        PROVE  \E j \in 1..(k - 1) : log'[j] = i
    <3>1. CASE k = Len(log) + 1
      <4>1. i \in Logged
        BY <2>1, <2>3, <2>5, <3>1 DEF CausesInv, HeldInOrder
      <4>2. PICK j \in 1..Len(log) : log[j] = i
        BY <4>1 DEF Logged
      <4>3. j \in 1..(k - 1) /\ log'[j] = i
        BY <1>0, <2>2, <3>1, <4>2
      <4> QED
        BY <4>3
    <3>2. CASE k \in 1..Len(log)
      <4>1. PICK j \in 1..(k - 1) : log[j] = i
        BY <2>2, <2>5, <3>2 DEF CausesInv, CausesFirst
      <4>2. log'[j] = i
        BY <1>0, <2>2, <3>2, <4>1
      <4> QED
        BY <4>2
    <3> QED
      BY <1>0, <3>1, <3>2
  <2>6. CausesFirst'
    BY <2>1, <2>2, <2>5 DEF CausesFirst
  <2> QED
    BY <1>2, <2>4, <2>6
<1>5. CASE Delete(r) \/ RelayFails(r)
  <2>1. /\ log' = log /\ Logged' = Logged /\ atOnce' = atOnce
        /\ held' = [held EXCEPT ![r] = 0] /\ earlier' = earlier
    BY <1>1, <1>5 DEF Delete, RelayFails, Logged, writerVars
  <2>2. HeldInOrder'
    BY <1>0, <2>1 DEF CausesInv, HeldInOrder
  <2> QED
    BY <1>2, <2>1, <2>2 DEF CausesInv, CausesFirst
<1> QED
  BY <1>3, <1>4, <1>5 DEF RelayNext

(***************************************************************************)
(* As long as relays take turns, no record overtakes one that its sender   *)
(* had committed, or inserted in the same transaction, before it           *)
(* (producer.rs:26-31): for any number of writers, failures and relays.    *)
(***************************************************************************)
THEOREM CausesBeforeEffects == Spec => []CausesFirst
<1>1. OutboxInv /\ CausesInv /\ [Next]_vars /\ OutboxInv' => CausesInv'
  <2> SUFFICES ASSUME CausesInv, [Next]_vars
               PROVE  EarlierFirst' /\ HeldInOrder' /\ CausesFirst'
    BY DEF CausesInv
  <2>1. CASE ConsumerNext \/ ConsumerFails \/ UNCHANGED vars
    <3>1. UNCHANGED <<writerVars, relayVars>>
      BY <2>1 DEF ConsumerNext, Poll, HandleNext, CommitOffset, ConsumerFails, vars
    <3>2. Logged' = Logged
      BY <3>1 DEF relayVars, Logged
    <3> QED
      BY <3>1, <3>2
      DEF CausesInv, EarlierFirst, HeldInOrder, CausesFirst, writerVars, relayVars
  <2> QED
    BY <2>1, CausesWriter, CausesRelay DEF Next
<1>2. CausesInv => CausesFirst
  BY DEF CausesInv
<1> QED
  BY <1>1, <1>2, CausesInit, OutboxInvariant, PTL DEF Spec

-----------------------------------------------------------------------------
(* Repeats. *)

\* Relays hold different rows, which stay in the outbox meanwhile.
HeldApart ==
    /\ \A r \in Relays : held[r] # 0 => held[r] \in outbox
    /\ \A q, r \in Relays : q # r /\ held[r] # 0 => held[q] # held[r]

\* The records that will be repeated: their rows are back in the outbox.
Due == {i \in outbox \cap Logged : \A r \in sent : held[r] # i}

RepeatsCounted ==
    Len(log) + Cardinality(Due) <= Cardinality(Logged) + relayFailures

RepeatsInv == OutboxInv /\ HeldApart /\ RepeatsCounted

\* Due and Logged are finite, and so have natural numbers for cardinalities.
LEMMA RowsFinite ==
    ASSUME OutboxInv
    PROVE  /\ IsFiniteSet(Due) /\ Cardinality(Due) \in Nat
           /\ IsFiniteSet(Logged) /\ Cardinality(Logged) \in Nat
           /\ Len(log) \in Nat /\ relayFailures \in Nat
<1>1. IsFiniteSet(Rows)
  BY RelayConstants, FS_Interval DEF Rows
<1>2. Logged \subseteq Rows /\ Len(log) \in Nat /\ relayFailures \in Nat
  BY RelayConstants DEF OutboxInv, TypeOK, RelaysHonest
<1>3. Due \subseteq Rows
  BY <1>2 DEF Due
<1> QED
  BY <1>1, <1>2, <1>3, FS_Subset, FS_CardinalityType

LEMMA RepeatsInit == Init => RepeatsInv
<1> SUFFICES ASSUME Init PROVE RepeatsInv
  OBVIOUS
<1>1. Logged = {} /\ Due = {} /\ Len(log) = 0
  BY DEF Init, Logged, Due
<1>2. HeldApart
  BY DEF Init, HeldApart
<1>3. RepeatsCounted
  BY <1>1, FS_EmptySet DEF Init, RepeatsCounted
<1> QED
  BY <1>2, <1>3, OutboxInit DEF RepeatsInv

\* Nothing is due that was not before.
LEMMA RepeatsKept ==
    ASSUME RepeatsInv, log' = log, relayFailures' = relayFailures,
           Due' \subseteq Due
    PROVE  RepeatsCounted'
<1>1. Logged' = Logged
  BY DEF Logged
<1>2. /\ IsFiniteSet(Due) /\ Cardinality(Due) \in Nat
      /\ Cardinality(Logged) \in Nat
      /\ Len(log) \in Nat /\ relayFailures \in Nat
  BY RowsFinite DEF RepeatsInv
<1>3. Cardinality(Due') <= Cardinality(Due) /\ Cardinality(Due') \in Nat
  BY <1>2, FS_Subset, FS_CardinalityType
<1> QED
  BY <1>1, <1>2, <1>3 DEF RepeatsInv, RepeatsCounted

LEMMA RepeatsWriter ==
    ASSUME RepeatsInv, NEW w \in Writers, WriterNext(w)
    PROVE  HeldApart' /\ RepeatsCounted'
<1>1. /\ log' = log /\ held' = held /\ sent' = sent
      /\ relayFailures' = relayFailures /\ outbox \subseteq outbox'
      /\ outbox' \subseteq outbox \cup writing[w]
  BY DEF WriterNext, Insert, Commit, Rollback, relayVars
<1>2. writing[w] \cap Logged = {}
  BY DEF RepeatsInv, OutboxInv, RowsApart, RelaysHonest
<1>3. Due' \subseteq Due
  BY <1>1, <1>2 DEF Due, Logged
<1>4. HeldApart'
  BY <1>1 DEF RepeatsInv, HeldApart
<1> QED
  BY <1>1, <1>3, <1>4, RepeatsKept

LEMMA RepeatsRelay ==
    ASSUME RepeatsInv, NEW r \in Relays, RelayNext(r) \/ RelayFails(r)
    PROVE  HeldApart' /\ RepeatsCounted'
<1>0. /\ held \in [Relays -> {0} \cup Rows] /\ sent \subseteq Relays
      /\ outbox \subseteq Rows /\ log \in Seq(Rows) /\ 0 \notin Rows
      /\ \A q \in sent : held[q] # 0
      /\ HeldApart
  BY DEF RepeatsInv, OutboxInv, TypeOK, RelaysHonest, Rows
<1>1. /\ IsFiniteSet(Due) /\ Cardinality(Due) \in Nat
      /\ IsFiniteSet(Logged) /\ Cardinality(Logged) \in Nat
      /\ Len(log) \in Nat /\ relayFailures \in Nat
      /\ Len(log) + Cardinality(Due) <= Cardinality(Logged) + relayFailures
  BY RowsFinite DEF RepeatsInv, RepeatsCounted
<1>2. CASE Lock(r)
  <2>1. PICK i \in Rows : First(i, Free) /\ held' = [held EXCEPT ![r] = i]
    BY <1>2 DEF Lock
  <2>2. /\ held[r] = 0 /\ outbox' = outbox /\ sent' = sent /\ log' = log
        /\ relayFailures' = relayFailures
    BY <1>2 DEF Lock
  <2>3. i \in outbox /\ \A q \in Relays : held[q] # i
    BY <2>1 DEF First, Free
  <2>4. HeldApart'
    BY <1>0, <2>1, <2>2, <2>3 DEF HeldApart
  <2>5. r \notin sent
    BY <1>0, <2>2
  <2>6. Due' \subseteq Due
    BY <1>0, <2>1, <2>2, <2>5 DEF Due, Logged
  <2> QED
    BY <2>2, <2>4, <2>6, RepeatsKept
<1>3. CASE Send(r)
  <2>1. /\ held[r] \in Rows /\ r \notin sent /\ log' = Append(log, held[r])
        /\ sent' = sent \cup {r} /\ held' = held /\ outbox' = outbox
        /\ relayFailures' = relayFailures
    BY <1>0, <1>3 DEF Send
  <2>2. held[r] \in outbox /\ \A q \in sent : held[q] # held[r]
    BY <1>0, <2>1 DEF HeldApart
  <2>3. Logged' = Logged \cup {held[r]} /\ Len(log') = Len(log) + 1
    BY <1>0, <2>1, LoggedAppend
  <2>4. HeldApart'
    BY <1>0, <2>1 DEF HeldApart
  <2>5. Due' = Due \ {held[r]}
    BY <2>1, <2>2, <2>3 DEF Due
  <2>6. CASE held[r] \in Logged
    <3>1. held[r] \in Due /\ Logged' = Logged
      BY <2>2, <2>3, <2>6 DEF Due
    <3>2. Cardinality(Due') = Cardinality(Due) - 1
      BY <1>1, <2>5, <3>1, FS_RemoveElement
    <3>3. Cardinality(Logged') = Cardinality(Logged)
      BY <3>1
    <3>4. RepeatsCounted'
      BY <1>1, <2>1, <2>3, <3>2, <3>3 DEF RepeatsCounted
    <3> QED
      BY <2>4, <3>4
  <2>7. CASE held[r] \notin Logged
    <3>1. Due' = Due
      BY <2>5, <2>7 DEF Due
    <3>2. Cardinality(Logged') = Cardinality(Logged) + 1
      BY <1>1, <2>3, <2>7, FS_AddElement
    <3> QED
      BY <1>1, <2>1, <2>3, <2>4, <3>1, <3>2 DEF RepeatsCounted
  <2> QED
    BY <2>6, <2>7
<1>4. CASE Delete(r)
  <2>1. /\ outbox' = outbox \ {held[r]} /\ held' = [held EXCEPT ![r] = 0]
        /\ sent' = sent \ {r} /\ log' = log /\ r \in sent
        /\ relayFailures' = relayFailures
    BY <1>4 DEF Delete, MayDelete
  <2>2. HeldApart'
    BY <1>0, <2>1 DEF HeldApart
  <2>3. Due' \subseteq Due
    <3> SUFFICES ASSUME NEW i \in Due' PROVE i \in Due
      OBVIOUS
    <3>1. i \in outbox /\ i # held[r] /\ i \in Logged
      BY <2>1 DEF Due, Logged
    <3>2. \A q \in sent : q # r => q \in sent' /\ held'[q] = held[q]
      BY <1>0, <2>1
    <3> QED
      BY <3>1, <3>2 DEF Due
  <2> QED
    BY <2>1, <2>2, <2>3, RepeatsKept
<1>5. CASE RelayFails(r)
  <2>1. /\ outbox' = outbox /\ held' = [held EXCEPT ![r] = 0]
        /\ sent' = sent \ {r} /\ log' = log
        /\ relayFailures' = relayFailures + 1
    BY <1>5 DEF RelayFails
  <2>2. HeldApart'
    BY <1>0, <2>1 DEF HeldApart
  <2>3. Logged' = Logged
    BY <2>1 DEF Logged
  <2>4. Due' \subseteq Due \cup {held[r]}
    <3> SUFFICES ASSUME NEW i \in Due', i # held[r] PROVE i \in Due
      OBVIOUS
    <3>1. i \in outbox /\ i \in Logged
      BY <2>1, <2>3 DEF Due
    <3>2. \A q \in sent : q # r => q \in sent' /\ held'[q] = held[q]
      BY <1>0, <2>1
    <3> QED
      BY <3>1, <3>2 DEF Due
  <2>5. /\ IsFiniteSet(Due \cup {held[r]})
        /\ Cardinality(Due \cup {held[r]}) <= Cardinality(Due) + 1
    <3> DEFINE i == held[r]
    <3>1. /\ IsFiniteSet(Due \cup {i})
          /\ Cardinality(Due \cup {i}) =
               IF i \in Due THEN Cardinality(Due) ELSE Cardinality(Due) + 1
      <4> HIDE DEF i
      <4> QED
        BY <1>1, FS_AddElement
    <3> QED
      BY <1>1, <3>1
  <2>6. /\ Cardinality(Due') \in Nat
        /\ Cardinality(Due') <= Cardinality(Due \cup {held[r]})
        /\ Cardinality(Due \cup {held[r]}) \in Nat
    BY <2>4, <2>5, FS_Subset, FS_CardinalityType
  <2> QED
    BY <1>1, <2>1, <2>2, <2>3, <2>5, <2>6 DEF RepeatsCounted
<1> QED
  BY <1>2, <1>3, <1>4, <1>5 DEF RelayNext

(***************************************************************************)
(* The log is never longer than the set of its records plus the failures   *)
(* of relays, however many relays work side by side (producer.rs:26-46).   *)
(***************************************************************************)
THEOREM RepeatsPaidFor == Spec => []RepeatsArePaid
<1>1. RepeatsInv /\ [Next]_vars /\ OutboxInv' => RepeatsInv'
  <2> SUFFICES ASSUME RepeatsInv, [Next]_vars PROVE HeldApart' /\ RepeatsCounted'
    BY DEF RepeatsInv
  <2>1. CASE ConsumerNext \/ ConsumerFails \/ UNCHANGED vars
    <3>1. UNCHANGED relayVars
      BY <2>1 DEF ConsumerNext, Poll, HandleNext, CommitOffset, ConsumerFails, vars
    <3>2. Due' = Due
      BY <3>1 DEF relayVars, Due, Logged
    <3>3. HeldApart'
      BY <3>1 DEF relayVars, RepeatsInv, HeldApart
    <3>4. log' = log /\ relayFailures' = relayFailures /\ Due' \subseteq Due
      BY <3>1, <3>2 DEF relayVars
    <3> QED
      BY <3>3, <3>4, RepeatsKept
  <2> QED
    BY <2>1, RepeatsWriter, RepeatsRelay DEF Next
<1>2. RepeatsInv => RepeatsArePaid
  BY RowsFinite DEF RepeatsInv, RepeatsCounted, RepeatsArePaid
<1> QED
  BY <1>1, <1>2, RepeatsInit, OutboxInvariant, PTL DEF Spec
=============================================================================
