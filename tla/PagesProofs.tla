----------------------------- MODULE PagesProofs -----------------------------
(***************************************************************************)
(* Paging through the orders, for any number of orders, times and page     *)
(* sizes, while orders are created and decided: the pages are one list     *)
(* without repeats, and a client that asks for the orders of its consumer  *)
(* misses none that has matched all the time.  What makes it so is that    *)
(* the order of the query is total on orders that exist, that a page is    *)
(* a beginning of what comes after the cursor, and that created_at never   *)
(* changes.                                                                *)
(***************************************************************************)
EXTENDS OrderPages, FiniteSetTheorems, WellFoundedInduction, TLAPS

Rows == [created : Times, mine : BOOLEAN, state : States]

PagesTypeOK ==
    /\ table \in [Orders -> {NoOrder} \cup Rows]
    /\ request \in Requests \cup {NoRequest}
    /\ seen \in Seq(Orders)
    /\ done \in BOOLEAN
    /\ atStart \subseteq Existing

\* Orders are created one by one.
Finite == IsFiniteSet(Existing)

SeenExist == \A i \in 1..Len(seen) : seen[i] \in Existing

NotStarted == request = NoRequest => seen = <<>> /\ ~done

\* Order o comes after the orders on the pages.
StillAhead(o) == seen # <<>> => Precedes(seen[Len(seen)], o)

(***************************************************************************)
(* The cursor has not gone past an order of the consumer that has matched  *)
(* all the time and is on no page.                                         *)
(***************************************************************************)
CursorSound ==
    request # NoRequest /\ request.consumer =>
        \A o \in Expected : o \in SeenSet \/ StillAhead(o)

\* An order that matched a query for a decision matches for ever.
DecidedStay ==
    request # NoRequest =>
        \A o \in atStart : request.state \in Decisions =>
                              table[o].state = request.state

PagesInv ==
    /\ PagesTypeOK
    /\ Finite
    /\ SeenExist
    /\ DecidedStay
    /\ NotStarted
    /\ PagesAreOneList
    /\ CursorSound
    /\ NothingSkipped

-----------------------------------------------------------------------------
(* The order of the query. *)

LEMMA RowType ==
    ASSUME PagesTypeOK, NEW o \in Existing
    PROVE  /\ o \in Orders /\ o \in Nat
           /\ table[o] \in Rows /\ table[o].created \in Nat
           /\ table[o].mine \in BOOLEAN /\ table[o].state \in States
<1>1. o \in Orders /\ table[o] \in Rows
  BY DEF PagesTypeOK, Existing
<1> QED BY <1>1, PageConstants DEF Rows

LEMMA PrecedesIsTotal ==
    ASSUME PagesTypeOK
    PROVE  /\ \A o \in Existing : ~Precedes(o, o)
           /\ \A o, p \in Existing : o # p => Precedes(o, p) \/ Precedes(p, o)
           /\ \A o, p, r \in Existing :
                 Precedes(o, p) /\ Precedes(p, r) => Precedes(o, r)
           /\ \A o, p \in Existing : After(o, p) <=> Precedes(p, o)
<1>1. \A o \in Existing : o \in Nat /\ table[o].created \in Nat
  BY RowType
<1>2. \A o \in Existing : ~Precedes(o, o)
  BY <1>1 DEF Precedes
<1>3. \A o, p \in Existing : o # p => Precedes(o, p) \/ Precedes(p, o)
  BY <1>1 DEF Precedes
<1>4. \A o, p, r \in Existing : Precedes(o, p) /\ Precedes(p, r) => Precedes(o, r)
  BY <1>1 DEF Precedes
<1>5. \A o, p \in Existing : After(o, p) <=> Precedes(p, o)
  BY <1>1 DEF Precedes, After
<1> QED BY <1>2, <1>3, <1>4, <1>5

LEMMA LeastNumber ==
    ASSUME NEW S \in SUBSET Nat, S # {}
    PROVE  \E n \in S : \A m \in S : n <= m
<1>1. PICK n \in S : \A m \in S : <<m, n>> \notin OpToRel(<, Nat)
  BY NatLessThanWellFounded, WFMin
<1>2. \A m \in S : ~(m < n)
  BY <1>1 DEF OpToRel
<1> QED BY <1>2

\* The orders of S before o.
Preceding(o, S) == {p \in S : Precedes(p, o)}

LEMMA PrecedingIsFinite ==
    ASSUME Finite, NEW S \in SUBSET Existing, NEW o
    PROVE  /\ IsFiniteSet(Preceding(o, S))
           /\ Cardinality(Preceding(o, S)) \in Nat
<1>1. Preceding(o, S) \in SUBSET Existing
  BY DEF Preceding
<1> QED BY <1>1, FS_Subset, FS_CardinalityType DEF Finite

\* There are fewer orders before an earlier order.
LEMMA FewerPrecede ==
    ASSUME PagesTypeOK, Finite, NEW S \in SUBSET Existing,
           NEW o \in S, NEW p \in S, Precedes(o, p)
    PROVE  Cardinality(Preceding(o, S)) < Cardinality(Preceding(p, S))
<1> DEFINE O == Preceding(o, S)
           P == Preceding(p, S)
<1>1. O \subseteq P
  BY PrecedesIsTotal DEF Preceding
<1>2. o \in P /\ o \notin O
  BY PrecedesIsTotal DEF Preceding
<1>3. /\ IsFiniteSet(O) /\ IsFiniteSet(P)
      /\ Cardinality(O) \in Nat /\ Cardinality(P) \in Nat
  BY PrecedingIsFinite
<1> HIDE DEF O, P
<1>4. O \in SUBSET P
  BY <1>1
<1>5. Cardinality(O) <= Cardinality(P) /\ (Cardinality(P) = Cardinality(O) => P = O)
  BY <1>3, <1>4, FS_Subset
<1>6. P # O
  BY <1>2
<1>7. Cardinality(O) < Cardinality(P)
  BY <1>3, <1>5, <1>6
<1> QED BY <1>7 DEF O, P

LEMMA FirstExists ==
    ASSUME PagesTypeOK, Finite, NEW S \in SUBSET Existing, S # {}
    PROVE  \E f \in S : Preceding(f, S) = {}
<1> DEFINE Counts == {Cardinality(Preceding(o, S)) : o \in S}
<1>1. Counts \in SUBSET Nat /\ Counts # {}
  BY PrecedingIsFinite
<1>2. PICK n \in Counts : \A m \in Counts : n <= m
  BY <1>1, LeastNumber
<1>3. PICK f \in S : n = Cardinality(Preceding(f, S))
  BY <1>2
<1>4. ASSUME NEW p \in Preceding(f, S) PROVE FALSE
  <2>1. p \in S /\ Precedes(p, f)
    BY <1>4 DEF Preceding
  <2>2. Cardinality(Preceding(p, S)) < n
    BY <1>3, <2>1, FewerPrecede
  <2>3. n <= Cardinality(Preceding(p, S))
    BY <1>2, <2>1
  <2>4. Cardinality(Preceding(p, S)) \in Nat /\ n \in Nat
    BY <1>1, <1>2, PrecedingIsFinite
  <2> QED BY <2>2, <2>3, <2>4
<1> QED BY <1>4

-----------------------------------------------------------------------------
(* The query answers with a list. *)

LEMMA ListExists ==
    ASSUME PagesTypeOK, Finite, NEW S \in SUBSET Existing
    PROVE  \E s \in [1..Cardinality(S) -> S] : Lists(s, S)
<1> DEFINE HasList(T) == \E s \in [1..Cardinality(T) -> T] : Lists(s, T)
           Without == {T \in SUBSET Existing : ~HasList(T)}
           Sizes == {Cardinality(T) : T \in Without}
<1>1. \A T \in SUBSET Existing : IsFiniteSet(T) /\ Cardinality(T) \in Nat
  BY FS_Subset, FS_CardinalityType DEF Finite
<1>2. SUFFICES ASSUME Without # {} PROVE FALSE
  OBVIOUS
<1>3. Sizes \in SUBSET Nat /\ Sizes # {}
  BY <1>1, <1>2
<1>4. PICK n \in Sizes : \A m \in Sizes : n <= m
  BY <1>3, LeastNumber
<1>5. PICK T \in SUBSET Existing : n = Cardinality(T) /\ ~HasList(T)
  BY <1>4
<1>6. T # {}
  <2> SUFFICES ASSUME T = {} PROVE HasList(T)
    BY <1>5
  <2>1. Cardinality(T) = 0
    BY FS_EmptySet
  <2>2. \A i \in 1..Cardinality(T) : FALSE
    BY <2>1
  <2>3. [i \in 1..Cardinality(T) |-> i] \in [1..Cardinality(T) -> T]
    BY <2>2
  <2>4. Lists([i \in 1..Cardinality(T) |-> i], T)
    BY <2>2 DEF Lists
  <2> QED BY <2>3, <2>4
<1>7. PICK f \in T : Preceding(f, T) = {}
  BY <1>6, FirstExists
<1> DEFINE R == T \ {f}
<1>8. n \in Nat /\ n >= 1 /\ Cardinality(R) = n - 1 /\ R \in SUBSET Existing
  <2>1. IsFiniteSet(T) /\ Cardinality(T) \in Nat
    BY <1>1
  <2>2. Cardinality(T) # 0
    BY <1>6, <2>1, FS_EmptySet
  <2>3. Cardinality(R) = Cardinality(T) - 1
    BY <2>1, FS_RemoveElement
  <2> QED BY <1>5, <2>1, <2>2, <2>3
<1>9. HasList(R)
  <2> SUFFICES ASSUME ~HasList(R) PROVE FALSE
    OBVIOUS
  <2>1. Cardinality(R) \in Sizes
    BY <1>8
  <2> QED BY <1>4, <1>8, <2>1
<1>10. PICK r \in [1..(n - 1) -> R] :
           /\ \A o \in R : \E i \in 1..(n - 1) : r[i] = o
           /\ \A i, j \in 1..(n - 1) : i < j => Precedes(r[i], r[j])
  BY <1>8, <1>9 DEF Lists
<1> DEFINE s == [i \in 1..n |-> IF i = 1 THEN f ELSE r[i - 1]]
<1>11. \A i \in 1..n : i # 1 => i - 1 \in 1..(n - 1)
  BY <1>8
<1>12. s \in [1..n -> T]
  BY <1>10, <1>11
<1>13. ASSUME NEW o \in T PROVE \E i \in 1..n : s[i] = o
  <2>1. CASE o = f
    BY <1>8, <2>1
  <2>2. CASE o # f
    <3>1. PICK i \in 1..(n - 1) : r[i] = o
      BY <1>10, <2>2
    <3>2. i + 1 \in 1..n /\ i + 1 # 1 /\ (i + 1) - 1 = i
      BY <1>8
    <3> QED BY <3>1, <3>2
  <2> QED BY <2>1, <2>2
<1>14. ASSUME NEW i \in 1..n, NEW j \in 1..n, i < j
       PROVE  Precedes(s[i], s[j])
  <2>1. j # 1 /\ j - 1 \in 1..(n - 1) /\ s[j] = r[j - 1]
    BY <1>8, <1>14
  <2>2. CASE i = 1
    <3>1. s[i] = f /\ r[j - 1] \in R
      BY <1>10, <2>1, <2>2
    <3>2. r[j - 1] \in Existing /\ f \in Existing /\ r[j - 1] # f
      BY <3>1
    <3>3. ~Precedes(r[j - 1], f)
      BY <1>7, <3>1 DEF Preceding
    <3>4. Precedes(f, r[j - 1])
      BY <3>2, <3>3, PrecedesIsTotal
    <3> QED BY <2>1, <3>1, <3>4
  <2>3. CASE i # 1
    <3>1. i - 1 \in 1..(n - 1) /\ s[i] = r[i - 1] /\ i - 1 < j - 1
      BY <1>8, <1>14, <2>3
    <3> QED BY <1>10, <2>1, <3>1
  <2> QED BY <2>2, <2>3
<1> HIDE DEF s
<1>15. Lists(s, T)
  BY <1>5, <1>13, <1>14 DEF Lists
<1> QED BY <1>5, <1>12, <1>15

\* A page, as a sequence.
LEMMA ListedIs ==
    ASSUME PagesTypeOK, Finite, NEW S \in SUBSET Existing
    PROVE  \E s \in Seq(S) :
              /\ s = Listed(S)
              /\ s = <<>> <=> S = {}
              /\ \A i \in 1..Len(s) : s[i] \in S
              /\ \A o \in S : \E i \in 1..Len(s) : s[i] = o
              /\ \A i, j \in 1..Len(s) : i < j => Precedes(s[i], s[j])
<1> DEFINE n == Cardinality(S)
<1>1. \E s \in [1..n -> S] : Lists(s, S)
  BY ListExists
<1>2. Listed(S) \in [1..n -> S] /\ Lists(Listed(S), S)
  BY <1>1 DEF Listed
<1>3. n \in Nat
  BY FS_Subset, FS_CardinalityType DEF Finite
<1> HIDE DEF n
<1>4. PICK s \in [1..n -> S] : s = Listed(S) /\ Lists(s, S)
  BY <1>2
<1>5. s \in Seq(S) /\ Len(s) = n
  BY <1>3
<1>6. /\ \A o \in S : \E i \in 1..Len(s) : s[i] = o
      /\ \A i, j \in 1..Len(s) : i < j => Precedes(s[i], s[j])
  BY <1>4, <1>5 DEF Lists, n
<1>7. s = <<>> => S = {}
  <2> SUFFICES ASSUME s = <<>>, NEW o \in S PROVE FALSE
    OBVIOUS
  <2>1. Len(s) = 0
    OBVIOUS
  <2> QED BY <1>6, <2>1
<1>8. S = {} => s = <<>>
  BY <1>5
<1> QED BY <1>4, <1>5, <1>6, <1>7, <1>8

\* The limit takes a beginning of what there is, and something if it can and
\* is not 0.
LEMMA LimitedIsBeginning ==
    ASSUME PagesTypeOK, Finite, request # NoRequest, NEW C \in SUBSET Existing
    PROVE  /\ Limited(C) \in SUBSET C
           /\ C # {} /\ request.first > 0 => Limited(C) # {}
           /\ \A o \in C, p \in Limited(C) : Precedes(o, p) => o \in Limited(C)
<1>1. request.first \in Nat
  BY PageConstants DEF PagesTypeOK, Requests
<1>2. \A o \in C : o \in Limited(C) <=> Cardinality(Preceding(o, C)) < request.first
  BY DEF Limited, Preceding
<1>3. Limited(C) \in SUBSET C
  BY DEF Limited
<1>4. ASSUME C # {}, request.first > 0 PROVE Limited(C) # {}
  <2>1. PICK f \in C : Preceding(f, C) = {}
    BY <1>4, FirstExists
  <2>2. Cardinality(Preceding(f, C)) = 0
    BY <2>1, FS_EmptySet
  <2> QED BY <1>1, <1>2, <1>4, <2>2
<1>5. ASSUME NEW o \in C, NEW p \in Limited(C), Precedes(o, p)
      PROVE  o \in Limited(C)
  <2>1. p \in C
    BY <1>3
  <2>2. Cardinality(Preceding(o, C)) < Cardinality(Preceding(p, C))
    BY <1>5, <2>1, FewerPrecede
  <2>3. Cardinality(Preceding(p, C)) < request.first
    BY <1>2, <2>1
  <2>4. Cardinality(Preceding(o, C)) \in Nat /\ Cardinality(Preceding(p, C)) \in Nat
    BY PrecedingIsFinite
  <2>5. Cardinality(Preceding(o, C)) < request.first
    BY <1>1, <2>2, <2>3, <2>4
  <2> QED BY <1>2, <2>5
<1> QED BY <1>3, <1>4, <1>5

-----------------------------------------------------------------------------
(* The steps. *)

\* Orders are created and decided; what the query sorts by stays.
LEMMA TableGrows ==
    ASSUME PagesTypeOK, Finite, NEW o \in Orders, CreateOrder(o) \/ DecideOrder(o)
    PROVE  /\ PagesTypeOK' /\ Finite' /\ Existing \subseteq Existing'
           /\ \A p \in Existing :
                 /\ table'[p].created = table[p].created
                 /\ table'[p].mine = table[p].mine
                 /\ table'[p].state # table[p].state =>
                        /\ table[p].state = "ApprovalPending"
                        /\ table'[p].state \in Decisions
           /\ UNCHANGED <<request, seen, done, atStart>>
<1>1. UNCHANGED <<request, seen, done, atStart>>
  BY DEF CreateOrder, DecideOrder
<1>2. \A t \in Times : t \in Nat
  BY PageConstants
<1>3. PICK row \in Rows :
          /\ table' = [table EXCEPT ![o] = row]
          /\ table[o] # NoOrder =>
                /\ row.created = table[o].created /\ row.mine = table[o].mine
                /\ table[o].state = "ApprovalPending" /\ row.state \in Decisions
  <2>1. CASE CreateOrder(o)
    <3>1. PICK t \in Times, mine \in BOOLEAN :
              table' = [table EXCEPT ![o] =
                  [created |-> t, mine |-> mine, state |-> "ApprovalPending"]]
      BY <2>1 DEF CreateOrder
    <3>2. [created |-> t, mine |-> mine, state |-> "ApprovalPending"] \in Rows
      BY DEF Rows, States
    <3> QED BY <2>1, <3>1, <3>2 DEF CreateOrder
  <2>2. CASE DecideOrder(o)
    <3>1. PICK s \in Decisions : table' = [table EXCEPT ![o].state = s]
      BY <2>2 DEF DecideOrder
    <3>2. table[o] # NoOrder /\ table[o].state = "ApprovalPending"
      BY <2>2 DEF DecideOrder
    <3>3. table[o] \in Rows
      BY <3>2 DEF PagesTypeOK
    <3> DEFINE row == [table[o] EXCEPT !.state = s]
    <3>4. /\ row \in Rows /\ row.state = s
          /\ row.created = table[o].created /\ row.mine = table[o].mine
      BY <3>3 DEF Rows, States, Decisions
    <3>5. table' = [table EXCEPT ![o] = row]
      BY <3>1
    <3> QED BY <3>2, <3>4, <3>5
  <2> QED BY <2>1, <2>2
<1>4. table \in [Orders -> {NoOrder} \cup Rows]
  BY DEF PagesTypeOK
<1>5. /\ table' \in [Orders -> {NoOrder} \cup Rows]
      /\ table'[o] = row /\ \A p \in Orders : p # o => table'[p] = table[p]
  BY <1>3, <1>4
<1>6. row # NoOrder
  <2>1. row.created \in Nat
    BY <1>2 DEF Rows
  <2>2. NoOrder.created = -1
    BY DEF NoOrder
  <2> QED BY <2>1, <2>2
<1>7. Existing' = Existing \cup {o}
  BY <1>5, <1>6 DEF Existing
<1>8. Finite'
  BY <1>7, FS_AddElement DEF Finite
<1>9. PagesTypeOK'
  BY <1>1, <1>5, <1>7 DEF PagesTypeOK
<1>10. ASSUME NEW p \in Existing
       PROVE  /\ table'[p].created = table[p].created
              /\ table'[p].mine = table[p].mine
              /\ table'[p].state # table[p].state =>
                     /\ table[p].state = "ApprovalPending"
                     /\ table'[p].state \in Decisions
  <2>1. p \in Orders /\ table[p] # NoOrder
    BY DEF Existing
  <2>2. CASE p = o
    BY <1>3, <1>5, <2>1, <2>2
  <2>3. CASE p # o
    BY <1>5, <2>1, <2>3
  <2> QED BY <2>2, <2>3
<1> QED BY <1>1, <1>7, <1>8, <1>9, <1>10

LEMMA TableInv ==
    ASSUME PagesInv, NEW o \in Orders, CreateOrder(o) \/ DecideOrder(o)
    PROVE  PagesInv'
<1>1. /\ PagesTypeOK' /\ Finite' /\ Existing \subseteq Existing'
      /\ \A p \in Existing :
            /\ table'[p].created = table[p].created
            /\ table'[p].mine = table[p].mine
            /\ table'[p].state # table[p].state =>
                   /\ table[p].state = "ApprovalPending"
                   /\ table'[p].state \in Decisions
      /\ UNCHANGED <<request, seen, done, atStart>>
  BY TableGrows DEF PagesInv
<1>2. \A p, r \in Existing : Precedes(p, r)' <=> Precedes(p, r)
  BY <1>1 DEF Precedes
<1>3. \A i \in 1..Len(seen) : seen[i] \in Existing
  BY DEF PagesInv, SeenExist
<1>4. SeenExist' /\ NotStarted'
  BY <1>1, <1>3 DEF PagesInv, SeenExist, NotStarted
<1>5. PagesAreOneList'
  <2> SUFFICES ASSUME NEW i \in 1..Len(seen), NEW j \in 1..Len(seen), i < j
               PROVE  Precedes(seen[i], seen[j])'
    BY <1>1 DEF PagesAreOneList
  <2>1. Precedes(seen[i], seen[j])
    BY DEF PagesInv, PagesAreOneList
  <2>2. PICK p \in Existing, r \in Existing : p = seen[i] /\ r = seen[j]
    BY <1>3
  <2>3. Precedes(p, r)'
    BY <1>2, <2>1, <2>2
  <2> QED BY <1>1, <2>2, <2>3 DEF Precedes
<1>6. atStart \subseteq Existing
  BY DEF PagesInv, PagesTypeOK
<1>7. DecidedStay'
  BY <1>1, <1>6 DEF PagesInv, DecidedStay, Decisions
<1>8. request # NoRequest => request \in Requests
  BY DEF PagesInv, PagesTypeOK
<1>9. ASSUME request # NoRequest PROVE Expected' \subseteq Expected
  <2> SUFFICES ASSUME NEW p \in Expected' PROVE p \in Expected
    OBVIOUS
  <2>1. p \in atStart /\ p \in Existing
    BY <1>1, <1>6 DEF Expected
  <2>2. table[p].mine
    BY <1>1, <2>1 DEF Expected
  <2>3. request.state = "any" \/ table'[p].state = request.state
    BY <1>1 DEF Expected, Matching
  <2>4. CASE table'[p].state = table[p].state
    BY <2>1, <2>2, <2>3, <2>4 DEF Expected, Matching
  <2>5. CASE table'[p].state # table[p].state
    <3>1. /\ table[p].state = "ApprovalPending"
          /\ table'[p].state \in Decisions
      BY <1>1, <2>1, <2>5
    <3>2. request.state \notin Decisions
      BY <1>9, <2>1, <3>1 DEF PagesInv, DecidedStay, Decisions
    <3>3. request.state = "any"
      BY <2>3, <3>1, <3>2
    <3> QED BY <2>1, <2>2, <3>3 DEF Expected, Matching
  <2> QED BY <2>4, <2>5
<1>10. CursorSound'
  <2> SUFFICES ASSUME request # NoRequest, request.consumer, NEW p \in Expected'
               PROVE  p \in SeenSet \/ StillAhead(p)'
    BY <1>1 DEF CursorSound, SeenSet
  <2>1. p \in Expected /\ p \in Existing
    BY <1>6, <1>9 DEF Expected
  <2>2. p \in SeenSet \/ StillAhead(p)
    BY <2>1 DEF PagesInv, CursorSound
  <2>3. CASE seen # <<>>
    <3>1. Len(seen) \in 1..Len(seen)
      BY <2>3 DEF PagesInv, PagesTypeOK
    <3>2. PICK l \in Existing : l = seen[Len(seen)]
      BY <1>3, <3>1
    <3>3. StillAhead(p) => Precedes(l, p)
      BY <2>3, <3>2 DEF StillAhead
    <3>4. Precedes(l, p) => Precedes(l, p)'
      BY <1>2, <2>1
    <3>5. Precedes(l, p)' => StillAhead(p)'
      BY <1>1, <3>2 DEF StillAhead, Precedes
    <3> QED BY <2>2, <3>3, <3>4, <3>5
  <2>4. CASE seen = <<>>
    BY <1>1, <2>4 DEF StillAhead
  <2> QED BY <2>3, <2>4
<1>11. NothingSkipped'
  <2> SUFFICES ASSUME done, request.consumer, request.first > 0
               PROVE  Expected' \subseteq SeenSet
    BY <1>1 DEF NothingSkipped, SeenSet
  <2>1. request # NoRequest
    BY DEF PagesInv, NotStarted
  <2>2. Expected \subseteq SeenSet
    BY DEF PagesInv, NothingSkipped
  <2> QED BY <1>9, <2>1, <2>2
<1> QED BY <1>1, <1>4, <1>5, <1>7, <1>10, <1>11 DEF PagesInv

\* The list starts empty, and with the query's first answer still to come.
LEMMA StartInv ==
    ASSUME PagesInv, NEW q \in Requests, StartPaging(q)
    PROVE  PagesInv'
<1>1. /\ request = NoRequest /\ request' = q /\ atStart' = Matching(q)
      /\ UNCHANGED <<table, seen, done>>
  BY DEF StartPaging
<1>2. seen = <<>> /\ ~done
  BY <1>1 DEF PagesInv, NotStarted
<1>3. Existing' = Existing /\ Matching(q) \subseteq Existing
  BY <1>1 DEF Existing, Matching
<1>4. PagesTypeOK' /\ Finite'
  BY <1>1, <1>3 DEF PagesInv, PagesTypeOK, Finite
<1>5. q # NoRequest
  <2>1. q.first \in 0..MaxFirst
    BY DEF Requests
  <2>2. NoRequest.first = -1 /\ -1 \notin 0..MaxFirst
    BY PageConstants DEF NoRequest
  <2> QED BY <2>1, <2>2
<1>6. SeenExist' /\ NotStarted' /\ PagesAreOneList'
  BY <1>1, <1>2, <1>3, <1>5
  DEF PagesInv, SeenExist, NotStarted, PagesAreOneList, Precedes
<1>7. DecidedStay'
  BY <1>1 DEF DecidedStay, Matching, Decisions
<1>8. CursorSound' /\ NothingSkipped'
  BY <1>1, <1>2 DEF CursorSound, StillAhead, NothingSkipped
<1> QED BY <1>4, <1>6, <1>7, <1>8 DEF PagesInv

\* What is on the next page.
LEMMA PageIs ==
    ASSUME PagesInv, NextPage
    PROVE  \E page \in Seq(Orders) :
              /\ seen' = seen \o page
              /\ done' = (page = <<>>)
              /\ \A i \in 1..Len(page) : page[i] \in Candidates
              /\ \A i, j \in 1..Len(page) : i < j => Precedes(page[i], page[j])
              /\ page # <<>> => \A o \in Candidates : table[o].mine =>
                    \/ \E i \in 1..Len(page) : page[i] = o
                    \/ Precedes(page[Len(page)], o)
              /\ request.consumer /\ request.first > 0 /\ page = <<>>
                     => Candidates = {}
<1> DEFINE C == Candidates
           L == Limited(C)
           G == Granted(L)
<1>1. request # NoRequest /\ request \in Requests /\ PagesTypeOK /\ Finite
  BY DEF PagesInv, PagesTypeOK, NextPage
<1>2. C \in SUBSET Existing
  BY DEF Candidates, Matching
<1>3. /\ L \in SUBSET C
      /\ C # {} /\ request.first > 0 => L # {}
      /\ \A o \in C, p \in L : Precedes(o, p) => o \in L
  BY <1>1, <1>2, LimitedIsBeginning
<1>4. G \in SUBSET L /\ \A o \in L : table[o].mine => o \in G
  BY DEF Granted
<1>5. G \in SUBSET Existing /\ G \in SUBSET C
  BY <1>2, <1>3, <1>4
<1>6. /\ seen' = seen \o Listed(G) /\ done' = (Listed(G) = <<>>)
  BY DEF NextPage
<1>7. request.consumer => \A o \in C : table[o].mine
  BY DEF Candidates, Matching
<1> HIDE DEF C, L, G
<1>8. PICK page \in Seq(G) :
          /\ page = Listed(G)
          /\ page = <<>> <=> G = {}
          /\ \A i \in 1..Len(page) : page[i] \in G
          /\ \A o \in G : \E i \in 1..Len(page) : page[i] = o
          /\ \A i, j \in 1..Len(page) : i < j => Precedes(page[i], page[j])
  BY <1>1, <1>5, ListedIs
<1>9. page \in Seq(Orders)
  <2>1. \A i \in 1..Len(page) : page[i] \in Orders
    BY <1>1, <1>5, <1>8, RowType
  <2> QED BY <1>8, <2>1
<1>10. ASSUME page # <<>>, NEW o \in C, table[o].mine
       PROVE  \/ \E i \in 1..Len(page) : page[i] = o
              \/ Precedes(page[Len(page)], o)
  <2>1. Len(page) \in 1..Len(page)
    BY <1>8, <1>10
  <2>2. PICK l \in G : l = page[Len(page)]
    BY <1>8, <2>1
  <2>3. l \in Existing /\ o \in Existing /\ l \in L
    BY <1>2, <1>4, <1>5
  <2>4. CASE o \in L
    <3>1. o \in G
      BY <1>4, <1>10, <2>4
    <3> QED BY <1>8, <3>1
  <2>5. CASE o \notin L
    <3>1. ~Precedes(o, l) /\ o # l
      BY <1>3, <2>3, <2>5
    <3>2. Precedes(l, o)
      BY <1>1, <2>3, <3>1, PrecedesIsTotal
    <3> QED BY <2>2, <3>2
  <2> QED BY <2>4, <2>5
<1>11. ASSUME request.consumer, request.first > 0, page = <<>> PROVE C = {}
  <2>1. G = {}
    BY <1>8, <1>11
  <2>2. \A o \in L : o \in G
    BY <1>3, <1>4, <1>7, <1>11
  <2>3. L = {}
    BY <2>1, <2>2
  <2> QED BY <1>3, <1>11, <2>3
<1>12. \A i \in 1..Len(page) : page[i] \in C
  BY <1>5, <1>8
<1> QED BY <1>6, <1>8, <1>9, <1>10, <1>11, <1>12 DEF C

LEMMA NextPageInv ==
    ASSUME PagesInv, NextPage
    PROVE  PagesInv'
<1>1. PICK page \in Seq(Orders) :
          /\ seen' = seen \o page
          /\ done' = (page = <<>>)
          /\ \A i \in 1..Len(page) : page[i] \in Candidates
          /\ \A i, j \in 1..Len(page) : i < j => Precedes(page[i], page[j])
          /\ page # <<>> => \A o \in Candidates : table[o].mine =>
                \/ \E i \in 1..Len(page) : page[i] = o
                \/ Precedes(page[Len(page)], o)
          /\ request.consumer /\ request.first > 0 /\ page = <<>>
                 => Candidates = {}
  BY PageIs
<1>2. /\ request # NoRequest /\ request \in Requests /\ PagesTypeOK /\ ~done
      /\ UNCHANGED <<table, request, atStart>>
  BY DEF PagesInv, PagesTypeOK, NextPage
<1>3. seen \in Seq(Orders) /\ Len(seen) \in Nat /\ Len(page) \in Nat
  BY <1>2 DEF PagesTypeOK
<1>4. /\ seen' \in Seq(Orders) /\ Len(seen') = Len(seen) + Len(page)
      /\ \A i \in 1..Len(seen) : seen'[i] = seen[i]
      /\ \A i \in 1..Len(page) : seen'[Len(seen) + i] = page[i]
  BY <1>1, <1>3
<1>5. \A i \in 1..Len(seen') :
          \/ i \in 1..Len(seen)
          \/ i - Len(seen) \in 1..Len(page) /\ Len(seen) + (i - Len(seen)) = i
  BY <1>3, <1>4
<1>6. Existing' = Existing /\ \A o, p : Precedes(o, p)' <=> Precedes(o, p)
  BY <1>2 DEF Existing, Precedes
<1>7. PagesTypeOK' /\ Finite' /\ DecidedStay' /\ NotStarted'
  <2>1. PagesTypeOK' /\ NotStarted'
    BY <1>1, <1>2, <1>4, <1>6 DEF PagesTypeOK, NotStarted
  <2> QED BY <1>2, <1>6, <2>1 DEF PagesInv, Finite, DecidedStay
<1>8. \A o \in Candidates : o \in Existing /\ o \in Matching(request)
  BY DEF Candidates, Matching
<1>9. \A i \in 1..Len(seen) : seen[i] \in Existing
  BY DEF PagesInv, SeenExist
<1>10. ASSUME NEW i \in 1..Len(seen') PROVE seen'[i] \in Existing
  <2>1. CASE i \in 1..Len(seen)
    BY <1>4, <1>9, <2>1
  <2>2. CASE i \notin 1..Len(seen)
    <3>1. i - Len(seen) \in 1..Len(page) /\ seen'[i] = page[i - Len(seen)]
      BY <1>4, <1>5, <2>2
    <3> QED BY <1>1, <1>8, <3>1
  <2> QED BY <2>1, <2>2
<1>11. SeenExist'
  BY <1>6, <1>10 DEF SeenExist
\* The last order seen comes before everything on the page.
<1>12. ASSUME NEW i \in 1..Len(seen), NEW o \in Candidates
       PROVE  Precedes(seen[i], o)
  <2>1. seen # <<>> /\ Len(seen) \in 1..Len(seen)
    BY <1>3
  <2>2. PICK l \in Existing, p \in Existing : l = seen[Len(seen)] /\ p = seen[i]
    BY <1>9, <2>1
  <2>3. After(o, l) /\ o \in Existing
    BY <1>8, <2>1, <2>2 DEF Candidates
  <2>4. Precedes(l, o)
    BY <1>2, <2>2, <2>3, PrecedesIsTotal
  <2>5. CASE i = Len(seen)
    BY <2>2, <2>4, <2>5
  <2>6. CASE i # Len(seen)
    <3>1. i < Len(seen)
      BY <1>3, <2>6
    <3>2. Precedes(p, l)
      BY <2>1, <2>2, <3>1 DEF PagesInv, PagesAreOneList
    <3> QED BY <1>2, <2>2, <2>3, <2>4, <3>2, PrecedesIsTotal
  <2> QED BY <2>5, <2>6
<1>13. PagesAreOneList'
  <2> SUFFICES ASSUME NEW i \in 1..Len(seen'), NEW j \in 1..Len(seen'), i < j
               PROVE  Precedes(seen'[i], seen'[j])
    BY <1>2 DEF PagesAreOneList, Precedes
  <2>1. CASE i \in 1..Len(seen) /\ j \in 1..Len(seen)
    BY <1>4, <2>1 DEF PagesInv, PagesAreOneList
  <2>2. CASE i \in 1..Len(seen) /\ j \notin 1..Len(seen)
    <3>1. j - Len(seen) \in 1..Len(page) /\ seen'[j] = page[j - Len(seen)]
      BY <1>4, <1>5, <2>2
    <3>2. seen'[i] = seen[i] /\ seen'[j] \in Candidates
      BY <1>1, <1>4, <2>2, <3>1
    <3> QED BY <1>12, <2>2, <3>2
  <2>3. CASE i \notin 1..Len(seen)
    <3>1. i - Len(seen) \in 1..Len(page) /\ seen'[i] = page[i - Len(seen)]
      BY <1>4, <1>5, <2>3
    <3>2. j \notin 1..Len(seen)
      BY <1>3, <1>4, <2>3
    <3>3. j - Len(seen) \in 1..Len(page) /\ seen'[j] = page[j - Len(seen)]
      BY <1>4, <1>5, <3>2
    <3>4. i - Len(seen) < j - Len(seen)
      BY <1>3, <1>4
    <3> QED BY <1>1, <3>1, <3>3, <3>4
  <2> QED BY <2>1, <2>2, <2>3
<1>14. Expected' = Expected
  BY <1>2, <1>6 DEF Expected, Matching
<1>15. SeenSet \subseteq SeenSet'
  <2> SUFFICES ASSUME NEW i \in 1..Len(seen) PROVE seen[i] \in SeenSet'
    BY DEF SeenSet
  <2>1. i \in 1..Len(seen') /\ seen'[i] = seen[i]
    BY <1>3, <1>4
  <2> QED BY <2>1 DEF SeenSet
\* What is expected and not seen is a candidate.
<1>16. ASSUME request.consumer, NEW o \in Expected, o \notin SeenSet
       PROVE  o \in Candidates /\ table[o].mine
  <2>1. o \in Matching(request) /\ o \in Existing /\ table[o].mine
    BY DEF Expected, Matching
  <2>2. StillAhead(o)
    BY <1>2, <1>16 DEF PagesInv, CursorSound
  <2>3. CASE seen = <<>>
    BY <2>1, <2>3 DEF Candidates
  <2>4. CASE seen # <<>>
    <3>1. Len(seen) \in 1..Len(seen)
      BY <1>3, <2>4
    <3>2. seen[Len(seen)] \in Existing /\ Precedes(seen[Len(seen)], o)
      BY <1>9, <2>2, <2>4, <3>1 DEF StillAhead
    <3>3. After(o, seen[Len(seen)])
      BY <1>2, <2>1, <3>2, PrecedesIsTotal
    <3> QED BY <2>1, <3>3 DEF Candidates
  <2> QED BY <2>3, <2>4
<1>17. CursorSound'
  <2> SUFFICES ASSUME request.consumer, NEW o \in Expected, o \notin SeenSet'
               PROVE  StillAhead(o)'
    BY <1>2, <1>14 DEF CursorSound
  <2>1. o \notin SeenSet
    BY <1>15
  <2>2. o \in Candidates /\ table[o].mine
    BY <1>16, <2>1
  <2>3. CASE page = <<>>
    <3>1. seen' = seen
      BY <1>1, <1>3, <2>3
    <3>2. StillAhead(o)
      BY <1>2, <2>1 DEF PagesInv, CursorSound
    <3> QED BY <1>2, <3>1, <3>2 DEF StillAhead, Precedes
  <2>4. CASE page # <<>>
    <3>1. Len(page) \in 1..Len(page)
      BY <1>3, <2>4
    <3>2. /\ Len(seen') = Len(seen) + Len(page)
          /\ seen'[Len(seen')] = page[Len(page)]
      BY <1>4, <3>1
    <3>3. ASSUME NEW i \in 1..Len(page), page[i] = o PROVE FALSE
      <4>1. Len(seen) + i \in 1..Len(seen')
        BY <1>3, <1>4
      <4>2. seen'[Len(seen) + i] = o
        BY <1>4, <3>3
      <4> QED BY <4>1, <4>2 DEF SeenSet
    <3>4. Precedes(page[Len(page)], o)
      BY <1>1, <2>2, <2>4, <3>3
    <3>5. Precedes(seen'[Len(seen')], o)
      BY <3>2, <3>4
    <3> QED BY <1>2, <3>5 DEF StillAhead, Precedes
  <2> QED BY <2>3, <2>4
<1>18. NothingSkipped'
  <2> SUFFICES ASSUME page = <<>>, request.consumer, request.first > 0,
                      NEW o \in Expected
               PROVE  o \in SeenSet'
    BY <1>1, <1>2, <1>14 DEF NothingSkipped
  <2>1. Candidates = {}
    BY <1>1
  <2>2. o \in SeenSet
    BY <1>16, <2>1
  <2> QED BY <1>15, <2>2
<1> QED BY <1>7, <1>11, <1>13, <1>17, <1>18 DEF PagesInv

LEMMA PagesInitInv == Init => PagesInv
<1> SUFFICES ASSUME Init PROVE PagesInv
  OBVIOUS
<1>1. /\ table \in [Orders -> {NoOrder} \cup Rows]
      /\ request = NoRequest /\ seen = <<>> /\ done = FALSE /\ atStart = {}
      /\ \A o \in Orders : table[o] = NoOrder
  BY DEF Init
<1>2. Existing = {} /\ IsFiniteSet({})
  BY <1>1, FS_EmptySet DEF Existing
<1>3. PagesTypeOK /\ Finite /\ NotStarted
  <2>1. <<>> \in Seq(Orders)
    OBVIOUS
  <2>2. PagesTypeOK
    BY <1>1, <1>2, <2>1 DEF PagesTypeOK
  <2>3. Finite
    BY <1>2 DEF Finite
  <2>4. NotStarted
    BY <1>1 DEF NotStarted
  <2> QED BY <2>2, <2>3, <2>4
<1>4. SeenExist /\ PagesAreOneList
  BY <1>1 DEF SeenExist, PagesAreOneList
<1>5. DecidedStay /\ CursorSound /\ NothingSkipped
  BY <1>1 DEF DecidedStay, CursorSound, NothingSkipped
<1> QED BY <1>3, <1>4, <1>5 DEF PagesInv

LEMMA PagesStep ==
    ASSUME PagesInv, [Next]_vars
    PROVE  PagesInv'
<1>1. CASE UNCHANGED vars
  BY <1>1 DEF vars, PagesInv, PagesTypeOK, Finite, SeenExist, NotStarted,
              DecidedStay, PagesAreOneList, CursorSound, NothingSkipped,
              Existing, Expected, Matching, SeenSet, StillAhead, Precedes
<1> QED BY <1>1, TableInv, StartInv, NextPageInv DEF Next

LEMMA PagesInvariant == Spec => []PagesInv
<1> QED BY PagesInitInv, PagesStep, PTL DEF Spec

(***************************************************************************)
(* The pages a client is given are one list, newest first and with no      *)
(* order in it twice (order rpc.rs:199-211).                               *)
(***************************************************************************)
THEOREM PagesJoin == Spec => []PagesAreOneList
<1>1. PagesInv => PagesAreOneList
  BY DEF PagesInv
<1> QED BY <1>1, PagesInvariant, PTL

(***************************************************************************)
(* A client that has come to an empty page, and had not asked for pages of *)
(* size 0, has been given every order of its consumer that matched all the *)
(* time (order rpc.rs:160-216).                                            *)
(***************************************************************************)
THEOREM PagesSkipNothing == Spec => []NothingSkipped
<1>1. PagesInv => NothingSkipped
  BY DEF PagesInv
<1> QED BY <1>1, PagesInvariant, PTL
=============================================================================
