----------------------------- MODULE OrderPages -----------------------------
(***************************************************************************)
(* Paging through the orders: list_order of the order service (app/rpc.rs) *)
(* behind GET /orders of the gateway (handlers/order.rs).  A client sends  *)
(* the cursor of the last order it was given and stops at an empty page;   *)
(* orders are created and decided while it does.  The gateway removes the  *)
(* orders of others from a page after the limit has been applied.          *)
(***************************************************************************)
EXTENDS Integers, Sequences, FiniteSets

CONSTANTS
    Orders,   \* order ids, which are compared as numbers
    Times,    \* values of created_at
    MaxFirst  \* bound: the largest page a client asks for

ASSUME PageConstants ==
    /\ Orders \subseteq Nat
    /\ Times \subseteq Nat
    /\ MaxFirst \in Nat

VARIABLES
    table,    \* order -> its row, or NoOrder
    request,  \* the client's query, or NoRequest
    seen,     \* the orders the client was given, in order
    done,     \* the client has been given an empty page
    atStart   \* History: the orders that matched the query when it was first sent

vars == <<table, request, seen, done, atStart>>

NoOrder == [created |-> -1]
NoRequest == [first |-> -1]

States == {"ApprovalPending", "Approved", "Rejected"}

\* consumer: whether the consumer_id of the client is given.
Requests ==
    [consumer : BOOLEAN, state : States \cup {"any"}, first : 0..MaxFirst]

Init ==
    /\ table = [o \in Orders |-> NoOrder]
    /\ request = NoRequest
    /\ seen = <<>>
    /\ done = FALSE
    /\ atStart = {}

Existing == {o \in Orders : table[o] # NoOrder}

\* created_at is taken before the transaction, which may commit much later.
CreateOrder(o) ==
    /\ table[o] = NoOrder
    /\ \E t \in Times, mine \in BOOLEAN :
           table' = [table EXCEPT ![o] =
               [created |-> t, mine |-> mine, state |-> "ApprovalPending"]]
    /\ UNCHANGED <<request, seen, done, atStart>>

Decisions == {"Approved", "Rejected"}

DecideOrder(o) ==
    /\ table[o] # NoOrder
    /\ table[o].state = "ApprovalPending"
    /\ \E s \in Decisions :
           table' = [table EXCEPT ![o].state = s]
    /\ UNCHANGED <<request, seen, done, atStart>>

-----------------------------------------------------------------------------
Matching(q) ==
    {o \in Existing :
        /\ q.consumer => table[o].mine
        /\ q.state = "any" \/ table[o].state = q.state}

StartPaging(q) ==
    /\ request = NoRequest
    /\ request' = q
    /\ atStart' = Matching(q)
    /\ UNCHANGED <<table, seen, done>>

\* ORDER BY created_at DESC, id ASC.
Precedes(o, p) ==
    \/ table[o].created > table[p].created
    \/ table[o].created = table[p].created /\ o < p

\* Mutant: the condition of the comment at order rpc.rs:198.
AfterByComment(o, c) ==
    \/ table[o].created < table[c].created
    \/ table[o].created = table[c].created /\ o < c

\* Mutant: orders of the cursor's time come again.
AfterWithTies(o, c) == table[o].created <= table[c].created

\* The filter of a cursor, which holds created_at and id of order c.
After(o, c) ==
    \/ table[o].created < table[c].created
    \/ table[o].created = table[c].created /\ o > c

Candidates ==
    {o \in Matching(request) : seen # <<>> => After(o, seen[Len(seen)])}

\* The first orders of S, as many as a page holds.
Limited(S) == {o \in S : Cardinality({p \in S : Precedes(p, o)}) < request.first}

\* What the gateway leaves of them.
Granted(S) == {o \in S : table[o].mine}

\* s lists each order of S, in the order of the query.
Lists(s, S) ==
    /\ \A o \in S : \E i \in 1..Cardinality(S) : s[i] = o
    /\ \A i, j \in 1..Cardinality(S) : i < j => Precedes(s[i], s[j])

Listed(S) == CHOOSE s \in [1..Cardinality(S) -> S] : Lists(s, S)

NextPage ==
    /\ request # NoRequest
    /\ ~done
    /\ LET page == Listed(Granted(Limited(Candidates))) IN
         /\ seen' = seen \o page
         /\ done' = (page = <<>>)
    /\ UNCHANGED <<table, request, atStart>>

Next ==
    \/ \E o \in Orders : CreateOrder(o) \/ DecideOrder(o)
    \/ \E q \in Requests : StartPaging(q)
    \/ NextPage

Spec == Init /\ [][Next]_vars

-----------------------------------------------------------------------------
SeenSet == {seen[i] : i \in 1..Len(seen)}

(***************************************************************************)
(* The pages are one list, newest first and with no order in it twice,     *)
(* also when orders with the same created_at lie on two pages or appear    *)
(* between two requests (order rpc.rs:199-211).                            *)
(***************************************************************************)
PagesAreOneList ==
    \A i, j \in 1..Len(seen) : i < j => Precedes(seen[i], seen[j])

\* The client's orders that have matched all the time.
Expected == {o \in Matching(request) \cap atStart : table[o].mine}

(***************************************************************************)
(* A client that asks for the orders of its consumer has been given each   *)
(* of them when it comes to an empty page, unless it asks for pages of     *)
(* size 0, which are served and always empty (order rpc.rs:160-216).       *)
(***************************************************************************)
NothingSkipped ==
    done /\ request.consumer /\ request.first > 0 => Expected \subseteq SeenSet
=============================================================================
