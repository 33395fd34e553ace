----------------------------- MODULE AtLeastOnce -----------------------------
(***************************************************************************)
(* What a service may rely on when it writes a message to its outbox: the  *)
(* message is handled only if the transaction that wrote it has committed, *)
(* it is handled at least once, and nothing else is promised - a message   *)
(* may be handled again, also after later ones.                            *)
(***************************************************************************)
EXTENDS Integers

CONSTANT Messages

VARIABLES
    posted,   \* the messages of transactions that have committed
    handled   \* message -> how often it has been handled

channelVars == <<posted, handled>>

Init ==
    /\ posted = {}
    /\ handled = [m \in Messages |-> 0]

\* A transaction commits the messages it has written, if any.
Post(ms) ==
    /\ ms \cap posted = {}
    /\ posted' = posted \cup ms
    /\ UNCHANGED handled

Handle(m) ==
    /\ m \in posted
    /\ handled' = [handled EXCEPT ![m] = @ + 1]
    /\ UNCHANGED posted

Next ==
    \/ \E ms \in SUBSET Messages : Post(ms)
    \/ \E m \in Messages : Handle(m)

Spec == Init /\ [][Next]_channelVars

\* When no more is posted, everything is handled in the end.
Delivery == <>[](\A m \in posted : handled[m] > 0)
=============================================================================
