------------------------- MODULE AccountingProjector -------------------------
(***************************************************************************)
(* The projector process of the accounting service (app/projector.rs).     *)
(* For each event it updates account_details, then account_infos, then     *)
(* stores the checkpoint: three transactions, and a crash may come between *)
(* any two.  Deposits and withdrawals are not applied twice, because each  *)
(* row holds the sequence number of the last event applied to it; nothing  *)
(* guards the insert of a row by AccountOpened.                            *)
(***************************************************************************)
EXTENDS CheckpointStore, FiniteSets

VARIABLES
    details,   \* account -> row of account_details, or NoRow
    infos,     \* account -> row of account_infos, or NoRow
    phase,     \* what comes next for the next row
    panicked   \* accounts whose event has made an expect panic

projectorVars == <<storeVars, details, infos, phase, panicked>>

NoRow == [last |-> -1]

NewDetails(n) == [amount |-> 0, last |-> n]

NewInfos(n) ==
    [deposited |-> 0, deposits |-> 0, withdrawn |-> 0, withdrawals |-> 0,
     last |-> n]

ProjectorInit ==
    /\ StoreInit
    /\ details = [a \in Accounts |-> NoRow]
    /\ infos = [a \in Accounts |-> NoRow]
    /\ phase = "details"
    /\ panicked = {}

ProjectorWriteSide(a) ==
    AppendEvents(a) /\ UNCHANGED <<details, infos, phase, panicked>>

ProjectorQuery == Load /\ UNCHANGED <<details, infos, phase, panicked>>

-----------------------------------------------------------------------------
WasAlreadyApplied(row, n) == row.last >= n

\* Mutant: a deposit that is processed again is added again.
DetailsAddedTwice(row, e, n) ==
    CASE e.kind = "AccountOpened" -> NewDetails(n)
      [] e.kind = "AccountDeposited" ->
             [row EXCEPT !.amount = @ + e.amount, !.last = n]
      [] e.kind = "AccountWithdrawn" /\ ~WasAlreadyApplied(row, n) ->
             [row EXCEPT !.amount = @ - e.amount, !.last = n]
      [] OTHER -> row

\* The row of account_details after event e of sequence number n.
DetailsAfter(row, e, n) ==
    CASE e.kind = "AccountOpened" -> NewDetails(n)
      [] e.kind = "AccountDeposited" /\ ~WasAlreadyApplied(row, n) ->
             [row EXCEPT !.amount = @ + e.amount, !.last = n]
      [] e.kind = "AccountWithdrawn" /\ ~WasAlreadyApplied(row, n) ->
             [row EXCEPT !.amount = @ - e.amount, !.last = n]
      [] OTHER -> row

\* The row of account_infos after event e of sequence number n.
InfosAfter(row, e, n) ==
    CASE e.kind = "AccountOpened" -> NewInfos(n)
      [] e.kind = "AccountDeposited" /\ ~WasAlreadyApplied(row, n) ->
             [row EXCEPT !.deposited = @ + e.amount, !.deposits = @ + 1,
                         !.last = n]
      [] e.kind = "AccountWithdrawn" /\ ~WasAlreadyApplied(row, n) ->
             [row EXCEPT !.withdrawn = @ + e.amount, !.withdrawals = @ + 1,
                         !.last = n]
      [] OTHER -> row

\* The projection of e into a table that holds row fails: the insert finds the
\* key taken, or was_already_applied finds no row.
Fails(row, e) ==
    \/ e.kind = "AccountOpened" /\ row # NoRow
    \/ e.kind \in MoneyKinds /\ row = NoRow

-----------------------------------------------------------------------------
ProjectDetails ==
    /\ rows # {}
    /\ phase = "details"
    /\ LET a == NextRow.account IN
         /\ ~Fails(details[a], EventAt(NextRow))
         /\ details' = [details EXCEPT ![a] =
                DetailsAfter(@, EventAt(NextRow), NextRow.sequence)]
    /\ phase' = "infos"
    /\ UNCHANGED <<storeVars, infos, panicked>>

ProjectInfos ==
    /\ rows # {}
    /\ phase = "infos"
    /\ LET a == NextRow.account IN
         /\ ~Fails(infos[a], EventAt(NextRow))
         /\ infos' = [infos EXCEPT ![a] =
                InfosAfter(@, EventAt(NextRow), NextRow.sequence)]
    /\ phase' = "checkpoint"
    /\ UNCHANGED <<storeVars, details, panicked>>

\* Mutant: the checkpoint is stored between the projections.
ProjectorMayStoreEarly == phase # "details"

ProjectorMayStore == phase = "checkpoint"

ProjectorStore ==
    /\ rows # {}
    /\ ProjectorMayStore
    /\ StoreCheckpoint
    /\ phase' = "details"
    /\ UNCHANGED <<details, infos, panicked>>

\* The expect of a projection that fails ends the process, which is restarted.
Panic ==
    /\ rows # {}
    /\ LET a == NextRow.account
           e == EventAt(NextRow)
       IN  /\ \/ phase = "details" /\ Fails(details[a], e)
              \/ phase = "infos" /\ Fails(infos[a], e)
           /\ panicked' = panicked \cup {a}
    /\ LoseRows
    /\ phase' = "details"
    /\ UNCHANGED <<crashes, details, infos>>

\* A crash, or an error of the database in any of the three transactions.
ProjectorCrash ==
    /\ CrashOnce
    /\ phase' = "details"
    /\ UNCHANGED <<details, infos, panicked>>

ProjectorLoop ==
    ProjectorQuery \/ ProjectDetails \/ ProjectInfos \/ ProjectorStore \/ Panic

ProjectorNext ==
    \/ ProjectorLoop
    \/ ProjectorCrash
    \/ \E a \in Accounts : ProjectorWriteSide(a)

ProjectorSpec == ProjectorInit /\ [][ProjectorNext]_projectorVars

\* The process runs for ever and is restarted; nobody has to append.
FairProjectorSpec == ProjectorSpec /\ WF_projectorVars(ProjectorLoop)

ProjectorTypeOK ==
    /\ StoreTypeOK
    /\ details \in [Accounts -> {NoRow} \cup [amount : Int, last : Nat]]
    /\ infos \in [Accounts -> {NoRow} \cup
           [deposited : Nat, deposits : Nat, withdrawn : Nat,
            withdrawals : Nat, last : Nat]]
    /\ phase \in {"details", "infos", "checkpoint"}
    /\ panicked \subseteq Accounts

-----------------------------------------------------------------------------
\* The events of a up to sequence number n that are of kind k.
EventsUpTo(a, n, k) == {i \in 1..(n + 1) : streams[a][i].kind = k}

(***************************************************************************)
(* Each table shows what the stream adds up to at the event the row was    *)
(* last updated for: no event is lost or added twice, whatever crashes and *)
(* repeats there were.  account_details has the balance; account_infos the *)
(* deposits and the withdrawals, each counted once, and sums that differ   *)
(* by the balance (account_details.rs:73-94, 116-137, account_infos.rs:    *)
(* 77-98, 121-142).                                                        *)
(***************************************************************************)
TablesMatchStream ==
    \A a \in Accounts :
        /\ details[a] # NoRow =>
               details[a].amount = streams[a][details[a].last + 1].balance
        /\ infos[a] # NoRow =>
               LET n == infos[a].last IN
               /\ infos[a].deposited - infos[a].withdrawn = streams[a][n + 1].balance
               /\ infos[a].deposits = Cardinality(EventsUpTo(a, n, "AccountDeposited"))
               /\ infos[a].withdrawals =
                      Cardinality(EventsUpTo(a, n, "AccountWithdrawn"))

\* Both tables show the event of sequence number n, if they show its kind.
IsProjected(a, n) ==
    streams[a][n + 1].kind # "CommandReplyRequested" =>
        details[a].last >= n /\ infos[a].last >= n

CaughtUp(a) == \A n \in 0..(Len(streams[a]) - 1) : IsProjected(a, n)

(***************************************************************************)
(* What lies behind the checkpoint is in both tables: it is never read     *)
(* again (projector.rs:33-44).                                             *)
(***************************************************************************)
CheckpointIsProjected ==
    \A a \in Accounts : \A n \in 0..checkpoint[a] : IsProjected(a, n)

(***************************************************************************)
(* When streams no longer grow, the tables catch up with each, unless the  *)
(* projector has panicked on it or on one that comes before it in the      *)
(* query (projector.rs:51-58, checkpoint.rs:51-56).                        *)
(***************************************************************************)
ProjectionsCatchUp ==
    \A a \in Accounts : <>[](CaughtUp(a) \/ \E b \in panicked : b <= a)

(***************************************************************************)
(* An account that made the projector panic makes it panic in every round: *)
(* it gets no further with this account, and it never again shows anything *)
(* of those that come after it in the query, whatever the write side adds  *)
(* (projector.rs:33-44, checkpoint.rs:51-56).                              *)
(***************************************************************************)
PanicIsForGood ==
    [][\A a \in panicked, b \in Accounts :
          /\ b >= a => checkpoint'[b] = checkpoint[b]
          /\ b > a => details'[b] = details[b] /\ infos'[b] = infos[b]]_projectorVars

(***************************************************************************)
(* The expects of the projector state that a projection does not fail,     *)
(* and events that are read again after a crash are to be recognised by    *)
(* was_already_applied: the projector panics on accounts only that were    *)
(* never opened (projector.rs:33-40, account_details.rs:144-155).          *)
(***************************************************************************)
RepeatsAreHarmless == \A a \in panicked : details[a] = NoRow
=============================================================================
