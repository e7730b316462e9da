------------------------------ MODULE TxnStore ------------------------------
(***************************************************************************)
(* What the storage engine promises its one connection: transactions over  *)
(* a set of pages that are atomic and durable.  A transaction's writes are *)
(* visible to it at once, become the committed contents in one step, or    *)
(* vanish in one step -- on ROLLBACK, after an error, or because the       *)
(* process died.                                                           *)
(***************************************************************************)
CONSTANTS Pages, Vals, Empty

VARIABLES
    committed, \* contents as of the last commit
    work,      \* contents as the connection reads them
    inTxn      \* a transaction is open

vars == <<committed, work, inTxn>>

Init ==
    /\ committed = [p \in Pages |-> Empty]
    /\ work = committed
    /\ inTxn = FALSE

Begin ==
    /\ ~inTxn
    /\ inTxn' = TRUE
    /\ UNCHANGED <<committed, work>>

Write(p, c) ==
    /\ inTxn
    /\ work' = [work EXCEPT ![p] = c]
    /\ UNCHANGED <<committed, inTxn>>

Commit ==
    /\ inTxn
    /\ committed' = work
    /\ inTxn' = FALSE
    /\ UNCHANGED work

Rollback ==
    /\ inTxn
    /\ work' = committed
    /\ inTxn' = FALSE
    /\ UNCHANGED committed

Next ==
    \/ Begin \/ Commit \/ Rollback
    \/ \E p \in Pages, c \in Vals : Write(p, c)

Spec == Init /\ [][Next]_vars
=============================================================================
