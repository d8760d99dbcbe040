----------------------------- MODULE AtomicStore -----------------------------
(***************************************************************************)
(* What the database layer promises to the code above it, without          *)
(* connections, pools or savepoints: every session collects its work in    *)
(* private, and the store changes only when one session commits, by        *)
(* exactly the work of that session.                                       *)
(***************************************************************************)
EXTENDS Rows

VARIABLES
    store,          \* committed rows
    work            \* what each session has written and not yet committed

absVars == <<store, work>>

AbsInit ==
    /\ store = Empty
    /\ work = [s \in Session |-> Nothing]

\* A session writes, undoes part of its work or gives all of it up.
Work(s) ==
    /\ \E w \in Changes : work' = [work EXCEPT ![s] = w]
    /\ UNCHANGED store

\* A session's whole work becomes durable in one step.
Commit(s) ==
    /\ store' = Overlay(store, work[s])
    /\ work' = [work EXCEPT ![s] = Nothing]

AbsNext == \E s \in Session : Work(s) \/ Commit(s)

AbsSpec == AbsInit /\ [][AbsNext]_absVars
=============================================================================
