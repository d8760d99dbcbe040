------------------------------ MODULE UnitOfWork ------------------------------
(***************************************************************************)
(* framework/database: DatabaseManager hands out connections of a pooled   *)
(* engine, TransactionManager opens top-level transactions and savepoints  *)
(* on them, QueryExecutor runs the repositories' statements, UnitOfWork    *)
(* puts a connection and a COMMIT, ROLLBACK or READ_ONLY transaction       *)
(* around a with-block.                                                    *)
(*                                                                         *)
(* A session is a UnitOfWork slot (its with-blocks one after the other) or *)
(* a bare connection (the db_connection fixture).  A link is a physical    *)
(* DBAPI connection of the pool.  SQLAlchemy, its pool and the database    *)
(* server are external: changes, opened and failed stand for their state.  *)
(***************************************************************************)
EXTENDS Rows, Sequences, Naturals

CONSTANTS
    Uow,            \* the sessions run by UnitOfWork; the others are bare connections
    Link,           \* physical connections: pool_size + max_overflow of them
    NoLink,
    Dialect,        \* DbDialect: "sqlite", "postgresql", "mysql", ...
    InMemory,       \* a SQLite database in memory, so StaticPool
    MaxDepth        \* bound: nested_transaction blocks open in one session

ASSUME UowAssumption == Uow \subseteq Session
ASSUME LinkAssumption == NoLink \notin Link
ASSUME DepthAssumption == MaxDepth \in Nat
ASSUME InMemoryAssumption ==
    /\ InMemory \in BOOLEAN
    /\ InMemory => Dialect = "sqlite" /\ \E l \in Link : Link = {l}
\* SQLAlchemy numbers savepoints per Connection object: on a shared link two
\* sessions would give theirs the same name, which is not modelled.
ASSUME SharedLinkAssumption == InMemory => MaxDepth = 0

VARIABLES
    db,             \* committed rows
    changes,        \* changes[l]: what a COMMIT on link l would make durable
    opened,         \* opened[l]: the database has a transaction open on l
    failed,         \* failed[l]: the server refuses statements on l until a rollback
    link,           \* link[s]: the physical connection s holds
    scope,          \* scope[s]: TransactionMode of the open transaction() block
    begun,          \* begun[s]: Connection.in_transaction()
    savepoints,     \* savepoints[s]: the open nested_transaction() blocks
    wrote,          \* history: what s wrote in its transaction and did not undo
    committed       \* history: the last transaction of s ended in a commit

server == <<db, changes, opened, failed>>
history == <<wrote, committed>>
vars == <<server, link, scope, begun, savepoints, history>>

NoScope == "none"
TransactionMode == {"commit", "rollback", "read_only"}

\* The sqlite3 driver sends BEGIN only before the first INSERT, UPDATE or DELETE.
LazyBegin == Dialect = "sqlite"
\* After a failed statement PostgreSQL ignores the transaction; COMMIT rolls it back.
AbortsOnError == Dialect = "postgresql"

Savepoint == [changes : Changes, wrote : Changes, outermost : BOOLEAN]

TypeOK ==
    /\ db \in Tables
    /\ changes \in [Link -> Changes]
    /\ opened \in [Link -> BOOLEAN]
    /\ failed \in [Link -> BOOLEAN]
    /\ link \in [Session -> Link \cup {NoLink}]
    /\ scope \in [Session -> TransactionMode \cup {NoScope}]
    /\ begun \in [Session -> BOOLEAN]
    /\ savepoints \in [Session -> Seq(Savepoint)]
    /\ wrote \in [Session -> Changes]
    /\ committed \in [Session -> BOOLEAN]

Init ==
    /\ db = Empty
    /\ changes = [l \in Link |-> Nothing]
    /\ opened = [l \in Link |-> FALSE]
    /\ failed = [l \in Link |-> FALSE]
    /\ link = [s \in Session |-> NoLink]
    /\ scope = [s \in Session |-> NoScope]
    /\ begun = [s \in Session |-> FALSE]
    /\ savepoints = [s \in Session |-> <<>>]
    /\ wrote = [s \in Session |-> Nothing]
    /\ committed = [s \in Session |-> FALSE]

-----------------------------------------------------------------------------
(* Taking a connection *)

\* Mutant: every pool shares its links.
FreeShared(l) == TRUE

\* StaticPool gives its one connection to everybody; the other pools give a
\* link to one session at a time.
Free(l) == InMemory \/ \A s \in Session : link[s] # l

Checkout(s, l) ==
    /\ link[s] = NoLink
    /\ Free(l)
    /\ link' = [link EXCEPT ![s] = l]

\* DatabaseManager.connection: no transaction is opened.
Connect(c, l) ==
    /\ c \notin Uow
    /\ Checkout(c, l)
    /\ UNCHANGED <<server, scope, begun, savepoints, history>>

\* Entering TransactionManager.transaction.  begin() raises if the connection
\* is already in a transaction, a SELECT's autobegin included.
OpenBlock(s, mode) ==
    /\ ~begun[s]
    /\ begun' = [begun EXCEPT ![s] = TRUE]
    /\ scope' = [scope EXCEPT ![s] = mode]
    /\ committed' = [committed EXCEPT ![s] = FALSE]
    /\ UNCHANGED <<server, savepoints, wrote>>

Begin(c, mode) ==
    /\ c \notin Uow
    /\ link[c] # NoLink
    /\ OpenBlock(c, mode)
    /\ UNCHANGED link

\* UnitOfWork.__enter__.
Enter(u, l, mode) ==
    /\ u \in Uow
    /\ Checkout(u, l)
    /\ OpenBlock(u, mode)

-----------------------------------------------------------------------------
(* Statements *)

Visible(s) == Overlay(db, changes[link[s]])

Ready(s) == link[s] # NoLink /\ ~failed[link[s]]

\* A row changed on another link is locked until that transaction ends.
Unlocked(s, r) == \A k \in Link \ {link[s]} : changes[k][r] = Untouched

\* The first statement on a connection begins SQLAlchemy's transaction.
Autobegin(s) ==
    /\ begun' = [begun EXCEPT ![s] = TRUE]
    /\ committed' = [committed EXCEPT ![s] = FALSE]

\* execute_write: row r becomes entry in this transaction.
Modify(s, r, entry) ==
    /\ Ready(s)
    /\ Unlocked(s, r)
    /\ changes' = [changes EXCEPT ![link[s]][r] = entry]
    /\ wrote' = [wrote EXCEPT ![s][r] = entry]
    /\ opened' = [opened EXCEPT ![link[s]] = TRUE]
    /\ Autobegin(s)
    /\ UNCHANGED <<db, failed, link, scope, savepoints>>

\* A repository's create of a missing row, or update of a row that is there.
Write(s, r) == Modify(s, r, s)

\* A repository's delete; deleting a missing row changes nothing.
Delete(s, r) ==
    Modify(s, r, IF Visible(s)[r] = Absent THEN changes[link[s]][r] ELSE Absent)

Read(s) ==
    /\ Ready(s)
    /\ opened' = [opened EXCEPT ![link[s]] = @ \/ ~LazyBegin]
    /\ Autobegin(s)
    /\ UNCHANGED <<db, changes, failed, link, scope, savepoints, wrote>>

\* A constraint, a lock timeout or bad SQL: QueryExecutor raises
\* DatabaseQueryError, which the caller may catch inside the block.
StatementFails(s) ==
    /\ link[s] # NoLink
    /\ opened' = [opened EXCEPT ![link[s]] = TRUE]
    /\ failed' = [failed EXCEPT ![link[s]] = @ \/ AbortsOnError]
    /\ Autobegin(s)
    /\ UNCHANGED <<db, changes, link, scope, savepoints, wrote>>

-----------------------------------------------------------------------------
(* nested_transaction *)

OpenSavepoint(s) ==
    /\ Ready(s)
    /\ begun[s]
    /\ Len(savepoints[s]) < MaxDepth
    /\ savepoints' = [savepoints EXCEPT ![s] =
           Append(@, [changes |-> changes[link[s]], wrote |-> wrote[s],
                      outermost |-> LazyBegin /\ ~opened[link[s]]])]
    /\ opened' = [opened EXCEPT ![link[s]] = TRUE]
    /\ UNCHANGED <<db, changes, failed, link, scope, begun, history>>

Innermost(s) == savepoints[s][Len(savepoints[s])]
Pop(s) == [savepoints EXCEPT ![s] = SubSeq(@, 1, Len(@) - 1)]

\* The block ends without an exception.  RELEASE of a savepoint that itself
\* opened SQLite's transaction is a COMMIT.
ReleaseSavepoint(s) ==
    /\ savepoints[s] # <<>>
    /\ Ready(s)
    /\ savepoints' = Pop(s)
    /\ IF Innermost(s).outermost
       THEN /\ db' = Visible(s)
            /\ changes' = [changes EXCEPT ![link[s]] = Nothing]
            /\ opened' = [opened EXCEPT ![link[s]] = FALSE]
       ELSE UNCHANGED <<db, changes, opened>>
    /\ UNCHANGED <<failed, link, scope, begun, history>>

\* The block ends without an exception in a transaction the server has aborted:
\* RELEASE raises.  From then on SQLAlchemy refuses whatever s asks for, the
\* ends of the enclosing savepoints included, until its transaction ends.
ReleaseFails(s) ==
    /\ savepoints[s] # <<>>
    /\ failed[link[s]]
    /\ savepoints' = [savepoints EXCEPT ![s] = <<>>]
    /\ UNCHANGED <<server, link, scope, begun, history>>

\* The block raises an Exception: back to the state at its savepoint.
RollbackSavepoint(s) ==
    /\ savepoints[s] # <<>>
    /\ savepoints' = Pop(s)
    /\ changes' = [changes EXCEPT ![link[s]] = Innermost(s).changes]
    /\ wrote' = [wrote EXCEPT ![s] = Innermost(s).wrote]
    /\ failed' = [failed EXCEPT ![link[s]] = FALSE]
    /\ UNCHANGED <<db, opened, link, scope, begun, committed>>

-----------------------------------------------------------------------------
(* Ending a transaction *)

\* A COMMIT or ROLLBACK went to the database on the link of s.
EndTransaction(s, commit) ==
    /\ changes' = [changes EXCEPT ![link[s]] = Nothing]
    /\ opened' = [opened EXCEPT ![link[s]] = FALSE]
    /\ failed' = [failed EXCEPT ![link[s]] = FALSE]
    /\ wrote' = [wrote EXCEPT ![s] = Nothing]
    /\ committed' = [committed EXCEPT ![s] = commit]

\* The transaction() block is left; UnitOfWork.__exit__ then closes the
\* connection, whose reset on return finds nothing left to roll back.
LeaveBlock(s) ==
    /\ savepoints[s] = <<>>
    /\ scope' = [scope EXCEPT ![s] = NoScope]
    /\ begun' = [begun EXCEPT ![s] = FALSE]
    /\ link' = IF s \in Uow THEN [link EXCEPT ![s] = NoLink] ELSE link
    /\ UNCHANGED savepoints

Durable(s) == IF failed[link[s]] THEN db ELSE Visible(s)

\* Mutant: the clean exit commits without looking at the mode.
CommitExitAnyMode(s) ==
    /\ scope[s] # NoScope
    /\ db' = Durable(s)
    /\ EndTransaction(s, TRUE)
    /\ LeaveBlock(s)

\* A clean exit in COMMIT mode; also the one whose answer is lost after the
\* server committed, which the caller sees as an exception.
CommitExit(s) ==
    /\ scope[s] = "commit"
    /\ db' = Durable(s)
    /\ EndTransaction(s, TRUE)
    /\ LeaveBlock(s)

\* Mutant: the transaction manager commits where it should roll back.
RollbackExitCommits(s) ==
    /\ scope[s] # NoScope
    /\ EndTransaction(s, FALSE)
    /\ LeaveBlock(s)
    /\ db' = Durable(s)

\* A clean exit in ROLLBACK or READ_ONLY mode, or an Exception in any mode.
RollbackExit(s) ==
    /\ scope[s] # NoScope
    /\ EndTransaction(s, FALSE)
    /\ LeaveBlock(s)
    /\ UNCHANGED db

\* outer.commit() raises without having committed.  Either the transaction is
\* gone, or (bare connections) it is still pending and nobody rolls it back.
CommitFails(s) ==
    /\ scope[s] = "commit"
    /\ \/ EndTransaction(s, FALSE)
       \/ s \notin Uow /\ UNCHANGED <<changes, opened, failed, history>>
    /\ LeaveBlock(s)
    /\ UNCHANGED db

\* connection.commit() outside any transaction() block, as the fixtures do.
ConnectionCommit(c) ==
    /\ scope[c] = NoScope
    /\ begun[c]
    /\ db' = Durable(c)
    /\ EndTransaction(c, TRUE)
    /\ LeaveBlock(c)

\* Mutant: the connection goes back to the pool as it is.
CloseWithoutReset(s) ==
    /\ link[s] # NoLink
    /\ link' = [link EXCEPT ![s] = NoLink]
    /\ scope' = [scope EXCEPT ![s] = NoScope]
    /\ begun' = [begun EXCEPT ![s] = FALSE]
    /\ savepoints' = [savepoints EXCEPT ![s] = <<>>]
    /\ wrote' = [wrote EXCEPT ![s] = Nothing]
    /\ UNCHANGED <<server, committed>>

\* The connection is closed, rolling back what is open on it: the end of
\* DatabaseManager.connection, or a KeyboardInterrupt that neither
\* transaction() nor nested_transaction() catches.
Close(s) ==
    /\ link[s] # NoLink
    /\ EndTransaction(s, FALSE)
    /\ link' = [link EXCEPT ![s] = NoLink]
    /\ scope' = [scope EXCEPT ![s] = NoScope]
    /\ begun' = [begun EXCEPT ![s] = FALSE]
    /\ savepoints' = [savepoints EXCEPT ![s] = <<>>]
    /\ UNCHANGED db

-----------------------------------------------------------------------------
Next ==
    \E s \in Session :
        \/ \E l \in Link : Connect(s, l)
        \/ \E l \in Link, mode \in TransactionMode : Enter(s, l, mode)
        \/ \E mode \in TransactionMode : Begin(s, mode)
        \/ \E r \in Row : Write(s, r)
        \/ \E r \in Row : Delete(s, r)
        \/ Read(s)
        \/ StatementFails(s)
        \/ OpenSavepoint(s)
        \/ ReleaseSavepoint(s)
        \/ ReleaseFails(s)
        \/ RollbackSavepoint(s)
        \/ CommitExit(s)
        \/ RollbackExit(s)
        \/ CommitFails(s)
        \/ ConnectionCommit(s)
        \/ Close(s)

Spec == Init /\ [][Next]_vars

-----------------------------------------------------------------------------
(* Properties *)

\* What the database would commit on a session's link is exactly what that
\* session wrote and did not undo, and a link nobody holds carries nothing
\* over to its next holder (the pool's reset, nested rollbacks, the order of
\* rollback and close in UnitOfWork.__exit__).
OwnWork ==
    /\ \A s \in Session : link[s] # NoLink => changes[link[s]] = wrote[s]
    /\ \A l \in Link : (\A s \in Session : link[s] # l) => changes[l] = Nothing /\ ~failed[l]

Commits(s) == ~committed[s] /\ committed'[s]

\* UnitOfWork: "both writes commit together, or both roll back on exception".
\* A block that ends as committed has made every one of its writes durable.
CommitIsDurable ==
    [][\A s \in Session, r \in Row :
        Commits(s) /\ wrote[s][r] # Untouched => db'[r] = wrote[s][r]]_vars

\* The tables change only when some session commits, and then by that
\* session's work alone: no statement, rollback, savepoint or close of
\* anybody makes a write durable.
OnlyCommitsChangeTables ==
    [][db' # db => \E s \in Session : Commits(s) /\ db' = Overlay(db, wrote[s])]_vars

\* transaction(): ROLLBACK and READ_ONLY blocks "leave zero trace in the
\* database": a row of session s does not become durable while s is in one.
ZeroTrace ==
    [][\A s \in Session, r \in Row :
        db'[r] = s /\ db[r] # s => scope[s] \notin {"rollback", "read_only"}]_vars

\* The database layer implements the abstract store: a session's work is what
\* is pending on its link.
Atomic == INSTANCE AtomicStore WITH
    store <- db,
    work <- [s \in Session |-> IF link[s] = NoLink THEN Nothing ELSE changes[link[s]]]

Refinement == Atomic!AbsSpec
=============================================================================
