---------------------------- MODULE Database_proofs ----------------------------
(***************************************************************************)
(* The database layer and the seeding of test data that works through it:  *)
(* proofs about UnitOfWork, for any number of sessions, links and rows,    *)
(* and about Seeding, for any workers, entity types, scenarios and bounds. *)
(***************************************************************************)
EXTENDS UnitOfWork, Seeding, SequenceTheorems, TLAPS

-----------------------------------------------------------------------------
(* Overlays *)

\* No changes at all are a set of changes.
LEMMA NothingType == Nothing \in Changes
BY DEF Nothing, Changes

\* Changes laid over tables give tables.
LEMMA OverlayType ==
    ASSUME NEW base \in Tables, NEW c \in Changes
    PROVE  Overlay(base, c) \in Tables
<1>1. \A r \in Row : c[r] \in Content \cup {Untouched} /\ base[r] \in Content
  BY DEF Tables, Changes
<1> QED
  BY <1>1 DEF Overlay, Tables

-----------------------------------------------------------------------------
(* Type correctness.  A session without a link has nothing open: this is   *)
(* what makes every use of changes[link[s]] meaningful.                    *)

Idle == \A s \in Session :
    link[s] = NoLink => /\ scope[s] = NoScope
                        /\ ~begun[s]
                        /\ savepoints[s] = <<>>
                        /\ wrote[s] = Nothing

TInv == TypeOK /\ Idle

\* The first state is type correct and idle sessions hold nothing.
LEMMA InitTInv == Init => TInv
<1> SUFFICES ASSUME Init PROVE TInv
  OBVIOUS
<1>1. TypeOK
  BY NothingType DEF Init, TypeOK, Empty, Tables, Content, NoScope
<1>2. Idle
  BY DEF Init, Idle
<1> QED
  BY <1>1, <1>2 DEF TInv

\* Every step keeps the types, and sessions without a link idle.
LEMMA StepTInv == TInv /\ [Next]_vars => TInv'
<1> SUFFICES ASSUME TInv, [Next]_vars PROVE TInv'
  OBVIOUS
<1> USE DEF TInv
<1>1. ASSUME NEW s \in Session, NEW l \in Link, Connect(s, l) PROVE TInv'
  BY <1>1, LinkAssumption DEF TypeOK, Idle, Connect, Checkout, server, history
<1>2. ASSUME NEW s \in Session, NEW l \in Link, NEW mode \in TransactionMode,
             Enter(s, l, mode)
      PROVE TInv'
  BY <1>2, LinkAssumption DEF TypeOK, Idle, Enter, Checkout, OpenBlock, server
<1>3. ASSUME NEW s \in Session, NEW mode \in TransactionMode, Begin(s, mode) PROVE TInv'
  BY <1>3 DEF TypeOK, Idle, Begin, OpenBlock, server
<1>4. ASSUME NEW s \in Session, NEW r \in Row, NEW entry \in Content \cup {Untouched},
             Modify(s, r, entry)
      PROVE TInv'
  <2>1. link[s] \in Link
    BY <1>4 DEF Modify, Ready, TypeOK
  <2>2. changes' \in [Link -> Changes] /\ wrote' \in [Session -> Changes]
    BY <1>4, <2>1 DEF Modify, TypeOK, Changes
  <2>3. TypeOK'
    BY <1>4, <2>1, <2>2 DEF Modify, Autobegin, TypeOK
  <2>4. Idle'
    BY <1>4, <2>1, LinkAssumption DEF Modify, Autobegin, TypeOK, Idle
  <2> QED
    BY <2>3, <2>4
<1>5. ASSUME NEW s \in Session, NEW r \in Row, Write(s, r) PROVE TInv'
  BY <1>4, <1>5 DEF Write, Content
<1>6. ASSUME NEW s \in Session, NEW r \in Row, Delete(s, r) PROVE TInv'
  <2>1. link[s] \in Link
    BY <1>6 DEF Delete, Modify, Ready, TypeOK
  <2>2. changes[link[s]][r] \in Content \cup {Untouched}
    BY <2>1 DEF TypeOK, Changes
  <2> QED
    BY <1>4, <1>6, <2>2 DEF Delete, Content
<1>7. ASSUME NEW s \in Session, Read(s) PROVE TInv'
  BY <1>7, LinkAssumption DEF TypeOK, Idle, Read, Ready, Autobegin, LazyBegin
<1>8. ASSUME NEW s \in Session, StatementFails(s) PROVE TInv'
  BY <1>8, LinkAssumption DEF TypeOK, Idle, StatementFails, Autobegin, AbortsOnError
<1>9. ASSUME NEW s \in Session, OpenSavepoint(s) PROVE TInv'
  <2>1. link[s] \in Link
    BY <1>9 DEF OpenSavepoint, Ready, TypeOK
  <2> DEFINE p == [changes |-> changes[link[s]], wrote |-> wrote[s],
                   outermost |-> LazyBegin /\ ~opened[link[s]]]
  <2>2. p \in Savepoint
    BY <2>1 DEF TypeOK, Savepoint, LazyBegin
  <2>3. Append(savepoints[s], p) \in Seq(Savepoint)
    BY <2>2 DEF TypeOK
  <2>4. savepoints' \in [Session -> Seq(Savepoint)]
    BY <1>9, <2>3 DEF OpenSavepoint, TypeOK
  <2>5. TypeOK'
    BY <1>9, <2>1, <2>4 DEF OpenSavepoint, TypeOK, history
  <2>6. Idle'
    BY <1>9, <2>1, LinkAssumption DEF OpenSavepoint, TypeOK, Idle, history
  <2> QED
    BY <2>5, <2>6
<1>10. ASSUME NEW s \in Session, savepoints[s] # <<>>
       PROVE  Innermost(s) \in Savepoint /\ Pop(s) \in [Session -> Seq(Savepoint)]
              /\ link[s] \in Link
  <2>1. savepoints[s] \in Seq(Savepoint) /\ Len(savepoints[s]) \in Nat \ {0}
    BY <1>10, EmptySeq DEF TypeOK
  <2>2. Innermost(s) \in Savepoint
    BY <2>1, ElementOfSeq DEF Innermost
  <2>3. SubSeq(savepoints[s], 1, Len(savepoints[s]) - 1) \in Seq(Savepoint)
    BY <2>1
  <2> QED
    BY <1>10, <2>2, <2>3 DEF Pop, TypeOK, Idle
<1>11. ASSUME NEW s \in Session, link[s] \in Link PROVE Visible(s) \in Tables
  BY <1>11, OverlayType DEF Visible, TypeOK
<1>12. ASSUME NEW s \in Session, ReleaseSavepoint(s) PROVE TInv'
  <2>1. Innermost(s) \in Savepoint /\ Pop(s) \in [Session -> Seq(Savepoint)] /\ link[s] \in Link
    BY <1>10, <1>12 DEF ReleaseSavepoint
  <2>2. db' \in Tables
    BY <1>11, <1>12, <2>1 DEF ReleaseSavepoint, TypeOK
  <2>3. changes' \in [Link -> Changes] /\ opened' \in [Link -> BOOLEAN]
    BY <1>12, <2>1, NothingType DEF ReleaseSavepoint, TypeOK
  <2>4. TypeOK'
    BY <1>12, <2>1, <2>2, <2>3 DEF ReleaseSavepoint, TypeOK, history
  <2>5. Idle'
    BY <1>12, <2>1, LinkAssumption DEF ReleaseSavepoint, Pop, Idle, TypeOK, history
  <2> QED
    BY <2>4, <2>5
<1>23. ASSUME NEW s \in Session, ReleaseFails(s) PROVE TInv'
  <2>1. savepoints' \in [Session -> Seq(Savepoint)]
    BY <1>23 DEF ReleaseFails, TypeOK
  <2>2. TypeOK'
    BY <1>23, <2>1 DEF ReleaseFails, TypeOK, server, history
  <2>3. Idle'
    BY <1>23 DEF ReleaseFails, Idle, TypeOK, server, history
  <2> QED
    BY <2>2, <2>3
<1>13. ASSUME NEW s \in Session, RollbackSavepoint(s) PROVE TInv'
  <2>1. Innermost(s) \in Savepoint /\ Pop(s) \in [Session -> Seq(Savepoint)] /\ link[s] \in Link
    BY <1>10, <1>13 DEF RollbackSavepoint
  <2>2. TypeOK'
    BY <1>13, <2>1 DEF RollbackSavepoint, TypeOK, Savepoint
  <2>3. Idle'
    BY <1>13, <2>1, LinkAssumption DEF RollbackSavepoint, Pop, Idle, TypeOK
  <2> QED
    BY <2>2, <2>3
<1>14. ASSUME NEW s \in Session, NEW commit \in BOOLEAN, link[s] \in Link,
              EndTransaction(s, commit), LeaveBlock(s), db' \in Tables
       PROVE  TInv'
  <2>1. changes' \in [Link -> Changes] /\ wrote' \in [Session -> Changes]
    BY <1>14, NothingType DEF EndTransaction, TypeOK
  <2>2. TypeOK'
    BY <1>14, <2>1 DEF EndTransaction, LeaveBlock, TypeOK
  <2>3. Idle'
    BY <1>14 DEF EndTransaction, LeaveBlock, TypeOK, Idle
  <2> QED
    BY <2>2, <2>3
<1>15. ASSUME NEW s \in Session, link[s] \in Link PROVE Durable(s) \in Tables
  BY <1>11, <1>15 DEF Durable, TypeOK
<1>16. ASSUME NEW s \in Session, scope[s] # NoScope \/ begun[s] PROVE link[s] \in Link
  BY <1>16 DEF Idle, TypeOK
<1>17. ASSUME NEW s \in Session, CommitExit(s) PROVE TInv'
  BY <1>14, <1>15, <1>16, <1>17 DEF CommitExit, NoScope
<1>18. ASSUME NEW s \in Session, RollbackExit(s) PROVE TInv'
  BY <1>14, <1>16, <1>18 DEF RollbackExit, TypeOK
<1>19. ASSUME NEW s \in Session, CommitFails(s) PROVE TInv'
  <2>1. link[s] \in Link /\ db' \in Tables
    BY <1>16, <1>19 DEF CommitFails, NoScope, TypeOK
  <2>2. CASE EndTransaction(s, FALSE)
    BY <1>14, <1>19, <2>1, <2>2 DEF CommitFails
  <2>3. CASE s \notin Uow /\ UNCHANGED <<changes, opened, failed, history>>
    BY <1>19, <2>1, <2>3 DEF CommitFails, LeaveBlock, history, TypeOK, Idle
  <2> QED
    BY <1>19, <2>2, <2>3 DEF CommitFails
<1>20. ASSUME NEW s \in Session, ConnectionCommit(s) PROVE TInv'
  BY <1>14, <1>15, <1>16, <1>20 DEF ConnectionCommit
<1>21. ASSUME NEW s \in Session, Close(s) PROVE TInv'
  <2>1. link[s] \in Link
    BY <1>21 DEF Close, TypeOK
  <2>2. changes' \in [Link -> Changes] /\ wrote' \in [Session -> Changes]
    BY <1>21, <2>1, NothingType DEF Close, EndTransaction, TypeOK
  <2>3. savepoints' \in [Session -> Seq(Savepoint)]
    BY <1>21 DEF Close, TypeOK
  <2>4. TypeOK'
    BY <1>21, <2>1, <2>2, <2>3 DEF Close, EndTransaction, TypeOK
  <2>5. Idle'
    BY <1>21, <2>1 DEF Close, EndTransaction, TypeOK, Idle
  <2> QED
    BY <2>4, <2>5
<1>22. CASE UNCHANGED vars
  BY <1>22 DEF vars, server, history, TypeOK, Idle
<1> QED
  BY <1>1, <1>2, <1>3, <1>5, <1>6, <1>7, <1>8, <1>9, <1>12, <1>13, <1>17, <1>18,
     <1>19, <1>20, <1>21, <1>22, <1>23 DEF Next

\* TypeOK in every state of every behaviour, for any pool and dialect.
THEOREM TypeCorrect == Spec => []TypeOK
<1>1. TInv => TypeOK
  BY DEF TInv
<1> QED
  BY InitTInv, StepTInv, <1>1, PTL DEF Spec

\* TypeOK, and a session without a connection has no block, savepoint or
\* work of its own, in every state.
THEOREM TInvHolds == Spec => []TInv
  BY InitTInv, StepTInv, PTL DEF Spec

-----------------------------------------------------------------------------
(* Own work.  OwnWork is not inductive: a session could roll its link back *)
(* to a savepoint of another content, or share the link.  Exclusive and    *)
(* Matching say that it cannot.                                            *)

\* The pool hands a link to one session at a time (QueuePool), and SQLite is
\* used without savepoints: its driver's late BEGIN breaks them.
Pooled == ~InMemory /\ (LazyBegin => MaxDepth = 0)

Exclusive == \A s, t \in Session : link[s] = link[t] /\ link[s] # NoLink => s = t

Matching == \A s \in Session : \A i \in 1..Len(savepoints[s]) :
    savepoints[s][i].changes = savepoints[s][i].wrote /\ ~savepoints[s][i].outermost

PInv == TInv /\ Exclusive /\ OwnWork /\ Matching

\* The first state has nothing pending.
LEMMA InitPInv == Init => PInv
<1> SUFFICES ASSUME Init PROVE PInv
  OBVIOUS
<1>1. Exclusive /\ OwnWork
  BY DEF Init, Exclusive, OwnWork
<1>2. Matching
  BY DEF Init, Matching
<1> QED
  BY <1>1, <1>2, InitTInv DEF PInv

\* A session that holds a link is the only one whose work is pending there:
\* what happens to that link and that session concerns no other.
LEMMA Local ==
    ASSUME PInv, NEW s \in Session, link[s] # NoLink,
           NEW w \in Changes,
           changes' = [changes EXCEPT ![link[s]] = w],
           wrote' = [wrote EXCEPT ![s] = w],
           \A l \in Link : l # link[s] => failed'[l] = failed[l],
           UNCHANGED link
    PROVE  Exclusive' /\ OwnWork'
<1> USE DEF PInv, TInv
<1>1. link[s] \in Link
  BY DEF TypeOK
<1>2. Exclusive'
  BY DEF Exclusive
<1>3. \A t \in Session : link[t] # NoLink => changes'[link[t]] = wrote'[t]
  BY <1>1 DEF Exclusive, OwnWork, TypeOK
<1>4. \A l \in Link : (\A t \in Session : link[t] # l) => changes'[l] = Nothing /\ ~failed'[l]
  BY <1>1 DEF OwnWork, TypeOK
<1> QED
  BY <1>2, <1>3, <1>4 DEF OwnWork

\* The same when the transaction ends and the link may go back to the pool.
LEMMA LocalEnd ==
    ASSUME PInv, NEW s \in Session, link[s] # NoLink,
           NEW commit \in BOOLEAN, EndTransaction(s, commit),
           \/ UNCHANGED link
           \/ link' = [link EXCEPT ![s] = NoLink]
    PROVE  Exclusive' /\ OwnWork'
<1> USE DEF PInv, TInv
<1>1. link[s] \in Link
  BY DEF TypeOK
<1>2. CASE UNCHANGED link
  BY <1>1, <1>2, Local, NothingType DEF EndTransaction, TypeOK
<1>3. CASE link' = [link EXCEPT ![s] = NoLink]
  <2>1. \A t \in Session \ {s} : link'[t] = link[t] /\ link[t] # link[s]
    BY <1>1, <1>3 DEF TypeOK, Exclusive
  <2>2. Exclusive'
    BY <1>3, <2>1 DEF Exclusive, TypeOK
  <2>3. \A t \in Session : link'[t] # NoLink => changes'[link'[t]] = wrote'[t]
    BY <1>1, <1>3, <2>1 DEF EndTransaction, OwnWork, TypeOK
  <2>4. \A l \in Link : (\A t \in Session : link'[t] # l) => changes'[l] = Nothing /\ ~failed'[l]
    BY <1>1, <1>3, <2>1 DEF EndTransaction, OwnWork, TypeOK
  <2> QED
    BY <2>2, <2>3, <2>4 DEF OwnWork
<1> QED
  BY <1>2, <1>3

\* Every step keeps pending work, links and savepoints matched to their session.
LEMMA StepPInv == Pooled /\ PInv /\ [Next]_vars => PInv'
<1> SUFFICES ASSUME Pooled, PInv, [Next]_vars PROVE PInv'
  OBVIOUS
<1>t. TInv'
  BY StepTInv DEF PInv
<1> USE DEF PInv, TInv
<1>1. ASSUME NEW s \in Session, NEW l \in Link, Checkout(s, l), UNCHANGED <<changes, failed, wrote>>
      PROVE  Exclusive' /\ OwnWork'
  <2>1. \A t \in Session : link[t] # l
    BY <1>1 DEF Checkout, Free, Pooled
  <2>2. \A t \in Session : link'[t] = IF t = s THEN l ELSE link[t]
    BY <1>1 DEF Checkout, TypeOK
  <2>3. Exclusive'
    BY <2>1, <2>2 DEF Exclusive
  <2>4. \A t \in Session : link'[t] # NoLink => changes'[link'[t]] = wrote'[t]
    BY <1>1, <2>1, <2>2 DEF OwnWork, Idle, Checkout
  <2>5. \A k \in Link : (\A t \in Session : link'[t] # k) => changes'[k] = Nothing /\ ~failed'[k]
    BY <1>1, <2>1, <2>2, LinkAssumption DEF OwnWork, Checkout
  <2> QED
    BY <2>3, <2>4, <2>5 DEF OwnWork
<1>2. ASSUME NEW s \in Session, NEW l \in Link, Connect(s, l) PROVE PInv'
  BY <1>t, <1>1, <1>2 DEF Connect, server, history, Matching
<1>3. ASSUME NEW s \in Session, NEW l \in Link, NEW mode \in TransactionMode,
             Enter(s, l, mode)
      PROVE PInv'
  BY <1>t, <1>1, <1>3 DEF Enter, OpenBlock, server, Matching
<1>4. ASSUME NEW s \in Session, NEW mode \in TransactionMode, Begin(s, mode) PROVE PInv'
  BY <1>t, <1>4 DEF Begin, OpenBlock, server, Matching, Exclusive, OwnWork
<1>5. ASSUME NEW s \in Session, NEW r \in Row, NEW entry \in Content \cup {Untouched},
             Modify(s, r, entry)
      PROVE PInv'
  <2>1. link[s] \in Link /\ changes[link[s]] = wrote[s]
    BY <1>5 DEF Modify, Ready, TypeOK, OwnWork
  <2> DEFINE w == [wrote[s] EXCEPT ![r] = entry]
  <2>2. w \in Changes
    BY DEF TypeOK, Changes
  <2>3. changes' = [changes EXCEPT ![link[s]] = w] /\ wrote' = [wrote EXCEPT ![s] = w]
    BY <1>5, <2>1 DEF Modify
  <2>4. Exclusive' /\ OwnWork'
    BY <1>5, <2>1, <2>2, <2>3, Local DEF Modify, Ready
  <2> QED
    BY <1>t, <1>5, <2>4 DEF Modify, Matching
<1>6. ASSUME NEW s \in Session, NEW r \in Row, Write(s, r) PROVE PInv'
  BY <1>5, <1>6 DEF Write, Content
<1>7. ASSUME NEW s \in Session, NEW r \in Row, Delete(s, r) PROVE PInv'
  <2>1. link[s] \in Link
    BY <1>7 DEF Delete, Modify, Ready, TypeOK
  <2>2. changes[link[s]][r] \in Content \cup {Untouched}
    BY <2>1 DEF TypeOK, Changes
  <2> QED
    BY <1>5, <1>7, <2>2 DEF Delete, Content
<1>8. ASSUME NEW s \in Session, Read(s) PROVE PInv'
  BY <1>t, <1>8 DEF Read, Exclusive, OwnWork, Matching
<1>9. ASSUME NEW s \in Session, StatementFails(s) PROVE PInv'
  <2>1. link[s] \in Link
    BY <1>9 DEF StatementFails, TypeOK
  <2>2. OwnWork'
    BY <1>9, <2>1 DEF StatementFails, OwnWork, TypeOK
  <2> QED
    BY <1>t, <1>9, <2>2 DEF StatementFails, Exclusive, Matching
<1>10. ASSUME NEW s \in Session, OpenSavepoint(s) PROVE PInv'
  <2>1. link[s] \in Link /\ changes[link[s]] = wrote[s]
    BY <1>10 DEF OpenSavepoint, Ready, TypeOK, OwnWork
  <2>2. ~LazyBegin
    BY <1>10 DEF OpenSavepoint, Pooled, TypeOK
  <2> DEFINE p == [changes |-> changes[link[s]], wrote |-> wrote[s],
                   outermost |-> LazyBegin /\ ~opened[link[s]]]
  <2>3. p.changes = p.wrote /\ ~p.outermost
    BY <2>1, <2>2
  <2>4. savepoints' = [savepoints EXCEPT ![s] = Append(@, p)]
    BY <1>10 DEF OpenSavepoint
  <2>5. p \in Savepoint /\ savepoints[s] \in Seq(Savepoint)
    BY <2>1 DEF TypeOK, Savepoint, LazyBegin
  <2> HIDE DEF p
  <2>6. \A i \in 1..Len(Append(savepoints[s], p)) :
            /\ Append(savepoints[s], p)[i].changes = Append(savepoints[s], p)[i].wrote
            /\ ~Append(savepoints[s], p)[i].outermost
    BY <2>3, <2>5 DEF Matching
  <2>7. Matching'
    BY <2>4, <2>6 DEF Matching, TypeOK
  <2> QED
    BY <1>t, <1>10, <2>7 DEF OpenSavepoint, Exclusive, OwnWork, history
<1>11. ASSUME NEW s \in Session, savepoints[s] # <<>>, savepoints' = Pop(s)
       PROVE  /\ Matching'
              /\ Innermost(s).changes = Innermost(s).wrote
              /\ ~Innermost(s).outermost
              /\ Innermost(s).changes \in Changes
              /\ link[s] # NoLink
  <2>1. savepoints[s] \in Seq(Savepoint) /\ Len(savepoints[s]) \in Nat \ {0}
    BY <1>11, EmptySeq DEF TypeOK
  <2>2. Len(savepoints[s]) \in 1..Len(savepoints[s]) /\ Innermost(s) \in Savepoint
    BY <2>1, ElementOfSeq DEF Innermost
  <2>3. \A i \in 1..(Len(savepoints[s]) - 1) :
            SubSeq(savepoints[s], 1, Len(savepoints[s]) - 1)[i] = savepoints[s][i]
    BY <2>1
  <2>4. Len(SubSeq(savepoints[s], 1, Len(savepoints[s]) - 1)) = Len(savepoints[s]) - 1
    BY <2>1
  <2>5. Matching'
    BY <1>11, <2>1, <2>3, <2>4 DEF Matching, Pop, TypeOK
  <2> QED
    BY <1>11, <2>2, <2>5 DEF Matching, Innermost, Savepoint, Idle
<1>12. ASSUME NEW s \in Session, ReleaseSavepoint(s) PROVE PInv'
  BY <1>t, <1>11, <1>12 DEF ReleaseSavepoint, Exclusive, OwnWork, history
<1>22. ASSUME NEW s \in Session, ReleaseFails(s) PROVE PInv'
  <2>1. Matching'
    BY <1>22 DEF ReleaseFails, Matching, TypeOK, server, history
  <2>2. Exclusive' /\ OwnWork'
    BY <1>22 DEF ReleaseFails, Exclusive, OwnWork, server, history
  <2> QED
    BY <1>t, <2>1, <2>2
<1>13. ASSUME NEW s \in Session, RollbackSavepoint(s) PROVE PInv'
  <2>1. Matching' /\ Innermost(s).changes = Innermost(s).wrote /\ link[s] # NoLink
        /\ Innermost(s).changes \in Changes
    BY <1>11, <1>13 DEF RollbackSavepoint
  <2>2. Exclusive' /\ OwnWork'
    BY <1>13, <2>1, Local DEF RollbackSavepoint, TypeOK
  <2> QED
    BY <1>t, <2>1, <2>2
<1>14. ASSUME NEW s \in Session, scope[s] # NoScope \/ begun[s] PROVE link[s] # NoLink
  BY <1>14 DEF Idle
<1>15. ASSUME NEW s \in Session, LeaveBlock(s)
       PROVE  /\ UNCHANGED link \/ link' = [link EXCEPT ![s] = NoLink]
              /\ Matching'
  BY <1>15 DEF LeaveBlock, Matching
<1>16. ASSUME NEW s \in Session, CommitExit(s) PROVE PInv'
  BY <1>t, <1>14, <1>15, <1>16, LocalEnd DEF CommitExit, NoScope
<1>17. ASSUME NEW s \in Session, RollbackExit(s) PROVE PInv'
  BY <1>t, <1>14, <1>15, <1>17, LocalEnd DEF RollbackExit
<1>18. ASSUME NEW s \in Session, CommitFails(s) PROVE PInv'
  <2>1. CASE EndTransaction(s, FALSE)
    BY <1>t, <1>14, <1>15, <1>18, <2>1, LocalEnd DEF CommitFails, NoScope
  <2>2. CASE s \notin Uow /\ UNCHANGED <<changes, opened, failed, history>>
    BY <1>t, <1>18, <2>2 DEF CommitFails, LeaveBlock, history, Exclusive, OwnWork, Matching
  <2> QED
    BY <1>18, <2>1, <2>2 DEF CommitFails
<1>19. ASSUME NEW s \in Session, ConnectionCommit(s) PROVE PInv'
  BY <1>t, <1>14, <1>15, <1>19, LocalEnd DEF ConnectionCommit
<1>20. ASSUME NEW s \in Session, Close(s) PROVE PInv'
  <2>1. Matching'
    BY <1>20 DEF Close, Matching, TypeOK
  <2> QED
    BY <1>t, <1>20, <2>1, LocalEnd DEF Close
<1>21. CASE UNCHANGED vars
  BY <1>t, <1>21 DEF vars, server, history, Exclusive, OwnWork, Matching
<1> QED
  BY <1>2, <1>3, <1>4, <1>6, <1>7, <1>8, <1>9, <1>10, <1>12, <1>13, <1>16, <1>17,
     <1>18, <1>19, <1>20, <1>21, <1>22 DEF Next

\* With a link per session, a commit on a link can only make its holder's own
\* work durable, and no session inherits anything from a link's last holder.
THEOREM OwnWorkHolds == Pooled => (Spec => []OwnWork)
<1> SUFFICES ASSUME Pooled PROVE Spec => []OwnWork
  OBVIOUS
<1>1. PInv /\ [Next]_vars => PInv'
  BY StepPInv
<1>2. PInv => OwnWork
  BY DEF PInv
<1> QED
  BY InitPInv, <1>1, <1>2, PTL DEF Spec

-----------------------------------------------------------------------------
(* Who changes the tables *)

\* The steps that change the tables are commits of the session that makes them.
LEMMA TableSteps ==
    ASSUME Pooled, PInv, [Next]_vars, db' # db
    PROVE  \E s \in Session :
              /\ link[s] \in Link
              /\ db' = Overlay(db, wrote[s])
              /\ CommitExit(s) \/ ConnectionCommit(s)
<1> USE DEF PInv, TInv
<1>1. ~UNCHANGED vars
  BY DEF vars, server
<1>2. PICK s \in Session : CommitExit(s) \/ ConnectionCommit(s) \/ ReleaseSavepoint(s)
  BY <1>1 DEF Next, Connect, Enter, Begin, OpenBlock, Write, Delete, Modify, Read,
     StatementFails, ReleaseFails, OpenSavepoint, RollbackSavepoint, RollbackExit, CommitFails, Close, server
<1>3. ~ReleaseSavepoint(s)
  <2> SUFFICES ASSUME ReleaseSavepoint(s) PROVE FALSE
    OBVIOUS
  <2>1. savepoints[s] \in Seq(Savepoint) /\ Len(savepoints[s]) \in Nat \ {0}
    BY EmptySeq DEF TypeOK, ReleaseSavepoint
  <2>2. ~Innermost(s).outermost
    BY <2>1 DEF Matching, Innermost
  <2> QED
    BY <2>2 DEF ReleaseSavepoint
<1>4. link[s] \in Link /\ changes[link[s]] = wrote[s]
  BY <1>2, <1>3 DEF CommitExit, ConnectionCommit, NoScope, Idle, TypeOK, OwnWork
<1>5. db' = Overlay(db, wrote[s])
  BY <1>2, <1>3, <1>4 DEF CommitExit, ConnectionCommit, Durable, Visible
<1> QED
  BY <1>2, <1>3, <1>4, <1>5

\* begin() and the first statement clear the committed mark: whoever is in a
\* transaction has not committed it.
Open == \A s \in Session : begun[s] => ~committed[s]
Scoped == \A s \in Session : scope[s] # NoScope => begun[s]
OInv == PInv /\ Open /\ Scoped

\* The first state has no open block.
LEMMA InitOInv == Init => OInv
<1> SUFFICES ASSUME Init PROVE OInv
  OBVIOUS
<1> QED
  BY InitPInv DEF Init, OInv, Open, Scoped

\* Every step keeps open blocks begun and uncommitted.
LEMMA StepOInv == Pooled /\ OInv /\ [Next]_vars => OInv'
<1> SUFFICES ASSUME Pooled, OInv, [Next]_vars PROVE Open' /\ Scoped'
  BY StepPInv DEF OInv
<1> USE DEF OInv, Open, Scoped
<1>t. TypeOK
  BY DEF PInv, TInv
<1>1. ASSUME NEW s \in Session, NEW l \in Link, Connect(s, l) PROVE Open' /\ Scoped'
  BY <1>1 DEF Connect, history
<1>2. ASSUME NEW s \in Session, NEW mode \in TransactionMode, OpenBlock(s, mode)
      PROVE Open' /\ Scoped'
  BY <1>t, <1>2 DEF OpenBlock, TypeOK
<1>3. ASSUME NEW s \in Session, Autobegin(s), UNCHANGED scope PROVE Open' /\ Scoped'
  BY <1>t, <1>3 DEF Autobegin, TypeOK
<1>4. ASSUME NEW s \in Session, NEW r \in Row, Write(s, r) \/ Delete(s, r)
      PROVE Open' /\ Scoped'
  BY <1>3, <1>4 DEF Write, Delete, Modify
<1>5. ASSUME NEW s \in Session, Read(s) \/ StatementFails(s) PROVE Open' /\ Scoped'
  BY <1>3, <1>5 DEF Read, StatementFails
<1>6. ASSUME NEW s \in Session,
             OpenSavepoint(s) \/ ReleaseSavepoint(s) \/ RollbackSavepoint(s) \/ ReleaseFails(s)
      PROVE Open' /\ Scoped'
  BY <1>6 DEF OpenSavepoint, ReleaseSavepoint, RollbackSavepoint, ReleaseFails, history
<1>7. ASSUME NEW s \in Session, NEW commit \in BOOLEAN, EndTransaction(s, commit), LeaveBlock(s)
      PROVE Open' /\ Scoped'
  BY <1>t, <1>7 DEF EndTransaction, LeaveBlock, TypeOK
<1>8. ASSUME NEW s \in Session, CommitExit(s) \/ RollbackExit(s) \/ ConnectionCommit(s)
      PROVE Open' /\ Scoped'
  BY <1>7, <1>8 DEF CommitExit, RollbackExit, ConnectionCommit
<1>9. ASSUME NEW s \in Session, CommitFails(s) PROVE Open' /\ Scoped'
  BY <1>t, <1>7, <1>9 DEF CommitFails, LeaveBlock, history, TypeOK
<1>10. ASSUME NEW s \in Session, Close(s) PROVE Open' /\ Scoped'
  BY <1>t, <1>10 DEF Close, EndTransaction, TypeOK
<1>11. CASE UNCHANGED vars
  BY <1>11 DEF vars, history
<1> QED
  BY <1>1, <1>2, <1>4, <1>5, <1>6, <1>8, <1>9, <1>10, <1>11 DEF Next, Enter, Begin

\* The invariant about open blocks holds in every state.
LEMMA OInvHolds == Pooled => (Spec => []OInv)
<1> SUFFICES ASSUME Pooled PROVE Spec => []OInv
  OBVIOUS
<1>1. OInv /\ [Next]_vars => OInv'
  BY StepOInv
<1> QED
  BY InitOInv, <1>1, PTL DEF Spec

\* A clean COMMIT exit or a commit of the connection marks its session.
LEMMA CommittersCommit ==
    ASSUME OInv, NEW s \in Session, CommitExit(s) \/ ConnectionCommit(s)
    PROVE  Commits(s)
BY DEF OInv, PInv, TInv, TypeOK, Open, Scoped, CommitExit, ConnectionCommit,
       EndTransaction, Commits, NoScope

\* No statement, rollback, savepoint or close of anybody makes a write
\* durable; a commit makes exactly its own session's work durable.
THEOREM OnlyCommitsHolds == Pooled => (Spec => OnlyCommitsChangeTables)
<1> SUFFICES ASSUME Pooled PROVE Spec => OnlyCommitsChangeTables
  OBVIOUS
<1>1. OInv /\ [Next]_vars =>
        [db' # db => \E s \in Session : Commits(s) /\ db' = Overlay(db, wrote[s])]_vars
  BY TableSteps, CommittersCommit DEF OInv
<1>2. Spec => []OInv
  BY OInvHolds
<1> QED
  BY <1>1, <1>2, PTL DEF Spec, OnlyCommitsChangeTables

\* The only steps that mark a session as committed.
LEMMA CommitsAreCommits ==
    ASSUME TypeOK, [Next]_vars, NEW s \in Session, Commits(s)
    PROVE  CommitExit(s) \/ ConnectionCommit(s)
<1>1. ~UNCHANGED committed
  BY DEF Commits
<1>2. ASSUME NEW t \in Session, NEW mode \in TransactionMode, OpenBlock(t, mode) PROVE FALSE
  BY <1>2 DEF OpenBlock, Commits, TypeOK
<1>3. ASSUME NEW t \in Session, Autobegin(t) PROVE FALSE
  BY <1>3 DEF Autobegin, Commits, TypeOK
<1>4. ASSUME NEW t \in Session, EndTransaction(t, FALSE) PROVE FALSE
  BY <1>4 DEF EndTransaction, Commits, TypeOK
<1>5. ASSUME NEW t \in Session, EndTransaction(t, TRUE) PROVE t = s
  BY <1>5 DEF EndTransaction, Commits, TypeOK
<1>6. PICK t \in Session : CommitExit(t) \/ ConnectionCommit(t)
  BY <1>1, <1>2, <1>3, <1>4 DEF Next, Connect, Enter, Begin, Write, Delete, Modify, Read,
     StatementFails, ReleaseFails, OpenSavepoint, ReleaseSavepoint, RollbackSavepoint, RollbackExit,
     CommitFails, Close, history, vars
<1> QED
  BY <1>5, <1>6 DEF CommitExit, ConnectionCommit

\* Where a commit after a caught statement error is still a commit (every
\* dialect but PostgreSQL), a committed block has all its writes in the tables.
THEOREM CommitIsDurableHolds ==
    Pooled /\ ~AbortsOnError => (Spec => CommitIsDurable)
<1> SUFFICES ASSUME Pooled, ~AbortsOnError PROVE Spec => CommitIsDurable
  OBVIOUS
<1> DEFINE NeverFailed == \A l \in Link : ~failed[l]
           A == \A s \in Session, r \in Row :
                  Commits(s) /\ wrote[s][r] # Untouched => db'[r] = wrote[s][r]
<1>1. Init => NeverFailed
  BY DEF Init
<1>2. NeverFailed /\ OInv /\ [Next]_vars => NeverFailed'
  <2> SUFFICES ASSUME NeverFailed, OInv, [Next]_vars, NEW l \in Link PROVE ~failed'[l]
    OBVIOUS
  <2>1. TypeOK
    BY DEF OInv, PInv, TInv
  <2> QED
    BY <2>1 DEF TypeOK, Next, Connect, Enter, Begin, OpenBlock, Write, Delete, Modify, Read,
       StatementFails, ReleaseFails, OpenSavepoint, ReleaseSavepoint, RollbackSavepoint, CommitExit,
       RollbackExit, CommitFails, ConnectionCommit, Close, EndTransaction, server, vars
<1>3. NeverFailed /\ OInv /\ [Next]_vars => [A]_vars
  <2> SUFFICES ASSUME NeverFailed, OInv, [Next]_vars, NEW s \in Session, NEW r \in Row,
                      Commits(s), wrote[s][r] # Untouched
               PROVE  db'[r] = wrote[s][r]
    OBVIOUS
  <2> USE DEF OInv, PInv, TInv
  <2>1. CommitExit(s) \/ ConnectionCommit(s)
    BY CommitsAreCommits DEF Commits
  <2>2. link[s] \in Link /\ changes[link[s]] = wrote[s]
    BY <2>1 DEF CommitExit, ConnectionCommit, NoScope, Idle, TypeOK, OwnWork
  <2>3. db' = Overlay(db, wrote[s])
    BY <2>1, <2>2 DEF CommitExit, ConnectionCommit, Durable, Visible
  <2> QED
    BY <2>3 DEF Overlay
<1>4. Spec => []OInv
  BY OInvHolds
<1> QED
  BY <1>1, <1>2, <1>3, <1>4, PTL DEF Spec, CommitIsDurable

-----------------------------------------------------------------------------
(* Zero trace.  A row carries the session that wrote it, so what is pending *)
(* or saved for s carries s.                                               *)

Own(s) == [Row -> {s, Absent, Untouched}]

Tagged == \A s \in Session :
    /\ wrote[s] \in Own(s)
    /\ \A i \in 1..Len(savepoints[s]) : savepoints[s][i].wrote \in Own(s)

\* In the first state no entry carries another session's mark.
LEMMA InitTagged == Init => Tagged
<1> SUFFICES ASSUME Init, NEW s \in Session
             PROVE  /\ wrote[s] \in Own(s)
                    /\ \A i \in 1..Len(savepoints[s]) : savepoints[s][i].wrote \in Own(s)
  BY DEF Tagged
<1>1. wrote[s] = Nothing /\ savepoints[s] = <<>>
  BY DEF Init
<1>2. Nothing \in Own(s)
  BY DEF Nothing, Own
<1>3. 1..Len(savepoints[s]) = {}
  BY <1>1
<1> QED
  BY <1>1, <1>2, <1>3

\* Every step leaves a session's entries marked as its own.
LEMMA StepTagged == PInv /\ Tagged /\ [Next]_vars => Tagged'
<1> SUFFICES ASSUME PInv, Tagged, [Next]_vars PROVE Tagged'
  OBVIOUS
<1> USE DEF PInv, TInv
<1>1. ASSUME UNCHANGED <<wrote, savepoints>> PROVE Tagged'
  BY <1>1 DEF Tagged
<1>2. ASSUME NEW s \in Session, NEW r \in Row, NEW entry \in {s, Absent, Untouched},
             Modify(s, r, entry)
      PROVE Tagged'
  BY <1>2 DEF Modify, Tagged, Own, TypeOK
<1>3. ASSUME NEW s \in Session, NEW r \in Row, Write(s, r) PROVE Tagged'
  BY <1>2, <1>3 DEF Write
<1>4. ASSUME NEW s \in Session, NEW r \in Row, Delete(s, r) PROVE Tagged'
  <2>1. changes[link[s]] = wrote[s]
    BY <1>4 DEF Delete, Modify, Ready, OwnWork
  <2>2. changes[link[s]][r] \in {s, Absent, Untouched}
    BY <2>1 DEF Tagged, Own
  <2> QED
    BY <1>2, <1>4, <2>2 DEF Delete
<1>5. ASSUME NEW s \in Session, OpenSavepoint(s) PROVE Tagged'
  <2> DEFINE p == [changes |-> changes[link[s]], wrote |-> wrote[s],
                   outermost |-> LazyBegin /\ ~opened[link[s]]]
  <2>1. p.wrote \in Own(s)
    BY DEF Tagged
  <2>2. p \in Savepoint /\ savepoints[s] \in Seq(Savepoint)
    BY <1>5 DEF OpenSavepoint, Ready, TypeOK, Savepoint, LazyBegin
  <2>3. savepoints' = [savepoints EXCEPT ![s] = Append(@, p)] /\ wrote' = wrote
    BY <1>5 DEF OpenSavepoint, history
  <2> HIDE DEF p
  <2>4. \A i \in 1..Len(Append(savepoints[s], p)) : Append(savepoints[s], p)[i].wrote \in Own(s)
    BY <2>1, <2>2 DEF Tagged
  <2> QED
    BY <2>3, <2>4 DEF Tagged, TypeOK
<1>6. ASSUME NEW s \in Session, savepoints[s] # <<>>
      PROVE  /\ Innermost(s).wrote \in Own(s)
             /\ \A t \in Session : \A i \in 1..Len(Pop(s)[t]) : Pop(s)[t][i].wrote \in Own(t)
  <2>1. savepoints[s] \in Seq(Savepoint) /\ Len(savepoints[s]) \in Nat \ {0}
    BY <1>6, EmptySeq DEF TypeOK
  <2>2. Len(savepoints[s]) \in 1..Len(savepoints[s])
    BY <2>1
  <2>3. \A i \in 1..(Len(savepoints[s]) - 1) :
            SubSeq(savepoints[s], 1, Len(savepoints[s]) - 1)[i] = savepoints[s][i]
    BY <2>1
  <2>4. Len(SubSeq(savepoints[s], 1, Len(savepoints[s]) - 1)) = Len(savepoints[s]) - 1
    BY <2>1
  <2> QED
    BY <2>1, <2>2, <2>3, <2>4 DEF Tagged, Pop, Innermost, TypeOK
<1>7. ASSUME NEW s \in Session, ReleaseSavepoint(s) PROVE Tagged'
  BY <1>6, <1>7 DEF ReleaseSavepoint, Tagged, history
<1>12. ASSUME NEW s \in Session, ReleaseFails(s) PROVE Tagged'
  BY <1>12 DEF ReleaseFails, Tagged, TypeOK, history
<1>8. ASSUME NEW s \in Session, RollbackSavepoint(s) PROVE Tagged'
  BY <1>6, <1>8 DEF RollbackSavepoint, Tagged, TypeOK
<1>9. ASSUME NEW s \in Session, wrote' = [wrote EXCEPT ![s] = Nothing],
             savepoints' = savepoints \/ savepoints' = [savepoints EXCEPT ![s] = <<>>]
      PROVE Tagged'
  BY <1>9 DEF Tagged, TypeOK, Own, Nothing
<1>10. ASSUME NEW s \in Session, CommitExit(s) \/ RollbackExit(s) \/ ConnectionCommit(s) \/ Close(s)
       PROVE Tagged'
  BY <1>9, <1>10 DEF CommitExit, RollbackExit, ConnectionCommit, Close, EndTransaction, LeaveBlock
<1>11. ASSUME NEW s \in Session, CommitFails(s) PROVE Tagged'
  BY <1>1, <1>9, <1>11 DEF CommitFails, EndTransaction, LeaveBlock, history
<1> QED
  BY <1>1, <1>3, <1>4, <1>5, <1>7, <1>8, <1>10, <1>11, <1>12
     DEF Next, Connect, Enter, Begin, OpenBlock, Read, StatementFails, history, vars

\* A row written in a ROLLBACK or READ_ONLY block never becomes durable.
THEOREM ZeroTraceHolds == Pooled => (Spec => ZeroTrace)
<1> SUFFICES ASSUME Pooled PROVE Spec => ZeroTrace
  OBVIOUS
<1> DEFINE A == \A s \in Session, r \in Row :
                  db'[r] = s /\ db[r] # s => scope[s] \notin {"rollback", "read_only"}
<1>1. OInv /\ Tagged /\ [Next]_vars => [A]_vars
  <2> SUFFICES ASSUME OInv, Tagged, [Next]_vars, NEW s \in Session, NEW r \in Row,
                      db'[r] = s, db[r] # s
               PROVE  scope[s] \notin {"rollback", "read_only"}
    OBVIOUS
  <2>1. PICK t \in Session : db' = Overlay(db, wrote[t]) /\ (CommitExit(t) \/ ConnectionCommit(t))
    BY TableSteps DEF OInv
  <2>2. wrote[t][r] = s
    BY <2>1 DEF Overlay
  <2>3. s = t
    BY <2>2, AbsentAssumption, UntouchedAssumption DEF Tagged, Own
  <2> QED
    BY <2>1, <2>3 DEF CommitExit, ConnectionCommit, NoScope
<1>2. OInv /\ Tagged /\ [Next]_vars => Tagged'
  BY StepTagged DEF OInv
<1>3. Spec => []OInv
  BY OInvHolds
<1> QED
  BY InitTagged, <1>1, <1>2, <1>3, PTL DEF Spec, ZeroTrace

-----------------------------------------------------------------------------
(* Refinement of AtomicStore *)

Pending == [s \in Session |-> IF link[s] = NoLink THEN Nothing ELSE changes[link[s]]]

\* What the refinement maps to the abstract work is the history wrote.
LEMMA PendingIsWrote == PInv => Pending = wrote
BY DEF PInv, TInv, TypeOK, Idle, OwnWork, Pending

\* One session's history changes at a time.
LEMMA WroteSteps ==
    ASSUME TInv, TInv', [Next]_vars
    PROVE  \/ UNCHANGED wrote
           \/ \E s \in Session, w \in Changes : wrote' = [wrote EXCEPT ![s] = w]
<1>1. ASSUME NEW s \in Session, \A t \in Session \ {s} : wrote'[t] = wrote[t]
      PROVE  \E w \in Changes : wrote' = [wrote EXCEPT ![s] = w]
  <2>1. wrote' = [wrote EXCEPT ![s] = wrote'[s]] /\ wrote'[s] \in Changes
    BY <1>1 DEF TInv, TypeOK
  <2> QED
    BY <2>1
<1> DEFINE Only(s) == \A t \in Session \ {s} : wrote'[t] = wrote[t]
<1>2. \A s \in Session, r \in Row : \A entry :
        Modify(s, r, entry) => Only(s)
  BY DEF TInv, TypeOK, Modify
<1>3. \A s \in Session : RollbackSavepoint(s) => Only(s)
  BY DEF TInv, TypeOK, RollbackSavepoint
<1>4. \A s \in Session, commit \in BOOLEAN : EndTransaction(s, commit) => Only(s)
  BY DEF TInv, TypeOK, EndTransaction
<1> HIDE DEF Only
<1>5. UNCHANGED wrote \/ \E s \in Session : Only(s)
  <2>1. ASSUME NEW s \in Session, NEW r \in Row, Write(s, r) \/ Delete(s, r) PROVE Only(s)
    BY <1>2, <2>1 DEF Write, Delete
  <2>2. ASSUME NEW s \in Session,
               CommitExit(s) \/ RollbackExit(s) \/ ConnectionCommit(s) \/ Close(s)
        PROVE  Only(s)
    BY <1>4, <2>2 DEF CommitExit, RollbackExit, ConnectionCommit, Close
  <2>3. ASSUME NEW s \in Session, CommitFails(s) PROVE UNCHANGED wrote \/ Only(s)
    BY <1>4, <2>3 DEF CommitFails, history
  <2>4. ASSUME NEW s \in Session,
               \/ OpenSavepoint(s) \/ ReleaseSavepoint(s) \/ ReleaseFails(s) \/ Read(s)
               \/ StatementFails(s)
               \/ \E l \in Link : Connect(s, l)
               \/ \E l \in Link, mode \in TransactionMode : Enter(s, l, mode)
               \/ \E mode \in TransactionMode : Begin(s, mode)
        PROVE  UNCHANGED wrote
    BY <2>4 DEF Connect, Enter, Begin, OpenBlock, Read, StatementFails, OpenSavepoint,
       ReleaseSavepoint, ReleaseFails, history
  <2> QED
    BY <1>3, <2>1, <2>2, <2>3, <2>4 DEF Next, history, vars
<1> QED
  BY <1>1, <1>5 DEF Only

\* The database layer implements AtomicStore.
THEOREM Refines == Pooled => (Spec => Refinement)
<1> SUFFICES ASSUME Pooled PROVE Spec => Refinement
  OBVIOUS
<1>1. Init => Atomic!AbsInit
  <2> SUFFICES ASSUME Init PROVE Atomic!AbsInit
    OBVIOUS
  <2> QED
    BY DEF Init, Atomic!AbsInit, Empty, Nothing, Atomic!Empty, Atomic!Nothing
<1>2. OInv /\ OInv' /\ [Next]_vars => [Atomic!AbsNext]_(Atomic!absVars)
  <2> SUFFICES ASSUME OInv, OInv', [Next]_vars PROVE [Atomic!AbsNext]_(Atomic!absVars)
    OBVIOUS
  <2>1. Pending = wrote
    BY PendingIsWrote DEF OInv
  <2>2. (PInv => Pending = wrote)'
    BY PendingIsWrote, PTL
  <2>3. Pending' = wrote'
    BY <2>2 DEF OInv
  <2>4. CASE db' # db
    <3>1. PICK s \in Session : db' = Overlay(db, wrote[s]) /\ (CommitExit(s) \/ ConnectionCommit(s))
      BY <2>4, TableSteps DEF OInv
    <3>2. wrote' = [wrote EXCEPT ![s] = Nothing]
      BY <3>1 DEF CommitExit, ConnectionCommit, EndTransaction
    <3>3. Atomic!Commit(s)
      BY <2>1, <2>3, <3>1, <3>2 DEF Atomic!Commit, Atomic!Overlay, Atomic!Nothing, Overlay, Nothing, Pending
    <3> QED
      BY <3>3 DEF Atomic!AbsNext
  <2>5. CASE db' = db /\ wrote' # wrote
    <3>1. PICK s \in Session, w \in Changes : wrote' = [wrote EXCEPT ![s] = w]
      BY <2>5, WroteSteps DEF OInv, PInv
    <3>2. Atomic!Work(s)
      BY <2>1, <2>3, <2>5, <3>1 DEF Atomic!Work, Atomic!Changes, Atomic!Content, Changes, Content, Pending
    <3> QED
      BY <3>2 DEF Atomic!AbsNext
  <2>6. CASE db' = db /\ wrote' = wrote
    BY <2>1, <2>3, <2>6 DEF Atomic!absVars, Pending
  <2> QED
    BY <2>4, <2>5, <2>6
<1>3. Spec => []OInv
  BY OInvHolds
<1> QED
  BY <1>1, <1>2, <1>3, PTL DEF Spec, Refinement, Atomic!AbsSpec


LEMMA Bounds == MaxPosts \in Nat /\ MaxId \in Nat /\ MaxTests \in Nat /\ MaxRestarts \in Nat
  BY BoundAssumption

\* Appending to and popping from a sequence, index by index.
LEMMA Push ==
  ASSUME NEW S, NEW s \in Seq(S), NEW e \in S
  PROVE  LET t == s \o <<e>>
         IN  /\ t \in Seq(S) /\ Len(t) = Len(s) + 1 /\ t[Len(s) + 1] = e
             /\ \A i \in 1..Len(s) : t[i] = s[i]
  OBVIOUS

LEMMA PopSeq ==
  ASSUME NEW S, NEW s \in Seq(S), s # <<>>
  PROVE  /\ Front(s) \in Seq(S) /\ Len(Front(s)) = Len(s) - 1
         /\ Len(s) \in Nat \ {0} /\ Last(s) = s[Len(s)] /\ Last(s) \in S
         /\ \A i \in 1..Len(s) - 1 : Front(s)[i] = s[i]
<1>1. Len(s) \in Nat \ {0}
  OBVIOUS
<1>2. Last(s) = s[Len(s)] /\ s[Len(s)] \in S
  BY <1>1 DEF Last
<1>3. Front(s) = SubSeq(s, 1, Len(s) - 1)
  BY DEF Front
<1>4. \A i \in 1..Len(s) - 1 : s[i] \in S
  BY <1>1
<1> DEFINE n == Len(s) - 1
<1> HIDE DEF n
<1>5. n \in Int /\ \A i \in 1..n : s[i] \in S
  BY <1>1, <1>4 DEF n
<1>6. /\ SubSeq(s, 1, n) \in Seq(S)
      /\ Len(SubSeq(s, 1, n)) = IF 1 <= n THEN n - 1 + 1 ELSE 0
      /\ \A i \in 1..(n - 1 + 1) : SubSeq(s, 1, n)[i] = s[1 + i - 1]
  BY <1>5, SubSeqProperties
<1>7. Len(Front(s)) = Len(s) - 1 /\ Front(s) \in Seq(S)
  <2>1. n \in Nat
    BY <1>1 DEF n
  <2>2. (IF 1 <= n THEN n - 1 + 1 ELSE 0) = n
    BY <2>1
  <2> QED
    BY <1>3, <1>6, <2>2 DEF n
<1>8. ASSUME NEW i \in 1..Len(s) - 1 PROVE Front(s)[i] = s[i]
  <2>1. i \in 1..(n - 1 + 1) /\ 1 + i - 1 = i
    BY <1>1 DEF n
  <2> QED
    BY <1>3, <1>6, <2>1 DEF n
<1> QED
  BY <1>1, <1>2, <1>7, <1>8

\* The two callbacks of Register.
RowsOf(h) == [db |-> h.db, api |-> {}]
RecordsOf(h) == [db |-> {}, api |-> h.api]

LEMMA Registered ==
  ASSUME SeedingTypeOK, NEW w \in Worker, Register(w)
  PROVE  /\ RowsOf(handle[w]) \in Callback /\ RecordsOf(handle[w]) \in Callback
         /\ \/ /\ handle[w].api = {}
               /\ callbacks'[w] = callbacks[w] \o <<RowsOf(handle[w])>>
            \/ /\ handle[w].api # {}
               /\ callbacks'[w] = (callbacks[w] \o <<RowsOf(handle[w])>>) \o <<RecordsOf(handle[w])>>
         /\ callbacks'[w] \in Seq(Callback)
         /\ callbacks' = [callbacks EXCEPT ![w] = callbacks'[w]]
<1>1. /\ callbacks[w] \in Seq(Callback) /\ handle[w] \in Callback
      /\ callbacks \in [Worker -> Seq(Callback)]
  BY DEF SeedingTypeOK
<1>2. RowsOf(handle[w]) \in Callback /\ RecordsOf(handle[w]) \in Callback
  BY <1>1 DEF RowsOf, RecordsOf, Callback
<1>3. callbacks[w] \o <<RowsOf(handle[w])>> \in Seq(Callback)
  BY <1>1, <1>2, Push
<1>4. callbacks'[w] = callbacks[w] \o <<RowsOf(handle[w])>> \o
          (IF handle[w].api = {} THEN <<>> ELSE <<RecordsOf(handle[w])>>)
  BY <1>1 DEF Register, RowsOf, RecordsOf
<1>5. callbacks' = [callbacks EXCEPT ![w] = callbacks'[w]]
  BY <1>1 DEF Register
<1>6. CASE handle[w].api = {}
  BY <1>1, <1>2, <1>3, <1>4, <1>5, <1>6
<1>7. CASE handle[w].api # {}
  <2>1. callbacks'[w] = (callbacks[w] \o <<RowsOf(handle[w])>>) \o <<RecordsOf(handle[w])>>
    BY <1>4, <1>7
  <2>2. callbacks'[w] \in Seq(Callback)
    BY <2>1, <1>2, <1>3, Push
  <2> QED
    BY <2>1, <2>2, <1>2, <1>5, <1>7
<1> QED
  BY <1>6, <1>7

-----------------------------------------------------------------------------
(* Type correctness *)

LEMMA InitType == SeedingInit => SeedingTypeOK
<1> SUFFICES ASSUME SeedingInit PROVE SeedingTypeOK
  OBVIOUS
<1>1. NoHandle \in Callback
  BY DEF NoHandle, Callback
<1>2. 0 \in 0..MaxId /\ 0 \in 0..MaxPosts /\ 0 \in 0..MaxTests /\ 0 \in 0..MaxRestarts
  BY Bounds
<1>3. handle \in [Worker -> Callback] /\ callbacks \in [Worker -> Seq(Callback)]
  BY <1>1 DEF SeedingInit
<1>4. sequence \in [Worker -> [Kind -> 0..MaxId]]
  BY <1>2 DEF SeedingInit, NewProcess
<1> QED
  BY <1>2, <1>3, <1>4 DEF SeedingInit, SeedingTypeOK, NoTest, Test, Stage

\* A scenario's entities are ids of the tables.
LEMMA EntitiesType ==
  ASSUME SeedingTypeOK, NEW w \in Worker, NEW scenario \in Scenario, TakeIds(w, scenario)
  PROVE  Entities(w, scenario) \subseteq Id /\ sequence' \in [Worker -> [Kind -> 0..MaxId]]
<1>1. scenario \subseteq Kind /\ sequence[w] \in [Kind -> 0..MaxId]
  BY ScenarioAssumption DEF SeedingTypeOK
<1>2. \A k \in scenario : sequence[w][k] + 1 \in 1..MaxId
  BY <1>1, Bounds DEF TakeIds
<1>3. [k \in Kind |-> IF k \in scenario THEN sequence[w][k] + 1 ELSE sequence[w][k]]
        \in [Kind -> 0..MaxId]
  BY <1>1, <1>2, Bounds
<1>4. sequence' \in [Worker -> [Kind -> 0..MaxId]]
  BY <1>3 DEF TakeIds, SeedingTypeOK
<1> QED
  BY <1>1, <1>2, <1>4, KindAssumption DEF Entities, Id

\* A callback popped leaves sequences of callbacks.
LEMMA PopType ==
  ASSUME SeedingTypeOK, NEW w \in Worker, callbacks[w] # <<>>, callbacks' = Popped(w)
  PROVE  /\ callbacks' \in [Worker -> Seq(Callback)] /\ Newest(w) \in Callback
         /\ callbacks'[w] = Front(callbacks[w])
<1>1. callbacks[w] \in Seq(Callback) /\ callbacks \in [Worker -> Seq(Callback)]
  BY DEF SeedingTypeOK
<1>2. Front(callbacks[w]) \in Seq(Callback) /\ Last(callbacks[w]) \in Callback
  BY <1>1, PopSeq
<1> QED
  BY <1>1, <1>2 DEF Popped, Newest

\* To blame the running test keeps the type of the excuses.
LEMMA BlameType ==
  ASSUME SeedingTypeOK, NEW w \in Worker, NEW why \in Excuse, Blame(w, why)
  PROVE  /\ excuse' \in [Test -> SUBSET Excuse]
         /\ \A t \in Test : excuse[t] \subseteq excuse'[t]
         /\ current[w] \in Test => excuse'[current[w]] # {}
  BY DEF SeedingTypeOK, Blame

\* Removing from a table keeps its type.
LEMMA RemainingType ==
  ASSUME NEW D, NEW table \in [D -> Test \cup {NoTest}], NEW gone
  PROVE  /\ Remaining(table, gone) \in [D -> Test \cup {NoTest}]
         /\ \A x \in D : Remaining(table, gone)[x] = IF x \in gone THEN NoTest ELSE table[x]
  BY DEF Remaining

\* While payloads are posted there is one left, so posts never goes below zero.
PostsLeft == \A w \in Worker : stage[w] = "posting" => posts[w] > 0

LEMMA NextPosts == SeedingTypeOK /\ PostsLeft /\ [SeedingNext]_seedingVars => PostsLeft'
<1> SUFFICES ASSUME SeedingTypeOK, PostsLeft, [SeedingNext]_seedingVars, NEW v \in Worker, stage'[v] = "posting"
             PROVE  posts'[v] > 0
  BY DEF PostsLeft
<1>1. /\ stage \in [Worker -> Stage] /\ posts \in [Worker -> 0..MaxPosts]
      /\ stage[v] = "posting" => posts[v] > 0
  BY DEF SeedingTypeOK, PostsLeft
<1>2. ASSUME NEW w \in Worker, NEW scenario \in Scenario, SeedScenario(w, scenario)
      PROVE  posts'[v] > 0
  <2>1. PICK n \in 0..MaxPosts :
            /\ posts' = [posts EXCEPT ![w] = n]
            /\ stage' = [stage EXCEPT ![w] = IF n = 0 THEN "seeded" ELSE "posting"]
    BY <1>2 DEF SeedScenario
  <2> QED
    BY <2>1, <1>1, Bounds
<1>3. ASSUME NEW w \in Worker, SeedApi(w) PROVE posts'[v] > 0
  BY <1>1, <1>3, Bounds DEF SeedApi
<1>4. CASE UNCHANGED seedingVars
  BY <1>1, <1>4 DEF seedingVars
<1>5. ASSUME NEW w \in Worker,
             \/ StartTest(w) \/ \E scenario \in Scenario : SeedFails(w, scenario)
             \/ SeedApiFails(w) \/ Register(w) \/ EndBody(w) \/ CleanRows(w)
             \/ CleanRecords(w) \/ CleanupFails(w) \/ Truncate(w) \/ FinishTest(w)
             \/ Restart(w) \/ Crash(w)
      PROVE  posts'[v] > 0
  BY <1>1, <1>5 DEF StartTest, SeedFails, SeedApiFails, Register, EndBody, CleanRows,
     CleanRecords, CleanupFails, Truncate, FinishTest, Restart, Crash
<1> QED
  BY <1>2, <1>3, <1>4, <1>5 DEF SeedingNext, Teardown

LEMMA NextType == SeedingTypeOK /\ PostsLeft /\ [SeedingNext]_seedingVars => SeedingTypeOK'
<1> SUFFICES ASSUME SeedingTypeOK, PostsLeft, [SeedingNext]_seedingVars PROVE SeedingTypeOK'
  OBVIOUS
<1>1. CASE UNCHANGED seedingVars
  BY <1>1 DEF SeedingTypeOK, seedingVars, tables
<1>2. ASSUME NEW w \in Worker, StartTest(w) PROVE SeedingTypeOK'
  BY <1>2, Bounds DEF StartTest, SeedingTypeOK, tables, Test, Stage
<1>3. ASSUME NEW w \in Worker, NEW scenario \in Scenario, SeedScenario(w, scenario) PROVE SeedingTypeOK'
  <2>1. TakeIds(w, scenario)
    BY <1>3 DEF SeedScenario
  <2>2. Entities(w, scenario) \subseteq Id /\ sequence' \in [Worker -> [Kind -> 0..MaxId]]
    BY <2>1, EntitiesType
  <2>3. rows' \in [Id -> Test \cup {NoTest}]
    BY <1>3 DEF SeedScenario, SeedingTypeOK
  <2>4. handle' \in [Worker -> Callback]
    <3>1. handle[w] \in Callback /\ handle \in [Worker -> Callback]
      BY DEF SeedingTypeOK
    <3>2. [handle[w] EXCEPT !.db = Entities(w, scenario)] \in Callback
      BY <2>2, <3>1 DEF Callback
    <3> QED
      BY <1>3, <3>1, <3>2 DEF SeedScenario
  <2> QED
    BY <1>3, <2>2, <2>3, <2>4 DEF SeedScenario, SeedingTypeOK, Stage
<1>4. ASSUME NEW w \in Worker, NEW scenario \in Scenario, SeedFails(w, scenario) PROVE SeedingTypeOK'
  <2>1. sequence' \in [Worker -> [Kind -> 0..MaxId]]
    BY <1>4, EntitiesType DEF SeedFails
  <2> QED
    BY <1>4, <2>1 DEF SeedFails, SeedingTypeOK, tables
<1>5. ASSUME NEW w \in Worker, SeedApi(w) PROVE SeedingTypeOK'
  <2>1. handle' \in [Worker -> Callback]
    <3>1. PICK a \in Api : handle' = [handle EXCEPT ![w].api = @ \cup {a}]
      BY <1>5 DEF SeedApi
    <3>2. handle[w] \in Callback /\ handle \in [Worker -> Callback]
      BY DEF SeedingTypeOK
    <3>3. [handle[w] EXCEPT !.api = handle[w].api \cup {a}] \in Callback
      BY <3>2 DEF Callback
    <3> QED
      BY <3>1, <3>2, <3>3
  <2>2. posts' \in [Worker -> 0..MaxPosts]
    <3>1. posts[w] \in 0..MaxPosts /\ posts \in [Worker -> 0..MaxPosts]
      BY DEF SeedingTypeOK
    <3>2. posts[w] > 0
      BY <1>5 DEF SeedApi, PostsLeft
    <3> QED
      BY <1>5, <3>1, <3>2, Bounds DEF SeedApi
  <2>3. records' \in [Api -> Test \cup {NoTest}]
    BY <1>5 DEF SeedApi, SeedingTypeOK
  <2> QED
    BY <1>5, <2>1, <2>2, <2>3 DEF SeedApi, SeedingTypeOK, Stage
<1>6. ASSUME NEW w \in Worker, SeedApiFails(w) PROVE SeedingTypeOK'
  <2>1. excuse' \in [Test -> SUBSET Excuse]
    BY <1>6, BlameType DEF SeedApiFails, Excuse
  <2>2. NoHandle \in Callback
    BY DEF NoHandle, Callback
  <2>3. records' \in [Api -> Test \cup {NoTest}]
    BY <1>6 DEF SeedApiFails, SeedingTypeOK
  <2> QED
    BY <1>6, <2>1, <2>2, <2>3, Bounds DEF SeedApiFails, SeedingTypeOK, Stage
<1>7. ASSUME NEW w \in Worker, Register(w) PROVE SeedingTypeOK'
  <2>1. callbacks' \in [Worker -> Seq(Callback)]
    BY <1>7, Registered DEF SeedingTypeOK
  <2>2. NoHandle \in Callback
    BY DEF NoHandle, Callback
  <2> QED
    BY <1>7, <2>1, <2>2 DEF Register, SeedingTypeOK, tables, Stage
<1>8. ASSUME NEW w \in Worker, EndBody(w) PROVE SeedingTypeOK'
  BY <1>8 DEF EndBody, SeedingTypeOK, tables, Stage
<1>9. ASSUME NEW w \in Worker, CleanRows(w) PROVE SeedingTypeOK'
  <2>1. rows' \in [Id -> Test \cup {NoTest}]
    <3>1. rows \in [Id -> Test \cup {NoTest}]
      BY DEF SeedingTypeOK
    <3>2. PICK gone : rows' = Remaining(rows, gone)
      BY <1>9 DEF CleanRows
    <3> QED
      BY <3>1, <3>2, RemainingType
  <2>2. callbacks' \in [Worker -> Seq(Callback)]
    BY <1>9, PopType DEF CleanRows
  <2> QED
    BY <1>9, <2>1, <2>2 DEF CleanRows, SeedingTypeOK
<1>10. ASSUME NEW w \in Worker, CleanupFails(w) PROVE SeedingTypeOK'
  <2>1. excuse' \in [Test -> SUBSET Excuse]
    BY <1>10, BlameType DEF CleanupFails, Excuse
  <2>2. callbacks' \in [Worker -> Seq(Callback)]
    BY <1>10, PopType DEF CleanupFails
  <2> QED
    BY <1>10, <2>1, <2>2 DEF CleanupFails, SeedingTypeOK, tables
<1>11. ASSUME NEW w \in Worker, CleanRecords(w) PROVE SeedingTypeOK'
  <2>1. excuse' \in [Test -> SUBSET Excuse]
    BY <1>11, BlameType DEF CleanRecords, Excuse, SeedingTypeOK
  <2>2. callbacks' \in [Worker -> Seq(Callback)]
    BY <1>11, PopType DEF CleanRecords
  <2>3. records' \in [Api -> Test \cup {NoTest}]
    <3>1. records \in [Api -> Test \cup {NoTest}]
      BY DEF SeedingTypeOK
    <3>2. PICK gone : records' = Remaining(records, gone)
      BY <1>11 DEF CleanRecords
    <3> QED
      BY <3>1, <3>2, RemainingType
  <2> QED
    BY <1>11, <2>1, <2>2, <2>3 DEF CleanRecords, SeedingTypeOK
<1>12. ASSUME NEW w \in Worker, Truncate(w) PROVE SeedingTypeOK'
  BY <1>12 DEF Truncate, SeedingTypeOK
<1>13. ASSUME NEW w \in Worker, FinishTest(w) PROVE SeedingTypeOK'
  BY <1>13 DEF FinishTest, SeedingTypeOK, tables, Stage
<1>14. ASSUME NEW w \in Worker, Restart(w) PROVE SeedingTypeOK'
  <2>1. NewProcess \in [Kind -> 0..MaxId]
    BY Bounds DEF NewProcess
  <2> QED
    BY <1>14, <2>1, Bounds DEF Restart, SeedingTypeOK, tables
<1>15. ASSUME NEW w \in Worker, Crash(w) PROVE SeedingTypeOK'
  <2>1. excuse' \in [Test -> SUBSET Excuse]
    BY <1>15, BlameType DEF Crash, Excuse
  <2>2. NoHandle \in Callback /\ <<>> \in Seq(Callback) /\ NewProcess \in [Kind -> 0..MaxId]
    BY Bounds DEF NoHandle, Callback, NewProcess
  <2> QED
    BY <1>15, <2>1, <2>2, Bounds DEF Crash, SeedingTypeOK, tables, Stage
<1> QED
  BY <1>1, <1>2, <1>3, <1>4, <1>5, <1>6, <1>7, <1>8, <1>9, <1>10, <1>11, <1>12, <1>13, <1>14, <1>15
  DEF SeedingNext, Teardown

\* Every variable keeps its type: ids, tests and handles stay in their sets.
THEOREM SeedingTypeCorrect == SeedingSpec => []SeedingTypeOK
<1>1. SeedingInit => SeedingTypeOK /\ PostsLeft
  BY InitType DEF SeedingInit, PostsLeft
<1>2. SeedingTypeOK /\ PostsLeft /\ [SeedingNext]_seedingVars => SeedingTypeOK' /\ PostsLeft'
  BY NextType, NextPosts
<1> QED
  BY <1>1, <1>2, PTL DEF SeedingSpec

-----------------------------------------------------------------------------
(* The invariant: who owns what, and which callback removes it *)

\* What a handle names belongs to its test, unless db_schema's teardown, which
\* comes before the callbacks, has removed every row.
OwnHandles(w, h) ==
    /\ \A id \in Id : id \in h.db => rows[id] = current[w] \/ schema[w] = "truncated"
    /\ \A a \in Api : a \in h.api => records[a] = current[w]

\* Two handles of one test have nothing in common: deleting for the one takes
\* nothing from the other.
NoOverlap(g, h) == g.db \cap h.db = {} /\ g.api \cap h.api = {}

Position(w) == 1..Len(callbacks[w])

\* Whatever the running test has put in place is in one of its handles, unless
\* the test has an excuse: no cleanup is forgotten.
Followed(w) ==
    stage[w] # "idle" /\ excuse[current[w]] = {} =>
        /\ \A id \in Id : id[1] \in DeletableKind /\ rows[id] = current[w] =>
               id \in handle[w].db \/ \E i \in Position(w) : id \in callbacks[w][i].db
        /\ \A a \in Api : records[a] = current[w] =>
               a \in handle[w].api \/ \E i \in Position(w) : a \in callbacks[w][i].api

\* What concerns one worker.
WInv(w) ==
    /\ stage[w] = "idle" <=> current[w] = NoTest
    /\ current[w] <= started
    /\ stage[w] \notin {"posting", "seeded"} => handle[w] = NoHandle
    /\ stage[w] = "idle" => callbacks[w] = <<>> /\ schema[w] = "unused"
    /\ schema[w] = "truncated" => stage[w] = "teardown"
    /\ OwnHandles(w, handle[w])
    /\ \A i \in Position(w) :
           /\ OwnHandles(w, callbacks[w][i])
           /\ NoOverlap(handle[w], callbacks[w][i])
           /\ callbacks[w][i].db = {} \/ callbacks[w][i].api = {}
           /\ \A j \in Position(w) : i # j => NoOverlap(callbacks[w][i], callbacks[w][j])
    /\ Followed(w)

\* What concerns several workers.
NumbersTaken ==
    /\ \A id \in Id : rows[id] <= started
    /\ \A a \in Api : records[a] <= started
Apart == \A v, w \in Worker : v # w /\ current[v] # NoTest => current[v] # current[w]
Undisturbed ==
    \A w \in Worker :
        /\ schema[w] # "unused" => \A v \in Worker \ {w} : stage[v] = "idle"
        /\ schema[w] = "truncated" => \A id \in Id : rows[id] = NoTest

HInv ==
    /\ SeedingTypeOK
    /\ \A w \in Worker : WInv(w)
    /\ NumbersTaken
    /\ Apart
    /\ Undisturbed
    /\ NothingOutlivesItsTest

\* The state of one worker.
State(w) == <<stage[w], current[w], schema[w], handle[w], callbacks[w]>>

\* A worker that takes no step is not disturbed as long as its running test's
\* rows, records and excuses stay the same.
LEMMA Frame ==
  ASSUME SeedingTypeOK, NEW v \in Worker, WInv(v), State(v)' = State(v), started' \in Nat, started <= started',
         stage[v] # "idle" =>
             /\ \A id \in Id : (rows[id] = current[v]) <=> (rows'[id] = current[v])
             /\ \A a \in Api : (records[a] = current[v]) <=> (records'[a] = current[v])
             /\ excuse'[current[v]] = excuse[current[v]]
  PROVE  WInv(v)'
<1> USE DEF State
<1>1. current[v] <= started'
  BY Bounds DEF WInv, SeedingTypeOK, Test, NoTest
<1>2. CASE stage[v] = "idle"
  BY <1>1, <1>2 DEF WInv, OwnHandles, NoHandle, Followed, Position, NoOverlap
<1>3. CASE stage[v] # "idle"
  <2>1. \A h : OwnHandles(v, h) => OwnHandles(v, h)'
    BY <1>3 DEF OwnHandles
  <2>2. Followed(v)'
    BY <1>3 DEF WInv, Followed, Position
  <2> QED
    BY <1>1, <1>3, <2>1, <2>2 DEF WInv, Position, NoOverlap, OwnHandles
<1> QED
  BY <1>2, <1>3

-----------------------------------------------------------------------------
(* One lemma per action *)

LEMMA InitHInv == SeedingInit => HInv
<1> SUFFICES ASSUME SeedingInit PROVE HInv
  OBVIOUS
<1>1. ASSUME NEW w \in Worker PROVE WInv(w)
  BY DEF SeedingInit, WInv, OwnHandles, Followed, NoHandle, NoTest, Position, NoOverlap
<1>2. NumbersTaken /\ Apart /\ Undisturbed /\ NothingOutlivesItsTest
  BY DEF SeedingInit, NumbersTaken, Apart, Undisturbed, NothingOutlivesItsTest, NoTest
<1> QED
  BY <1>1, <1>2, InitType DEF HInv

LEMMA StartTestInv ==
  ASSUME HInv, SeedingTypeOK', NEW w \in Worker, StartTest(w)
  PROVE  HInv'
<1> USE DEF HInv
<1>0. /\ started \in Nat /\ started + 1 \in Test /\ started' = started + 1
      /\ current \in [Worker -> Test \cup {NoTest}] /\ stage \in [Worker -> Stage]
      /\ schema \in [Worker -> {"unused", "held", "truncated"}]
      /\ rows \in [Id -> Test \cup {NoTest}] /\ records \in [Api -> Test \cup {NoTest}]
  BY Bounds DEF SeedingTypeOK, StartTest, Test
<1>1. /\ current' = [current EXCEPT ![w] = started + 1] /\ stage[w] = "idle"
      /\ stage' = [stage EXCEPT ![w] = "body"]
      /\ UNCHANGED <<rows, records, handle, callbacks, excuse>>
  BY DEF StartTest, tables
<1>2. PICK use \in {"unused", "held"} : Alone(w, use) /\ schema' = [schema EXCEPT ![w] = use]
  BY DEF StartTest
<1>3. ASSUME NEW v \in Worker, v # w PROVE WInv(v)'
  BY <1>0, <1>1, <1>2, <1>3, Frame DEF State
<1>4. WInv(w)'
  <2>1. handle[w] = NoHandle /\ callbacks[w] = <<>>
    BY <1>1 DEF WInv
  <2>2. Followed(w)'
    BY <1>0, <1>1 DEF Followed, NumbersTaken, Test, NoTest
  <2> QED
    BY <1>0, <1>1, <1>2, <2>1, <2>2 DEF WInv, OwnHandles, NoHandle, Position, NoOverlap, NoTest, Test
<1>5. NumbersTaken'
  BY <1>0, <1>1, Bounds DEF NumbersTaken, Test, NoTest
<1>6. Apart'
  BY <1>0, <1>1 DEF Apart, WInv, Test, NoTest
<1>7. Undisturbed'
  BY <1>0, <1>1, <1>2 DEF Undisturbed, WInv, Alone
<1>8. NothingOutlivesItsTest'
  BY <1>0, <1>1 DEF NothingOutlivesItsTest, Running, WInv
<1> QED
  BY <1>3, <1>4, <1>5, <1>6, <1>7, <1>8

LEMMA SeedScenarioInv ==
  ASSUME HInv, SeedingTypeOK', NEW w \in Worker, NEW scenario \in Scenario, SeedScenario(w, scenario)
  PROVE  HInv'
<1> USE DEF HInv
<1> DEFINE E == Entities(w, scenario)
<1>0. /\ current \in [Worker -> Test \cup {NoTest}] /\ stage \in [Worker -> Stage]
      /\ schema \in [Worker -> {"unused", "held", "truncated"}]
      /\ handle \in [Worker -> Callback] /\ handle[w] = NoHandle /\ started \in Nat
      /\ rows \in [Id -> Test \cup {NoTest}]
  <2>1. stage[w] = "body" /\ WInv(w)
    BY DEF SeedScenario
  <2>2. handle[w] = NoHandle
    BY <2>1 DEF WInv
  <2> QED
    BY <2>2, Bounds DEF SeedingTypeOK
<1>1. /\ stage[w] = "body" /\ UNCHANGED <<records, current, schema, callbacks, started, excuse>>
      /\ rows' = [id \in Id |-> IF id \in E THEN current[w] ELSE rows[id]]
      /\ stage'[w] \in {"seeded", "posting"} /\ \A v \in Worker \ {w} : stage'[v] = stage[v]
      /\ handle' = [handle EXCEPT ![w].db = E]
  BY <1>0 DEF SeedScenario
<1>2. E \subseteq Id /\ \A id \in E : rows[id] = NoTest
  BY EntitiesType DEF SeedScenario
<1>3. current[w] \in Test /\ schema[w] # "truncated" /\ current[w] # NoTest
  BY <1>0, <1>1 DEF WInv
<1>4. handle'[w].db = E /\ handle'[w].api = {} /\ \A v \in Worker \ {w} : handle'[v] = handle[v]
  BY <1>0, <1>1 DEF NoHandle
<1>5. ASSUME NEW v \in Worker, v # w PROVE WInv(v)'
  <2>1. stage[v] # "idle" => \A id \in Id : (rows[id] = current[v]) <=> (rows'[id] = current[v])
    BY <1>1, <1>2, <1>3, <1>5 DEF Apart, WInv
  <2> QED
    BY <1>0, <1>1, <1>4, <1>5, <2>1, Frame DEF State
<1>6. WInv(w)'
  <2>1. \A i \in Position(w) : OwnHandles(w, callbacks[w][i]) /\ OwnHandles(w, callbacks[w][i])'
    BY <1>1, <1>2, <1>3 DEF WInv, OwnHandles
  <2>2. \A i \in Position(w) : NoOverlap(handle'[w], callbacks[w][i])
    <3>1. \A i \in Position(w) : \A id \in E : id \notin callbacks[w][i].db
      BY <1>2, <1>3, <2>1 DEF OwnHandles
    <3> QED
      BY <1>4, <3>1 DEF NoOverlap
  <2>3. OwnHandles(w, handle[w])'
    BY <1>1, <1>2, <1>4 DEF OwnHandles
  <2>4. Followed(w)'
    BY <1>0, <1>1, <1>4 DEF WInv, Followed, NoHandle, Position
  <2> QED
    BY <1>1, <1>3, <2>1, <2>2, <2>3, <2>4 DEF WInv, Position, NoOverlap
<1>7. NumbersTaken'
  BY <1>0, <1>1 DEF NumbersTaken, WInv
<1>8. Apart'
  BY <1>1 DEF Apart
<1>9. Undisturbed'
  BY <1>1, <1>2, <1>3 DEF Undisturbed
<1>10. NothingOutlivesItsTest'
  BY <1>0, <1>1, <1>3 DEF NothingOutlivesItsTest, Running
<1> QED
  BY <1>5, <1>6, <1>7, <1>8, <1>9, <1>10

LEMMA SeedApiInv ==
  ASSUME HInv, SeedingTypeOK', NEW w \in Worker, SeedApi(w)
  PROVE  HInv'
<1> USE DEF HInv
<1>0. /\ current \in [Worker -> Test \cup {NoTest}] /\ stage \in [Worker -> Stage]
      /\ handle \in [Worker -> Callback] /\ started \in Nat
      /\ records \in [Api -> Test \cup {NoTest}]
  BY Bounds DEF SeedingTypeOK
<1>1. /\ stage[w] = "posting" /\ UNCHANGED <<rows, current, schema, callbacks, started, excuse>>
      /\ stage'[w] \in {"seeded", "posting"} /\ \A v \in Worker \ {w} : stage'[v] = stage[v]
  BY <1>0 DEF SeedApi
<1>2. PICK a \in Api : /\ records[a] = NoTest
                       /\ records' = [records EXCEPT ![a] = current[w]]
                       /\ handle' = [handle EXCEPT ![w].api = @ \cup {a}]
  BY DEF SeedApi
<1>3. current[w] \in Test /\ schema[w] # "truncated" /\ current[w] # NoTest
  BY <1>0, <1>1 DEF WInv
<1>4. /\ handle'[w].db = handle[w].db /\ handle'[w].api = handle[w].api \cup {a}
      /\ \A v \in Worker \ {w} : handle'[v] = handle[v]
  <2>1. handle[w] \in Callback
    BY <1>0
  <2> QED
    BY <1>0, <1>2, <2>1 DEF Callback
<1>5. ASSUME NEW v \in Worker, v # w PROVE WInv(v)'
  <2>1. stage[v] # "idle" =>
            \A b \in Api : (records[b] = current[v]) <=> (records'[b] = current[v])
    BY <1>0, <1>1, <1>2, <1>3, <1>5 DEF Apart, WInv
  <2> QED
    BY <1>0, <1>1, <1>4, <1>5, <2>1, Frame DEF State
<1>6. WInv(w)'
  <2>1. \A i \in Position(w) : OwnHandles(w, callbacks[w][i]) /\ OwnHandles(w, callbacks[w][i])'
    BY <1>0, <1>1, <1>2, <1>3 DEF WInv, OwnHandles
  <2>2. \A i \in Position(w) : NoOverlap(handle'[w], callbacks[w][i])
    <3>1. \A i \in Position(w) : a \notin callbacks[w][i].api
      BY <1>2, <1>3, <2>1 DEF OwnHandles
    <3> QED
      BY <1>4, <3>1 DEF NoOverlap, WInv
  <2>3. OwnHandles(w, handle[w])'
    BY <1>0, <1>1, <1>2, <1>3, <1>4 DEF OwnHandles, WInv
  <2>4. Followed(w)'
    BY <1>0, <1>1, <1>2, <1>4 DEF WInv, Followed, Position
  <2> QED
    BY <1>1, <1>3, <2>1, <2>2, <2>3, <2>4 DEF WInv, Position, NoOverlap
<1>7. NumbersTaken'
  BY <1>0, <1>1, <1>2 DEF NumbersTaken, WInv
<1>8. Apart' /\ Undisturbed'
  BY <1>1 DEF Apart, Undisturbed
<1>9. NothingOutlivesItsTest'
  BY <1>0, <1>1, <1>2, <1>3 DEF NothingOutlivesItsTest, Running
<1> QED
  BY <1>5, <1>6, <1>7, <1>8, <1>9

LEMMA SeedApiFailsInv ==
  ASSUME HInv, SeedingTypeOK', NEW w \in Worker, SeedApiFails(w)
  PROVE  HInv'
<1> USE DEF HInv
<1>0. /\ current \in [Worker -> Test \cup {NoTest}] /\ stage \in [Worker -> Stage]
      /\ handle \in [Worker -> Callback] /\ started \in Nat
      /\ records \in [Api -> Test \cup {NoTest}] /\ excuse \in [Test -> SUBSET Excuse]
  BY Bounds DEF SeedingTypeOK
<1>1. /\ stage[w] = "posting" /\ UNCHANGED <<rows, current, schema, callbacks, started>>
      /\ stage' = [stage EXCEPT ![w] = "body"] /\ handle' = [handle EXCEPT ![w] = NoHandle]
      /\ excuse' = [excuse EXCEPT ![current[w]] = @ \cup {"half_seeded"}]
  BY DEF SeedApiFails, Blame
<1>2. \A b \in Api : \/ records'[b] = records[b]
                     \/ records[b] = NoTest /\ records'[b] = current[w]
  BY <1>0 DEF SeedApiFails
<1>3. current[w] \in Test /\ schema[w] # "truncated" /\ current[w] # NoTest
  BY <1>0, <1>1 DEF WInv
<1>4. excuse'[current[w]] # {} /\ \A t \in Test : excuse[t] \subseteq excuse'[t]
  BY <1>0, <1>1, <1>3
<1>5. ASSUME NEW v \in Worker, v # w PROVE WInv(v)'
  <2>1. stage[v] # "idle" =>
            /\ \A b \in Api : (records[b] = current[v]) <=> (records'[b] = current[v])
            /\ current[v] \in Test /\ current[v] # current[w]
    BY <1>0, <1>1, <1>2, <1>3, <1>5 DEF Apart, WInv
  <2>2. stage[v] # "idle" => excuse'[current[v]] = excuse[current[v]]
    BY <1>0, <1>1, <2>1
  <2> QED
    BY <1>0, <1>1, <1>5, <2>1, <2>2, Frame DEF State
<1>6. WInv(w)'
  <2>1. \A i \in Position(w) : OwnHandles(w, callbacks[w][i])'
    BY <1>0, <1>1, <1>2, <1>3 DEF WInv, OwnHandles
  <2>2. handle'[w] = NoHandle /\ stage'[w] = "body"
    BY <1>0, <1>1
  <2> QED
    BY <1>1, <1>3, <1>4, <2>1, <2>2 DEF WInv, Position, NoOverlap, OwnHandles, Followed, NoHandle
<1>7. NumbersTaken'
  BY <1>0, <1>1, <1>2 DEF NumbersTaken, WInv
<1>8. Apart' /\ Undisturbed'
  BY <1>0, <1>1 DEF Apart, Undisturbed
<1>9. NothingOutlivesItsTest'
  <2>1. rows \in [Id -> Test \cup {NoTest}]
    BY DEF SeedingTypeOK
  <2>2. \A id \in Id : rows[id] # NoTest /\ excuse[rows[id]] # {} => excuse'[rows[id]] # {}
    BY <2>1, <1>4
  <2>3. \A a \in Api : records[a] # NoTest /\ excuse[records[a]] # {} => excuse'[records[a]] # {}
    BY <1>0, <1>4
  <2>4. Running' = Running
    BY <1>1 DEF Running
  <2>5. current[w] \in Running
    BY <1>3 DEF Running
  <2> QED
    BY <1>1, <1>2, <2>2, <2>3, <2>4, <2>5 DEF NothingOutlivesItsTest
<1> QED
  BY <1>5, <1>6, <1>7, <1>8, <1>9

LEMMA RegisterInv ==
  ASSUME HInv, SeedingTypeOK', NEW w \in Worker, Register(w)
  PROVE  HInv'
<1> USE DEF HInv
<1> DEFINE old == callbacks[w]
           new == callbacks'[w]
<1>a. callbacks[w] \in Seq(Callback)
  BY DEF SeedingTypeOK
<1>b. PICK n \in Nat : n = Len(old)
  BY <1>a
<1>0. /\ current \in [Worker -> Test \cup {NoTest}] /\ stage \in [Worker -> Stage]
      /\ handle \in [Worker -> Callback] /\ started \in Nat
      /\ old \in Seq(Callback) /\ new \in Seq(Callback) /\ n = Len(old)
      /\ callbacks \in [Worker -> Seq(Callback)] /\ Position(w) = 1..n
  <2>1. callbacks[w] \in Seq(Callback)
    BY DEF SeedingTypeOK
  <2>2. callbacks'[w] \in Seq(Callback)
    BY Registered
  <2> QED
    BY <1>b, <2>1, <2>2, Bounds DEF SeedingTypeOK, Position
<1>1. /\ stage[w] = "seeded" /\ UNCHANGED <<rows, records, current, schema, started, excuse>>
      /\ stage' = [stage EXCEPT ![w] = "body"] /\ handle' = [handle EXCEPT ![w] = NoHandle]
      /\ \A v \in Worker \ {w} : callbacks'[v] = callbacks[v]
  BY <1>0 DEF Register, tables
<1>2. current[w] \in Test /\ schema[w] # "truncated" /\ current[w] # NoTest
  BY <1>0, <1>1 DEF WInv
<1>3. /\ Len(new) >= n + 1 /\ \A i \in 1..n : new[i] = old[i]
      /\ new[n + 1] = RowsOf(handle[w])
      /\ Len(new) # n + 1 => Len(new) = n + 2 /\ new[n + 2] = RecordsOf(handle[w])
      /\ Len(new) = n + 1 => handle[w].api = {}
  <2>1. RowsOf(handle[w]) \in Callback /\ RecordsOf(handle[w]) \in Callback
    BY Registered
  <2> DEFINE one == old \o <<RowsOf(handle[w])>>
  <2>2. /\ one \in Seq(Callback) /\ Len(one) = n + 1 /\ one[n + 1] = RowsOf(handle[w])
        /\ \A i \in 1..n : one[i] = old[i]
    BY <1>0, <2>1, Push
  <2>3. CASE new = one /\ handle[w].api = {}
    BY <1>0, <2>2, <2>3
  <2>4. CASE new = one \o <<RecordsOf(handle[w])>>
    <3> HIDE DEF one
    <3>1. /\ Len(new) = Len(one) + 1 /\ new[Len(one) + 1] = RecordsOf(handle[w])
          /\ \A i \in 1..Len(one) : new[i] = one[i]
      BY <2>1, <2>2, <2>4, Push
    <3>2. 1..n \subseteq 1..Len(one) /\ n + 1 \in 1..Len(one)
      BY <1>0, <2>2
    <3> QED
      BY <1>0, <2>2, <3>1, <3>2
  <2> QED
    BY <2>3, <2>4, Registered
<1>4. RowsOf(handle[w]) = [db |-> handle[w].db, api |-> {}]
      /\ RecordsOf(handle[w]) = [db |-> {}, api |-> handle[w].api]
  BY DEF RowsOf, RecordsOf
<1>5. \A i \in 1..Len(new) : i \in 1..n \/ i = n + 1 \/ (i = n + 2 /\ Len(new) = n + 2)
  BY <1>0, <1>3
<1>6. ASSUME NEW v \in Worker, v # w PROVE WInv(v)'
  BY <1>0, <1>1, <1>6, Frame DEF State
<1>7. WInv(w)'
  <2>1. handle'[w] = NoHandle /\ stage'[w] = "body" /\ OwnHandles(w, handle[w])
    BY <1>0, <1>1 DEF WInv
  <2>2. \A i \in Position(w) : /\ NoOverlap(handle[w], old[i])
                               /\ OwnHandles(w, old[i])
                               /\ old[i].db = {} \/ old[i].api = {}
                               /\ \A j \in Position(w) : i # j => NoOverlap(old[i], old[j])
    BY DEF WInv
  <2>3. \A i \in 1..n : new[i] = old[i] /\ OwnHandles(w, callbacks[w][i])'
    BY <1>0, <1>1, <1>3, <2>2 DEF OwnHandles
  <2>4. /\ OwnHandles(w, callbacks[w][n + 1])'
        /\ new[n + 1].db = handle[w].db /\ new[n + 1].api = {}
    BY <1>0, <1>1, <1>3, <1>4, <2>1 DEF OwnHandles
  <2>5. Len(new) = n + 2 => /\ OwnHandles(w, callbacks[w][n + 2])'
                            /\ new[n + 2].db = {} /\ new[n + 2].api = handle[w].api
    BY <1>0, <1>1, <1>3, <1>4, <2>1 DEF OwnHandles
  <2>6. ASSUME NEW i \in Position(w)'
        PROVE  /\ OwnHandles(w, callbacks[w][i])' /\ (new[i].db = {} \/ new[i].api = {})
               /\ \A j \in Position(w)' : i # j => NoOverlap(new[i], new[j])
    <3>1. i \in 1..n \/ i = n + 1 \/ (i = n + 2 /\ Len(new) = n + 2)
      BY <1>5 DEF Position
    <3>2. OwnHandles(w, callbacks[w][i])' /\ (new[i].db = {} \/ new[i].api = {})
      BY <1>0, <3>1, <2>2, <2>3, <2>4, <2>5
    <3>3. ASSUME NEW j \in Position(w)', i # j PROVE NoOverlap(new[i], new[j])
      <4>1. j \in 1..n \/ j = n + 1 \/ (j = n + 2 /\ Len(new) = n + 2)
        BY <1>5 DEF Position
      <4>2. \A k \in 1..n : NoOverlap(new[k], handle[w]) /\ NoOverlap(handle[w], new[k])
        BY <1>0, <2>2, <2>3 DEF NoOverlap
      <4>3. CASE i \in 1..n /\ j \in 1..n
        BY <1>0, <4>3, <3>3, <2>2, <2>3
      <4>4. CASE i \in 1..n /\ j \notin 1..n
        BY <4>1, <4>2, <4>4, <2>4, <2>5 DEF NoOverlap
      <4>5. CASE i \notin 1..n /\ j \in 1..n
        BY <3>1, <4>2, <4>5, <2>4, <2>5 DEF NoOverlap
      <4>6. CASE i \notin 1..n /\ j \notin 1..n
        BY <3>1, <4>1, <4>6, <3>3, <2>4, <2>5 DEF NoOverlap
      <4> QED
        BY <4>3, <4>4, <4>5, <4>6
    <3> QED
      BY <3>2, <3>3
  <2>7. Followed(w)'
    <3>1. \A i \in Position(w) : i \in Position(w)' /\ new[i] = old[i]
      BY <1>0, <1>3 DEF Position
    <3>2. n + 1 \in Position(w)' /\ new[n + 1].db = handle[w].db
      BY <1>0, <1>3, <2>4 DEF Position
    <3>3. handle[w].api # {} => \E i \in Position(w)' : new[i].api = handle[w].api
      <4>1. handle[w].api # {} => Len(new) = n + 2 /\ n + 2 \in 1..Len(new)
        BY <1>0, <1>3
      <4> QED
        BY <4>1, <2>5 DEF Position
    <3>4. Followed(w)
      BY DEF WInv
    <3>5. stage[w] # "idle"
      BY <1>1
    <3> QED
      BY <1>1, <3>1, <3>2, <3>3, <3>4, <3>5 DEF Followed
  <2>8. OwnHandles(w, handle[w])' /\ \A h : NoOverlap(handle'[w], h)
    BY <2>1 DEF OwnHandles, NoOverlap, NoHandle
  <2> QED
    BY <1>1, <1>2, <2>1, <2>6, <2>7, <2>8 DEF WInv
<1>8. NumbersTaken' /\ Apart' /\ Undisturbed'
  BY <1>0, <1>1 DEF NumbersTaken, Apart, Undisturbed
<1>9. NothingOutlivesItsTest'
  BY <1>1 DEF NothingOutlivesItsTest, Running
<1> QED
  BY <1>6, <1>7, <1>8, <1>9

LEMMA EndBodyInv ==
  ASSUME HInv, SeedingTypeOK', NEW w \in Worker, EndBody(w)
  PROVE  HInv'
<1> USE DEF HInv
<1>0. current \in [Worker -> Test \cup {NoTest}] /\ stage \in [Worker -> Stage] /\ started \in Nat
  BY Bounds DEF SeedingTypeOK
<1>1. /\ stage[w] = "body" /\ stage' = [stage EXCEPT ![w] = "teardown"]
      /\ UNCHANGED <<rows, records, current, schema, handle, callbacks, started, excuse>>
  BY DEF EndBody, tables
<1>2. ASSUME NEW v \in Worker, v # w PROVE WInv(v)'
  BY <1>0, <1>1, <1>2, Frame DEF State
<1>3. WInv(w)'
  <2>1. stage'[w] = "teardown" /\ WInv(w)
    BY <1>0, <1>1
  <2>2. Followed(w)'
    BY <1>1, <2>1 DEF WInv, Followed, Position
  <2> QED
    BY <1>1, <2>1, <2>2 DEF WInv, Position, NoOverlap, OwnHandles
<1>4. NumbersTaken' /\ Apart' /\ Undisturbed'
  BY <1>0, <1>1 DEF NumbersTaken, Apart, Undisturbed
<1>5. NothingOutlivesItsTest'
  BY <1>1 DEF NothingOutlivesItsTest, Running
<1> QED
  BY <1>2, <1>3, <1>4, <1>5

\* The sequences a process numbers its entities from do not matter here.
LEMMA UnseenInv ==
  ASSUME HInv, SeedingTypeOK', UNCHANGED <<rows, records, current, stage, schema, handle,
                                    callbacks, started, excuse>>
  PROVE  HInv'
<1> USE DEF HInv
<1>1. ASSUME NEW w \in Worker PROVE WInv(w)'
  <2>1. started \in Nat
    BY Bounds DEF SeedingTypeOK
  <2> QED
    BY <2>1, Frame DEF State
<1>2. NumbersTaken' /\ Apart' /\ Undisturbed'
  BY DEF NumbersTaken, Apart, Undisturbed
<1>3. NothingOutlivesItsTest'
  BY DEF NothingOutlivesItsTest, Running
<1> QED
  BY <1>1, <1>2, <1>3

-----------------------------------------------------------------------------
(* Teardown *)

\* execute_all takes the newest callback and leaves the others in their places.
LEMMA Popping ==
  ASSUME SeedingTypeOK, NEW w \in Worker, callbacks[w] # <<>>, callbacks' = Popped(w)
  PROVE  \E n \in Nat : /\ Len(callbacks[w]) = n + 1 /\ Len(callbacks'[w]) = n
                        /\ \A i \in 1..n : callbacks'[w][i] = callbacks[w][i]
                        /\ Newest(w) = callbacks[w][n + 1]
                        /\ \A v \in Worker \ {w} : callbacks'[v] = callbacks[v]
<1>1. callbacks[w] \in Seq(Callback) /\ callbacks \in [Worker -> Seq(Callback)]
  BY DEF SeedingTypeOK
<1>2. callbacks'[w] = Front(callbacks[w]) /\ \A v \in Worker \ {w} : callbacks'[v] = callbacks[v]
  BY <1>1 DEF Popped
<1>3. /\ Len(Front(callbacks[w])) = Len(callbacks[w]) - 1 /\ Len(callbacks[w]) \in Nat \ {0}
      /\ \A i \in 1..Len(callbacks[w]) - 1 : Front(callbacks[w])[i] = callbacks[w][i]
      /\ Last(callbacks[w]) = callbacks[w][Len(callbacks[w])]
  BY <1>1, PopSeq
<1>4. PICK n \in Nat : n = Len(callbacks[w]) - 1
  BY <1>3
<1>5. Len(callbacks[w]) = n + 1
  BY <1>3, <1>4
<1> QED
  BY <1>2, <1>3, <1>4, <1>5 DEF Newest

LEMMA CleanRowsInv ==
  ASSUME HInv, SeedingTypeOK', NEW w \in Worker, CleanRows(w)
  PROVE  HInv'
<1> USE DEF HInv
<1>0. /\ current \in [Worker -> Test \cup {NoTest}] /\ stage \in [Worker -> Stage]
      /\ handle \in [Worker -> Callback] /\ started \in Nat
      /\ rows \in [Id -> Test \cup {NoTest}] /\ records \in [Api -> Test \cup {NoTest}]
      /\ excuse \in [Test -> SUBSET Excuse] /\ schema \in [Worker -> {"unused", "held", "truncated"}]
  BY Bounds DEF SeedingTypeOK
<1>1. /\ UNCHANGED <<records, current, stage, schema, handle, started, excuse>>
      /\ Newest(w).api = {}
      /\ rows' = Remaining(rows, {id \in Newest(w).db : id[1] \in DeletableKind})
  BY DEF CleanRows
<1>2. PICK n \in Nat : /\ Len(callbacks[w]) = n + 1 /\ Len(callbacks'[w]) = n
                       /\ \A i \in 1..n : callbacks'[w][i] = callbacks[w][i]
                       /\ Newest(w) = callbacks[w][n + 1]
                       /\ \A v \in Worker \ {w} : callbacks'[v] = callbacks[v]
  BY Popping DEF CleanRows
<1>3. /\ 1..n \subseteq Position(w) /\ n + 1 \in Position(w) /\ n + 1 \notin 1..n
      /\ \A i \in Position(w) : i \in 1..n \/ i = n + 1
  BY <1>2 DEF Position
<1>4. /\ current[w] \in Test /\ current[w] # NoTest /\ handle[w] = NoHandle /\ WInv(w)
      /\ stage[w] = "teardown" /\ Followed(w)
  <2>1. stage[w] = "teardown" /\ WInv(w)
    BY DEF CleanRows
  <2> QED
    BY <1>0, <2>1 DEF WInv
<1>5. \A id \in Id : rows'[id] = IF id \in callbacks[w][n + 1].db /\ id[1] \in DeletableKind
                                   THEN NoTest ELSE rows[id]
  BY <1>0, <1>1, <1>2 DEF Remaining
<1>6. OwnHandles(w, callbacks[w][n + 1])
  BY <1>3, <1>4 DEF WInv
<1>7. ASSUME NEW v \in Worker, v # w PROVE WInv(v)'
  <2>1. stage[v] # "idle" => /\ current[v] # current[w] /\ current[v] # NoTest
                             /\ schema[w] # "truncated"
    BY <1>4, <1>7 DEF Apart, WInv, Undisturbed
  <2>2. stage[v] # "idle" => \A id \in Id : (rows[id] = current[v]) <=> (rows'[id] = current[v])
    BY <1>5, <1>6, <2>1 DEF OwnHandles
  <2> QED
    BY <1>0, <1>1, <1>2, <1>7, <2>2, Frame DEF State
<1>8. WInv(w)'
  <2>1. ASSUME NEW i \in 1..n PROVE OwnHandles(w, callbacks[w][i])'
    <3>1. OwnHandles(w, callbacks[w][i]) /\ NoOverlap(callbacks[w][i], callbacks[w][n + 1])
      BY <1>3, <1>4 DEF WInv
    <3> QED
      BY <1>1, <1>2, <1>5, <3>1 DEF OwnHandles, NoOverlap
  <2>2. Followed(w)'
    <3>1. \A i \in Position(w) : i # n + 1 => i \in Position(w)' /\ callbacks'[w][i] = callbacks[w][i]
      BY <1>2, <1>3 DEF Position
    <3>2. \A a \in Api : a \notin callbacks[w][n + 1].api
      BY <1>1, <1>2
    <3>3. \A id \in Id : id[1] \in DeletableKind /\ rows'[id] = current[w] =>
              rows[id] = current[w] /\ id \notin callbacks[w][n + 1].db
      BY <1>4, <1>5
    <3> QED
      BY <1>1, <1>4, <3>1, <3>2, <3>3 DEF Followed, NoHandle
  <2>3. Position(w)' = 1..n
    BY <1>2 DEF Position
  <2> QED
    BY <1>1, <1>2, <1>3, <1>4, <2>1, <2>2, <2>3 DEF WInv, NoOverlap, OwnHandles, NoHandle
<1>9. NumbersTaken' /\ Apart' /\ Undisturbed'
  BY <1>0, <1>1, <1>5 DEF NumbersTaken, Apart, Undisturbed, NoTest
<1>10. NothingOutlivesItsTest'
  <2>1. Running' = Running
    BY <1>1 DEF Running
  <2>2. \A id \in Id : rows'[id] # NoTest => rows'[id] = rows[id]
    BY <1>5
  <2> QED
    BY <1>1, <2>1, <2>2 DEF NothingOutlivesItsTest
<1> QED
  BY <1>7, <1>8, <1>9, <1>10

LEMMA CleanupFailsInv ==
  ASSUME HInv, SeedingTypeOK', NEW w \in Worker, CleanupFails(w)
  PROVE  HInv'
<1> USE DEF HInv
<1>0. /\ current \in [Worker -> Test \cup {NoTest}] /\ stage \in [Worker -> Stage]
      /\ handle \in [Worker -> Callback] /\ started \in Nat
      /\ rows \in [Id -> Test \cup {NoTest}] /\ records \in [Api -> Test \cup {NoTest}]
      /\ excuse \in [Test -> SUBSET Excuse] /\ schema \in [Worker -> {"unused", "held", "truncated"}]
  BY Bounds DEF SeedingTypeOK
<1>1. /\ UNCHANGED <<rows, records, current, stage, schema, handle, started>>
      /\ excuse' = [excuse EXCEPT ![current[w]] = @ \cup {"cleanup_error"}]
  BY DEF CleanupFails, tables, Blame
<1>2. PICK n \in Nat : /\ Len(callbacks[w]) = n + 1 /\ Len(callbacks'[w]) = n
                       /\ \A i \in 1..n : callbacks'[w][i] = callbacks[w][i]
                       /\ Newest(w) = callbacks[w][n + 1]
                       /\ \A v \in Worker \ {w} : callbacks'[v] = callbacks[v]
  BY Popping DEF CleanupFails
<1>3. /\ 1..n \subseteq Position(w) /\ n + 1 \in Position(w) /\ n + 1 \notin 1..n
      /\ \A i \in Position(w) : i \in 1..n \/ i = n + 1
  BY <1>2 DEF Position
<1>4. /\ current[w] \in Test /\ current[w] # NoTest /\ handle[w] = NoHandle /\ WInv(w)
      /\ stage[w] = "teardown" /\ Followed(w)
  <2>1. stage[w] = "teardown" /\ WInv(w)
    BY DEF CleanupFails
  <2> QED
    BY <1>0, <2>1 DEF WInv
<1>5. ASSUME NEW v \in Worker, v # w PROVE WInv(v)'
  <2>1. stage[v] # "idle" => current[v] \in Test /\ current[v] # current[w]
    BY <1>0, <1>4, <1>5 DEF Apart, WInv
  <2>2. stage[v] # "idle" => excuse'[current[v]] = excuse[current[v]]
    BY <1>0, <1>1, <2>1
  <2>3. State(v)' = State(v)
    BY <1>1, <1>2, <1>5 DEF State
  <2>4. WInv(v) /\ started' \in Nat /\ started <= started' /\ rows' = rows /\ records' = records
    BY <1>0, <1>1
  <2> QED
    BY <2>2, <2>3, <2>4, Frame
<1>6. WInv(w)'
  <2>1. excuse'[current[w]] # {}
    BY <1>0, <1>1, <1>4
  <2>2. Position(w)' = 1..n
    BY <1>2 DEF Position
  <2>3. \A i \in 1..n : OwnHandles(w, callbacks[w][i])'
    BY <1>1, <1>2, <1>3, <1>4 DEF WInv, OwnHandles
  <2>4. Followed(w)'
    BY <1>1, <2>1 DEF Followed
  <2> QED
    BY <1>1, <1>2, <1>3, <1>4, <2>2, <2>3, <2>4 DEF WInv, NoOverlap, OwnHandles, NoHandle
<1>7. NumbersTaken' /\ Apart' /\ Undisturbed'
  BY <1>1 DEF NumbersTaken, Apart, Undisturbed
<1>8. NothingOutlivesItsTest'
  <2>1. \A t \in Test : excuse[t] # {} => excuse'[t] # {}
    BY <1>0, <1>4, <1>1
  <2> QED
    BY <1>0, <1>1, <2>1 DEF NothingOutlivesItsTest, Running
<1> QED
  BY <1>5, <1>6, <1>7, <1>8

LEMMA CleanRecordsInv ==
  ASSUME HInv, SeedingTypeOK', NEW w \in Worker, CleanRecords(w)
  PROVE  HInv'
<1> USE DEF HInv
<1>0. /\ current \in [Worker -> Test \cup {NoTest}] /\ stage \in [Worker -> Stage]
      /\ handle \in [Worker -> Callback] /\ started \in Nat
      /\ rows \in [Id -> Test \cup {NoTest}] /\ records \in [Api -> Test \cup {NoTest}]
      /\ excuse \in [Test -> SUBSET Excuse] /\ schema \in [Worker -> {"unused", "held", "truncated"}]
  BY Bounds DEF SeedingTypeOK
<1>1. /\ UNCHANGED <<rows, current, stage, schema, handle, started>>
      /\ Newest(w).api # {}
  BY DEF CleanRecords
<1>2. PICK n \in Nat : /\ Len(callbacks[w]) = n + 1 /\ Len(callbacks'[w]) = n
                       /\ \A i \in 1..n : callbacks'[w][i] = callbacks[w][i]
                       /\ Newest(w) = callbacks[w][n + 1]
                       /\ \A v \in Worker \ {w} : callbacks'[v] = callbacks[v]
  BY Popping DEF CleanRecords
<1>3. /\ 1..n \subseteq Position(w) /\ n + 1 \in Position(w) /\ n + 1 \notin 1..n
      /\ \A i \in Position(w) : i \in 1..n \/ i = n + 1
  BY <1>2 DEF Position
<1>4. /\ current[w] \in Test /\ current[w] # NoTest /\ handle[w] = NoHandle /\ WInv(w)
      /\ stage[w] = "teardown" /\ Followed(w)
  <2>1. stage[w] = "teardown" /\ WInv(w)
    BY DEF CleanRecords
  <2> QED
    BY <1>0, <2>1 DEF WInv
<1>5. PICK gone \in SUBSET Newest(w).api :
          /\ records' = Remaining(records, gone)
          /\ IF gone = Newest(w).api THEN UNCHANGED excuse ELSE Blame(w, "api_warning")
  BY DEF CleanRecords
<1>6. /\ \A a \in Api : records'[a] = IF a \in gone THEN NoTest ELSE records[a]
      /\ gone \subseteq callbacks[w][n + 1].api
      /\ excuse' = excuse \/ excuse'[current[w]] # {}
      /\ excuse'[current[w]] = {} => gone = callbacks[w][n + 1].api /\ excuse' = excuse
      /\ \A t \in Test : excuse[t] # {} => excuse'[t] # {}
      /\ \A t \in Test : t # current[w] => excuse'[t] = excuse[t]
  BY <1>0, <1>2, <1>4, <1>5 DEF Remaining, Blame
<1>7. OwnHandles(w, callbacks[w][n + 1]) /\ callbacks[w][n + 1].db = {}
  BY <1>1, <1>2, <1>3, <1>4 DEF WInv
<1>8. ASSUME NEW v \in Worker, v # w PROVE WInv(v)'
  <2>1. stage[v] # "idle" => /\ current[v] # current[w] /\ current[v] # NoTest
                             /\ current[v] \in Test
    BY <1>0, <1>4, <1>8 DEF Apart, WInv
  <2>2. stage[v] # "idle" => /\ \A a \in Api : (records[a] = current[v]) <=> (records'[a] = current[v])
                             /\ excuse'[current[v]] = excuse[current[v]]
    BY <1>6, <1>7, <2>1 DEF OwnHandles
  <2> QED
    BY <1>0, <1>1, <1>2, <1>8, <2>2, Frame DEF State
<1>9. WInv(w)'
  <2>1. ASSUME NEW i \in 1..n PROVE OwnHandles(w, callbacks[w][i])'
    <3>1. OwnHandles(w, callbacks[w][i]) /\ NoOverlap(callbacks[w][i], callbacks[w][n + 1])
      BY <1>3, <1>4 DEF WInv
    <3> QED
      BY <1>1, <1>2, <1>6, <3>1 DEF OwnHandles, NoOverlap
  <2>2. Followed(w)'
    <3>1. \A i \in Position(w) : i # n + 1 => i \in Position(w)' /\ callbacks'[w][i] = callbacks[w][i]
      BY <1>2, <1>3 DEF Position
    <3>2. CASE excuse'[current[w]] = {}
      BY <1>1, <1>4, <1>6, <1>7, <3>1, <3>2 DEF Followed, NoHandle
    <3> QED
      BY <1>1, <3>2 DEF Followed
  <2>3. Position(w)' = 1..n
    BY <1>2 DEF Position
  <2> QED
    BY <1>1, <1>2, <1>3, <1>4, <2>1, <2>2, <2>3 DEF WInv, NoOverlap, OwnHandles, NoHandle
<1>10. NumbersTaken' /\ Apart' /\ Undisturbed'
  BY <1>0, <1>1, <1>6 DEF NumbersTaken, Apart, Undisturbed, NoTest
<1>11. NothingOutlivesItsTest'
  BY <1>0, <1>1, <1>6 DEF NothingOutlivesItsTest, Running
<1> QED
  BY <1>8, <1>9, <1>10, <1>11

LEMMA TruncateInv ==
  ASSUME HInv, SeedingTypeOK', NEW w \in Worker, Truncate(w)
  PROVE  HInv'
<1> USE DEF HInv
<1>0. /\ current \in [Worker -> Test \cup {NoTest}] /\ stage \in [Worker -> Stage]
      /\ handle \in [Worker -> Callback] /\ started \in Nat
      /\ rows \in [Id -> Test \cup {NoTest}] /\ records \in [Api -> Test \cup {NoTest}]
      /\ excuse \in [Test -> SUBSET Excuse] /\ schema \in [Worker -> {"unused", "held", "truncated"}]
  BY Bounds DEF SeedingTypeOK
<1>1. /\ UNCHANGED <<records, current, stage, handle, callbacks, started, excuse>>
      /\ stage[w] = "teardown" /\ schema[w] = "held" /\ rows' = [id \in Id |-> NoTest]
      /\ schema' = [schema EXCEPT ![w] = "truncated"]
  BY DEF Truncate
<1>2. \A v \in Worker \ {w} : stage[v] = "idle"
  BY <1>1 DEF Undisturbed
<1>3. ASSUME NEW v \in Worker, v # w PROVE WInv(v)'
  BY <1>0, <1>1, <1>2, <1>3, Frame DEF State
<1>4. WInv(w)'
  <2>1. schema'[w] = "truncated" /\ WInv(w) /\ current[w] # NoTest
    BY <1>0, <1>1 DEF WInv
  <2>2. Followed(w)'
    BY <1>1, <2>1 DEF WInv, Followed, Position
  <2> QED
    BY <1>1, <2>1, <2>2 DEF WInv, Position, NoOverlap, OwnHandles
<1>5. NumbersTaken' /\ Apart'
  BY <1>0, <1>1 DEF NumbersTaken, Apart, NoTest
<1>6. Undisturbed'
  BY <1>0, <1>1, <1>2 DEF Undisturbed, WInv
<1>7. NothingOutlivesItsTest'
  BY <1>1 DEF NothingOutlivesItsTest, Running
<1> QED
  BY <1>3, <1>4, <1>5, <1>6, <1>7

\* When a test is over its number stays, and nothing without an excuse bears it.
LEMMA FinishTestInv ==
  ASSUME HInv, SeedingTypeOK', NEW w \in Worker, FinishTest(w)
  PROVE  HInv'
<1> USE DEF HInv
<1>0. /\ current \in [Worker -> Test \cup {NoTest}] /\ stage \in [Worker -> Stage]
      /\ handle \in [Worker -> Callback] /\ started \in Nat
      /\ rows \in [Id -> Test \cup {NoTest}] /\ records \in [Api -> Test \cup {NoTest}]
      /\ excuse \in [Test -> SUBSET Excuse] /\ schema \in [Worker -> {"unused", "held", "truncated"}]
  BY Bounds DEF SeedingTypeOK
<1>1. /\ UNCHANGED <<rows, records, handle, callbacks, started, excuse>>
      /\ stage[w] = "teardown" /\ callbacks[w] = <<>>
      /\ schema' = [schema EXCEPT ![w] = "unused"]
      /\ stage' = [stage EXCEPT ![w] = "idle"]
      /\ current' = [current EXCEPT ![w] = NoTest]
  BY DEF FinishTest, tables
<1>2. handle[w] = NoHandle /\ Followed(w)
  BY <1>1 DEF WInv
<1>3. ASSUME NEW v \in Worker, v # w PROVE WInv(v)'
  BY <1>0, <1>1, <1>3, Frame DEF State
<1>4. WInv(w)'
  BY <1>0, <1>1, <1>2 DEF WInv, Position, NoOverlap, OwnHandles, NoHandle, Followed, NoTest
<1>5. NumbersTaken' /\ Apart' /\ Undisturbed'
  BY <1>0, <1>1 DEF NumbersTaken, Apart, Undisturbed
<1>6. NothingOutlivesItsTest'
  <2>1. excuse[current[w]] = {} => /\ \A id \in Id : id[1] \in DeletableKind => rows[id] # current[w]
                                   /\ \A a \in Api : records[a] # current[w]
    BY <1>1, <1>2 DEF Followed, NoHandle, Position
  <2>2. \A t : t \in Running => t \in Running' \/ t = current[w]
    BY <1>0, <1>1 DEF Running
  <2> QED
    BY <1>1, <2>1, <2>2 DEF NothingOutlivesItsTest
<1> QED
  BY <1>3, <1>4, <1>5, <1>6

LEMMA CrashInv ==
  ASSUME HInv, SeedingTypeOK', NEW w \in Worker, Crash(w)
  PROVE  HInv'
<1> USE DEF HInv
<1>0. /\ current \in [Worker -> Test \cup {NoTest}] /\ stage \in [Worker -> Stage]
      /\ handle \in [Worker -> Callback] /\ started \in Nat
      /\ rows \in [Id -> Test \cup {NoTest}] /\ records \in [Api -> Test \cup {NoTest}]
      /\ excuse \in [Test -> SUBSET Excuse] /\ schema \in [Worker -> {"unused", "held", "truncated"}]
  BY Bounds DEF SeedingTypeOK
<1>1. /\ UNCHANGED <<rows, records, started>> /\ stage[w] # "idle"
      /\ schema' = [schema EXCEPT ![w] = "unused"]
      /\ stage' = [stage EXCEPT ![w] = "idle"]
      /\ current' = [current EXCEPT ![w] = NoTest]
      /\ handle' = [handle EXCEPT ![w] = NoHandle]
      /\ callbacks' = [callbacks EXCEPT ![w] = <<>>]
      /\ excuse' = [excuse EXCEPT ![current[w]] = @ \cup {"crash"}]
  BY DEF Crash, tables, Blame
<1>2. current[w] \in Test /\ current[w] # NoTest /\ callbacks \in [Worker -> Seq(Callback)]
  BY <1>0, <1>1 DEF WInv, SeedingTypeOK
<1>3. /\ excuse'[current[w]] # {} /\ \A t \in Test : excuse[t] # {} => excuse'[t] # {}
      /\ \A t \in Test : t # current[w] => excuse'[t] = excuse[t]
  BY <1>0, <1>1, <1>2
<1>4. ASSUME NEW v \in Worker, v # w PROVE WInv(v)'
  <2>1. stage[v] # "idle" => current[v] \in Test /\ current[v] # current[w]
    BY <1>0, <1>2, <1>4 DEF Apart, WInv
  <2> QED
    BY <1>0, <1>1, <1>2, <1>3, <1>4, <2>1, Frame DEF State
<1>5. WInv(w)'
  <2>1. /\ stage'[w] = "idle" /\ current'[w] = NoTest /\ schema'[w] = "unused"
        /\ handle'[w] = NoHandle /\ callbacks'[w] = <<>>
    BY <1>0, <1>1, <1>2
  <2> QED
    BY <1>0, <1>1, <2>1 DEF WInv, Position, NoOverlap, OwnHandles, NoHandle, Followed, NoTest
<1>6. NumbersTaken' /\ Apart' /\ Undisturbed'
  BY <1>0, <1>1 DEF NumbersTaken, Apart, Undisturbed
<1>7. NothingOutlivesItsTest'
  <2>1. \A t : t \in Running => t \in Running' \/ t = current[w]
    BY <1>0, <1>1 DEF Running
  <2> QED
    BY <1>0, <1>1, <1>3, <2>1 DEF NothingOutlivesItsTest
<1> QED
  BY <1>4, <1>5, <1>6, <1>7

-----------------------------------------------------------------------------
(* The theorems *)

LEMMA NextHInv == HInv /\ PostsLeft /\ [SeedingNext]_seedingVars => HInv'
<1> SUFFICES ASSUME HInv, PostsLeft, [SeedingNext]_seedingVars PROVE HInv'
  OBVIOUS
<1>1. SeedingTypeOK'
  BY NextType DEF HInv
<1>2. CASE UNCHANGED seedingVars
  BY <1>1, <1>2, UnseenInv DEF seedingVars, tables
<1>3. ASSUME NEW w \in Worker, StartTest(w) PROVE HInv'
  BY <1>1, <1>3, StartTestInv
<1>4. ASSUME NEW w \in Worker, NEW scenario \in Scenario, SeedScenario(w, scenario) PROVE HInv'
  BY <1>1, <1>4, SeedScenarioInv
<1>5. ASSUME NEW w \in Worker, NEW scenario \in Scenario, SeedFails(w, scenario) PROVE HInv'
  BY <1>1, <1>5, UnseenInv DEF SeedFails, tables
<1>6. ASSUME NEW w \in Worker,
             SeedApi(w) \/ SeedApiFails(w) \/ Register(w) \/ EndBody(w) \/ Teardown(w)
      PROVE HInv'
  BY <1>1, <1>6, SeedApiInv, SeedApiFailsInv, RegisterInv, EndBodyInv, CleanRowsInv,
     CleanRecordsInv, CleanupFailsInv, TruncateInv, FinishTestInv DEF Teardown
<1>7. ASSUME NEW w \in Worker, Restart(w) PROVE HInv'
  BY <1>1, <1>7, UnseenInv DEF Restart, tables
<1>8. ASSUME NEW w \in Worker, Crash(w) PROVE HInv'
  BY <1>1, <1>8, CrashInv
<1> QED
  BY <1>2, <1>3, <1>4, <1>5, <1>6, <1>7, <1>8 DEF SeedingNext

\* Ownership and the tracking of what was seeded hold in every reachable state.
LEMMA SeedingInvariant == SeedingSpec => []HInv
<1>1. SeedingInit => HInv /\ PostsLeft
  BY InitHInv DEF SeedingInit, PostsLeft
<1>2. HInv /\ PostsLeft /\ [SeedingNext]_seedingVars => HInv' /\ PostsLeft'
  BY NextHInv, NextPosts DEF HInv
<1> QED
  BY <1>1, <1>2, PTL DEF SeedingSpec

\* What a test has in its handles is in the tables as it seeded it until its
\* teardown begins, whatever other workers seed, clean up or truncate.
THEOREM HandlesStayValidHolds == SeedingSpec => []HandlesStayValid
<1>1. HInv => HandlesStayValid
  <2> SUFFICES ASSUME HInv, NEW w \in Worker, stage[w] # "teardown",
                      NEW h \in {handle[w]} \cup Range(callbacks[w])
               PROVE  /\ \A id \in h.db : rows[id] = current[w]
                      /\ \A a \in h.api : records[a] = current[w]
    BY DEF HandlesStayValid
  <2>1. WInv(w) /\ handle[w] \in Callback /\ callbacks[w] \in Seq(Callback)
    BY DEF HInv, SeedingTypeOK
  <2>2. OwnHandles(w, h) /\ h \in Callback
    BY <2>1 DEF WInv, Position, Range
  <2> QED
    BY <2>1, <2>2 DEF WInv, OwnHandles, Callback
<1> QED
  BY SeedingInvariant, <1>1, PTL

\* A finished test leaves deletable rows or API records only with an excuse: a
\* crash, a cleanup that raised, a refused delete or a half-done seed.
THEOREM NothingOutlivesItsTestHolds == SeedingSpec => []NothingOutlivesItsTest
<1>1. HInv => NothingOutlivesItsTest
  BY DEF HInv
<1> QED
  BY SeedingInvariant, <1>1, PTL

\* A cleanup removes rows of its own test only: the id it deletes has not been
\* taken over by another test since it was seeded.
THEOREM CleanupIsOwnHolds == SeedingSpec => CleanupIsOwn
<1> DEFINE Mine(w) == Len(callbacks'[w]) < Len(callbacks[w]) /\ stage[w] = "teardown" =>
                          \A id \in Id : rows'[id] # rows[id] => rows[id] = current[w]
<1>1. HInv /\ [SeedingNext]_seedingVars => \A w \in Worker : Mine(w)
  <2> SUFFICES ASSUME HInv, [SeedingNext]_seedingVars, NEW w \in Worker PROVE Mine(w)
    OBVIOUS
  <2>0. callbacks[w] \in Seq(Callback)
    BY DEF HInv, SeedingTypeOK
  <2>1. CASE rows' = rows
    BY <2>1
  <2>2. CASE callbacks'[w] = callbacks[w]
    <3>1. Len(callbacks[w]) \in Nat
      BY <2>0
    <3> QED
      BY <3>1, <2>2
  <2>3. ASSUME NEW v \in Worker, CleanRows(v) PROVE Mine(w)
    <3>1. CASE v # w
      <4>1. callbacks'[w] = callbacks[w]
        BY <2>3, <3>1, Popping DEF HInv, CleanRows
      <4> QED
        BY <4>1, <2>2
    <3>2. CASE v = w
      <4>1. PICK n \in Nat : Len(callbacks[w]) = n + 1 /\ Newest(w) = callbacks[w][n + 1]
        BY <2>3, <3>2, Popping DEF HInv, CleanRows
      <4>2. OwnHandles(w, callbacks[w][n + 1])
        <5>1. n + 1 \in Position(w) /\ WInv(w)
          BY <4>1 DEF Position, HInv
        <5> QED
          BY <5>1 DEF WInv
      <4>3. \A id \in Id : rows'[id] = IF id \in callbacks[w][n + 1].db /\ id[1] \in DeletableKind
                                       THEN NoTest ELSE rows[id]
        BY <2>3, <3>2, <4>1 DEF CleanRows, Remaining, HInv, SeedingTypeOK
      <4>4. schema[w] = "truncated" => \A id \in Id : rows[id] = NoTest
        BY DEF HInv, Undisturbed
      <4> QED
        BY <4>2, <4>3, <4>4 DEF OwnHandles
    <3> QED
      BY <3>1, <3>2
  <2>4. CASE UNCHANGED seedingVars
    BY <2>1, <2>4 DEF seedingVars, tables
  <2>5. ASSUME NEW v \in Worker,
               \/ StartTest(v) \/ \E scenario \in Scenario : SeedFails(v, scenario)
               \/ SeedApi(v) \/ SeedApiFails(v) \/ Register(v) \/ EndBody(v)
               \/ CleanRecords(v) \/ CleanupFails(v) \/ FinishTest(v) \/ Restart(v) \/ Crash(v)
        PROVE  Mine(w)
    <3>1. rows' = rows
      BY <2>5 DEF StartTest, SeedFails, SeedApi, SeedApiFails, Register, EndBody, CleanRecords,
         CleanupFails, FinishTest, Restart, Crash, tables
    <3> QED
      BY <3>1, <2>1
  <2>6. ASSUME NEW v \in Worker, Truncate(v) \/ \E scenario \in Scenario : SeedScenario(v, scenario)
        PROVE  Mine(w)
    <3>1. callbacks'[w] = callbacks[w]
      BY <2>6 DEF Truncate, SeedScenario
    <3> QED
      BY <3>1, <2>2
  <2> QED
    BY <2>3, <2>4, <2>5, <2>6 DEF SeedingNext, Teardown
<1>2. HInv /\ [SeedingNext]_seedingVars =>
        [\A w \in Worker : Len(callbacks'[w]) < Len(callbacks[w]) /\ stage[w] = "teardown" =>
            \A id \in Id : rows'[id] # rows[id] => rows[id] = current[w]]_seedingVars
  BY <1>1
<1> QED
  BY SeedingInvariant, <1>2, PTL DEF SeedingSpec, CleanupIsOwn
===============================================================================
