--------------------------------- MODULE Rows ---------------------------------
(***************************************************************************)
(* The content of the demo schema's tables: for every primary key, the     *)
(* session that wrote the row last, or Absent.  Uncommitted work is a set  *)
(* of changes laid over the committed rows.                                *)
(***************************************************************************)
CONSTANTS
    Session,        \* whoever opens a transaction: a UnitOfWork, a bare connection
    Row,            \* primary keys
    Absent,         \* content of a row that is not in the table
    Untouched       \* entry of a row that the changes leave as it is

ASSUME AbsentAssumption == Absent \notin Session
ASSUME UntouchedAssumption == Untouched \notin Session /\ Untouched # Absent

Content == Session \cup {Absent}
Tables == [Row -> Content]
Changes == [Row -> Content \cup {Untouched}]

Empty == [r \in Row |-> Absent]
Nothing == [r \in Row |-> Untouched]

Overlay(base, changes) ==
    [r \in Row |-> IF changes[r] = Untouched THEN base[r] ELSE changes[r]]
=============================================================================
