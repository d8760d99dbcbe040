----------------------------- MODULE MCUnitOfWork -----------------------------
(***************************************************************************)
(* One UnitOfWork slot and one bare connection (the db_connection fixture  *)
(* of the same test, or another xdist worker on the same server) over two  *)
(* rows.                                                                   *)
(***************************************************************************)
EXTENDS UnitOfWork
=============================================================================
