------------------------------ MODULE MCSeeding ------------------------------
(***************************************************************************)
(* Two kinds of rows, of which alarms have no delete, SIM cards without a  *)
(* repository, and the scenarios that bundle them.                         *)
(***************************************************************************)
EXTENDS Seeding

AllKinds == {"tenant", "alarm", "sim"}
Scenarios == {{"tenant", "sim"}, {"tenant", "alarm"}}
=============================================================================
