--------------------------- MODULE MCBrowserSession ---------------------------
(***************************************************************************)
(* Workers are interchangeable.                                            *)
(***************************************************************************)
EXTENDS BrowserSession, TLC

Workers == Permutations(Worker)
=============================================================================
