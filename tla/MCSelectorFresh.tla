--------------------------- MODULE MCSelectorFresh ---------------------------
(***************************************************************************)
(* The instance of MCSelector with the history of SelectorFresh.           *)
(***************************************************************************)
EXTENDS MCSelector, SelectorFresh
=============================================================================
