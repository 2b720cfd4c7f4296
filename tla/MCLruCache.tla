----------------------------- MODULE MCLruCache -----------------------------
(***************************************************************************)
(* LruCache with room for three of four header values, so that entries     *)
(* are removed from the head, the middle and the tail of the list.         *)
(***************************************************************************)
EXTENDS LruCache
=============================================================================
