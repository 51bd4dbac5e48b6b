---------------------------- MODULE MCKaringStore ----------------------------
(***************************************************************************)
(* TLC instance of KaringStore: rings of up to three slots, enough records *)
(* to wrap the largest one, and more seconds than DELETE / reaches back.   *)
(***************************************************************************)
EXTENDS KaringStore
=============================================================================
