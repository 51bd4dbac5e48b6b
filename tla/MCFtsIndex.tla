----------------------------- MODULE MCFtsIndex -----------------------------
(***************************************************************************)
(* TLC instance of FtsIndex.                                               *)
(***************************************************************************)
EXTENDS FtsIndex
=============================================================================
