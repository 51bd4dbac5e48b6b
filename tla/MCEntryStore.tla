---------------------------- MODULE MCEntryStore ----------------------------
(***************************************************************************)
(* TLC instance of EntryStore.                                             *)
(***************************************************************************)
EXTENDS EntryStore
=============================================================================
