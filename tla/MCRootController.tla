--------------------------- MODULE MCRootController ---------------------------
(***************************************************************************)
(* TLC instance of RootController: a body for each way through the checks, *)
(* and a record for another process to store.                              *)
(***************************************************************************)
EXTENDS RootController

\* What another process stores; the handlers' own records can be others.
MCData == Contents
MCForeign == {[mime |-> "image", size |-> 1, named |-> FALSE]}

Upload(size, mime, name, titled) ==
  [form |-> "multipart", parsed |-> TRUE, size |-> size, mime |-> mime, name |-> name,
   titled |-> titled]
NoUpload(form, parsed, size) ==
  [form |-> form, parsed |-> parsed, size |-> size, mime |-> "none", name |-> "empty",
   titled |-> FALSE]
MCBodies ==
  { NoUpload("json", TRUE, size) : size \in {0, MaxText, MaxText + 1} } \union
  { NoUpload(form, FALSE, 0) : form \in {"json", "multipart", "other"} } \union
  { NoUpload("list", TRUE, 0),
    Upload(0, "none", "empty", FALSE),  \* no file; as a PATCH, nothing to change
    Upload(0, "none", "txt", TRUE),     \* no file; as a PATCH, another name
    Upload(0, "json", "empty", FALSE),  \* no file; as a PATCH, another type
    Upload(0, "odd", "empty", FALSE),
    Upload(1, "none", "none", FALSE),   \* a type that nothing tells
    Upload(1, "none", "txt", FALSE),    \* a type told by the extension
    Upload(1, "octet", "js", FALSE),    \* the same, over a general one
    Upload(1, "plain", "empty", FALSE), \* a text that has no name
    Upload(1, "odd", "txt", FALSE),
    Upload(2, "image", "txt", FALSE) }  \* too large for a file only
=============================================================================
