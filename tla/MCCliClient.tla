----------------------------- MODULE MCCliClient -----------------------------
(***************************************************************************)
(* TLC instance of CliClient: an invocation that gets the latest record and*)
(* one that deletes it, side by side over the same cache, and lines that   *)
(* must be refused.                                                        *)
(***************************************************************************)
EXTENDS CliClient

MCPolicies == { {"bearer"}, {"x-api-key"}, {Nothing} }

MCLines == <<
  { <<>>, <<"swap", "7", "7">>, <<"mod", "-f", "7">>,
    <<"--url", "", "find", "note", "--asc", "-l", "-t", "--desc">> },
  { <<"del", "--api-key", "7">>, <<"--id", "7", "del">> } >>
=============================================================================
