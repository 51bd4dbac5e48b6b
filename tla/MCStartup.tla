------------------------------ MODULE MCStartup ------------------------------
(***************************************************************************)
(* TLC instance of Startup: two processes, an invocation for each way      *)
(* through the options, limits below, at and above what is allowed.        *)
(***************************************************************************)
EXTENDS Startup, TLC

CONSTANTS Share, Near

MCDirs == {Var, Share, Near}
MCLocal == Var :> Share @@ Share :> Near

Call(line, env, home, cwd) == [line |-> line, env |-> env, home |-> home, cwd |-> cwd]
Plain(line) == Call(line, NoEnv, Share, Var)

MCInvocations == {
  Plain(<<>>),
  Call(<<>>, [NoEnv EXCEPT !.limit = 2], Nothing, Share),
  Call(<< <<"limit", 2>> >>, [NoEnv EXCEPT !.limit = 1], Nothing, Var),
  Plain(<< <<"limit", 3>>, <<"force", TRUE>>, <<"limit", 1>>, <<"file", 0>> >>),
  Call(<< <<"action", "help">>, <<"limit", Junk>> >>, [NoEnv EXCEPT !.limit = 2], Share, Var),
  Call(<< <<"file", Junk>>, <<"init", TRUE>> >>,
       [NoEnv EXCEPT !.limit = 3, !.db = <<Var, Standard>>, !.file = 2], Share, Share),
  Plain(<< <<"check", TRUE>> >>),
  Call(<< <<"db", <<Here, Standard>> >>, <<"upload", Here>>, <<"limit", 0>> >>,
       [NoEnv EXCEPT !.limit = Junk, !.file = Junk], Share, Share),
  Call(<<>>, [NoEnv EXCEPT !.db = <<Share, Standard>>, !.upload = Here], Share, Var),
  Call(<< <<"db", <<Var, Other>> >>, <<"upload", Share>>, <<"limit", 1>> >>,
       [NoEnv EXCEPT !.limit = 2], Share, Var) }

Symmetry == Permutations(Procs)
=============================================================================
