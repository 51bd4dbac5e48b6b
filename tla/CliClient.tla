------------------------------ MODULE CliClient ------------------------------
(***************************************************************************)
(* The command-line client: what a command line asks for, the attempts to  *)
(* authenticate behind every request, and the cache of the scheme that     *)
(* worked, a file all invocations share without a lock.                    *)
(*                                                                         *)
(* The server is external: whoever stands in front of it accepts some of   *)
(* the two schemes (or asks for none) and may change that at any time; a   *)
(* request it accepts is carried out and answered, in success or failure,  *)
(* or never answered at all.  A request or an answer may get lost, which   *)
(* curl reports and the client never repeats.  An error a proxy gives on   *)
(* its own (429, 502) would teach the client a scheme nobody has looked    *)
(* at; there is none here.  Left out: URLs, bodies, how answers are laid   *)
(* out.                                                                    *)
(***************************************************************************)
EXTENDS Integers, Sequences, FiniteSets

CONSTANTS Clients,    \* invocations of karing that may overlap
          Nothing,    \* no value
          Torn,       \* an empty cache file
          Mixed,      \* "bearerkey": bearer written over x-api-key
          Ids,        \* words that are numbers in 1..1000
          LocalFiles, \* words that name an existing file
          Policies,   \* sets of schemes a server may accept
          Lines       \* invocation -> the command lines it may be given

ASSUME ValueAssumption ==
  /\ Nothing \notin {"bearer", "x-api-key"}
  /\ Torn \notin {"bearer", "x-api-key", Nothing}
  /\ Mixed \notin {"bearer", "x-api-key", Nothing, Torn}

\* Words are strings; no number is an option or a command.
ASSUME LinesAssumption ==
  /\ Nothing \notin STRING
  /\ \A c \in Clients : Lines[c] \subseteq Seq(STRING)
  /\ Ids \intersect {"del", "--json", "--url", "--api-key", "--id"} = {}

VARIABLES client,     \* invocation -> where it stands
          cache,      \* the cache file of this server
          accepts,    \* schemes the server accepts; Nothing: it asks for none
          record      \* what the record a get asks for is

cvars == <<client, cache, accepts, record>>

Schemes == {"bearer", "x-api-key"}
Kinds   == {"text", "file"}

-----------------------------------------------------------------------------
(* Command lines.                                                          *)

\* The positions of options that take the next word as their value: in a row
\* of options every other one, from the first on.  As the last word of a line
\* they are words like any other.
Takes(words, options) ==
  [i \in 1..Len(words) |->
     /\ words[i] \in options /\ i < Len(words)
     /\ \E first \in 1..i : /\ (i - first) % 2 = 0
                            /\ first > 1 => words[first - 1] \notin options
                            /\ \A j \in first..i : words[j] \in options]

\* The value an option was given last.
Value(words, options, names) ==
  LET takes == Takes(words, options)
      at    == {i \in DOMAIN words : takes[i] /\ words[i] \in names}
  IN  IF at = {} THEN Nothing ELSE words[1 + CHOOSE i \in at : \A j \in at : j <= i]

\* The words that are neither switches nor options with their values.
Words(words, options, switches) ==
  LET takes == Takes(words, options)
      kept  == {i \in DOMAIN words : /\ ~takes[i] /\ words[i] \notin switches
                                     /\ i > 1 => ~takes[i - 1]}
      nth(n) == CHOOSE i \in kept : Cardinality({j \in kept : j <= i}) = n
  IN  [n \in 1..Cardinality(kept) |-> words[nth(n)]]

Switched(words, options, switch) ==
  LET takes == Takes(words, options)
  IN  \E i \in DOMAIN words : words[i] = switch /\ ~(i > 1 /\ takes[i - 1])

Ask(op, id) == [op |-> op, id |-> id]
Refuse == Ask("refused", Nothing)

Get(id, json) == Ask(IF json THEN "describe" ELSE "show", id)

FileOptions == {"-f", "--file", "--mime", "--name"}

\* Text from the words, else from standard input; or a file that exists.
Upload(op, id, words, stdin) ==
  LET file == Value(words, FileOptions, {"-f", "--file"})
      text == Words(words, FileOptions, {})
  IN  CASE file # Nothing -> IF file \in LocalFiles THEN Ask(op, id) ELSE Refuse
        [] file = Nothing /\ (text \notin {<<>>, <<"">>} \/ stdin) -> Ask(op, id)
        [] OTHER -> Refuse

RunAdd(words, stdin) == Upload("create", Nothing, words, stdin)

RunMod(words, stdin) ==
  IF words = <<>> \/ Head(words) \notin Ids THEN Refuse
  ELSE Upload("replace", Head(words), Tail(words), stdin)

RunDelete(words) == Ask("delete", IF words = <<>> THEN Nothing ELSE Head(words))

RunSwap(words) ==
  IF Len(words) = 2 /\ {words[1], words[2]} \subseteq Ids /\ words[1] # words[2]
  THEN Ask("swap", <<words[1], words[2]>>) ELSE Refuse

\* What is searched for makes no difference here, only whether it is asked.
RunFind(words) ==
  LET options == {"--limit", "-l", "--type", "-t", "--sort", "-s"}
  IN  IF Switched(words, options, "--asc") /\ Switched(words, options, "--desc")
      THEN Refuse ELSE Ask("search", Nothing)

GlobalOptions == {"--url", "--api-key", "--id"}

\* MUTANT Dispatch: a command is carried out without the --id beside it.
DispatchDropsId(line, url, stdin) ==
  LET args == Words(line, GlobalOptions, {"--json"})
  IN  IF args # <<>> /\ args[1] = "del" THEN RunDelete(Tail(args))
      ELSE Get(Nothing, TRUE)

\* The command a line begins with; a line that begins with none is text to add.
Command(args, json, stdin) ==
  LET rest == Tail(args)
  IN  CASE args[1] = "add" -> RunAdd(rest, stdin)
        [] args[1] = "del" -> RunDelete(rest)
        [] args[1] = "find" -> RunFind(rest)
        [] args[1] = "health" -> Ask("health", Nothing)
        [] args[1] = "mod" -> RunMod(rest, stdin)
        [] args[1] = "swap" -> RunSwap(rest)
        [] args[1] = "resequence" -> Ask("resequence", Nothing)
        [] OTHER -> IF Len(args) = 1 /\ args[1] \in Ids THEN Get(args[1], json)
                    ELSE RunAdd(args, stdin)

\* parse_global and run.  --id on its own is read and not used: the latest
\* record is fetched; with other words it is refused.
Dispatch(line, url, stdin) ==
  LET json == Switched(line, GlobalOptions, "--json")
      args == Words(line, GlobalOptions, {"--json"})
      id   == Value(line, GlobalOptions, {"--id"})
  IN  IF \/ args # <<>> /\ args[1] \in {"--help", "-h", "--version"}
         \/ ~url /\ Value(line, GlobalOptions, {"--url"}) \in {Nothing, ""}
         \/ args # <<>> /\ id # Nothing
      THEN Refuse
      ELSE IF args = <<>> THEN Get(Nothing, json) ELSE Command(args, json, stdin)

\* A line names a record by a number that is not a URL or a key.
Names(line) ==
  \E i \in DOMAIN line :
    /\ line[i] \in Ids
    /\ i > 1 /\ Takes(line, GlobalOptions)[i - 1] => line[i - 1] = "--id"

-----------------------------------------------------------------------------
(* One request: up to three attempts.                                      *)

Idle == [pc |-> "idle", names |-> FALSE, req |-> Refuse, key |-> FALSE, part |-> "only",
         scheme |-> Nothing, cached |-> FALSE, answer |-> "none",
         seen |-> "none", applied |-> 0, steady |-> TRUE, changed |-> FALSE]

At(c, pc) == client[c].pc = pc

\* An invocation that is refused, or asks for help, sends nothing.
Invoke(c, line, url, key, stdin) ==
  LET req == Dispatch(line, url, stdin)
  IN  /\ At(c, "idle")
      /\ req # Refuse
      /\ client' = [client EXCEPT ![c] =
           [Idle EXCEPT !.pc = "load", !.req = req,
                        !.names = Names(line),
                        !.key = key \/ Value(line, GlobalOptions, {"--api-key"}) # Nothing,
                        !.part = IF req.op = "show" THEN "metadata" ELSE "only"]]
      /\ UNCHANGED <<cache, accepts, record>>

\* MUTANT Cached: whatever is in the file is taken for a scheme.
CachedAnything == cache

\* load_auth_scheme: a file without a scheme in it counts as none.
Cached == IF cache \in Schemes THEN cache ELSE Nothing

Load(c) ==
  /\ At(c, "load")
  /\ LET scheme == IF ~client[c].key THEN Nothing
                   ELSE IF Cached = Nothing THEN "bearer" ELSE Cached
     IN  client' = [client EXCEPT ![c] =
           [@ EXCEPT !.pc = "send", !.scheme = scheme, !.steady = TRUE,
                     !.cached = client[c].key /\ Cached # Nothing]]
  /\ UNCHANGED <<cache, accepts, record>>

\* The answers the server has for a request it lets through: an error can
\* come after the change it was asked for.
Answers(c) ==
  CASE client[c].req.op \in {"describe", "show"} ->
         {record, "failed"}
    [] OTHER -> {"done", "failed"}

Let(scheme) == accepts \intersect {scheme, Nothing} # {}

\* curl_easy_perform: the answer arrives.
Send(c) ==
  /\ At(c, "send")
  /\ LET scheme == client[c].scheme
     IN  IF Let(scheme)
         THEN \E answer \in Answers(c) :
                client' = [client EXCEPT ![c] =
                  [@ EXCEPT !.pc = "answer", !.answer = answer,
                            !.applied = client[c].applied + 1]]
         ELSE client' = [client EXCEPT ![c] =
                [@ EXCEPT !.pc = "answer", !.answer = "unauthorised"]]
  /\ UNCHANGED <<cache, accepts, record>>

\* The request or the answer is lost: the exception ends the invocation.
Lose(c) ==
  /\ At(c, "send")
  /\ client' = [client EXCEPT ![c] = Idle]
  /\ UNCHANGED <<cache, accepts, record>>

\* MUTANT Refused: any failure is taken for a refused scheme.
RefusedFailed(c) == client[c].answer \in {"unauthorised", "failed"}

\* Status 401 or 403.
Refused(c) == client[c].answer = "unauthorised"

\* MUTANT NextScheme: a refused cached scheme is the only one tried.
NextSchemeNone(c) ==
  IF ~client[c].cached /\ client[c].scheme = "bearer" THEN "x-api-key" ELSE Nothing

\* Bearer after the cached scheme, X-API-Key after bearer.
NextScheme(c) ==
  CASE client[c].cached -> "bearer"
    [] ~client[c].cached /\ client[c].scheme = "bearer" -> "x-api-key"
    [] OTHER -> Nothing

\* MUTANT Retry: a cached scheme that is refused is not given up.
RetryCached(c) ==
  /\ At(c, "answer") /\ client[c].key /\ Refused(c)
  /\ client[c].cached
  /\ client' = [client EXCEPT ![c] = [@ EXCEPT !.pc = "send"]]
  /\ UNCHANGED <<cache, accepts, record>>
Retry(c) ==
  /\ At(c, "answer") /\ client[c].key /\ Refused(c)
  /\ NextScheme(c) # Nothing
  /\ client' = [client EXCEPT ![c] =
       [@ EXCEPT !.pc = "send", !.cached = FALSE, !.scheme = NextScheme(c)]]
  /\ UNCHANGED <<cache, accepts, record>>

\* MUTANT Learns: the last scheme tried is saved whether or not it worked.
LearnsLast(c) == client[c].key /\ ~client[c].cached

\* A scheme found by trying is saved.
Learns(c) == client[c].key /\ ~client[c].cached /\ ~Refused(c)

\* save_auth_scheme: the file is emptied, then written from its beginning,
\* over what another invocation that emptied it too has written meanwhile.
Truncate(c) ==
  /\ At(c, "answer") /\ Learns(c)
  /\ cache' = Torn
  /\ client' = [client EXCEPT ![c].pc = "write"]
  /\ UNCHANGED <<accepts, record>>

Write(c) ==
  /\ At(c, "write")
  /\ cache' = IF client[c].scheme = "bearer" /\ cache \in {"x-api-key", Mixed}
              THEN Mixed ELSE client[c].scheme
  /\ client' = [client EXCEPT ![c].pc = "answered"]
  /\ UNCHANGED <<accepts, record>>

\* The answer is the one perform_with_optional_auth returns; a cache that
\* cannot be written is not missed.
Settle(c) ==
  /\ At(c, "answer")
  /\ client[c].key /\ Refused(c) => NextScheme(c) = Nothing
  /\ client' = [client EXCEPT ![c].pc = "answered"]
  /\ UNCHANGED <<cache, accepts, record>>

\* MUTANT IsFile: the metadata is not looked at.
IsFileNever(c) == FALSE

\* load_record_metadata and is_file.
IsFile(c) == client[c].part = "metadata" /\ client[c].answer = "file"

\* run_get: metadata of a file ends in a hint how to download it; else the
\* contents are asked for, in a request of their own.
Fetch(c) ==
  /\ At(c, "answered")
  /\ client[c].part = "metadata" /\ ~IsFile(c)
  /\ client' = [client EXCEPT ![c] =
       [Idle EXCEPT !.pc = "load", !.req = client[c].req, !.key = client[c].key,
                    !.part = "contents", !.seen = client[c].answer,
                    !.changed = client[c].changed]]
  /\ UNCHANGED <<cache, accepts, record>>

\* The last answer is there to be printed.
Prints(c) == At(c, "answered") /\ (client[c].part # "metadata" \/ IsFile(c))

\* The process ends, or is interrupted wherever it stands.
Quit(c) ==
  /\ ~At(c, "idle")
  /\ client' = [client EXCEPT ![c] = Idle]
  /\ UNCHANGED <<cache, accepts, record>>

\* Whoever checks the keys changes what is accepted.
Reconfigure ==
  /\ \E schemes \in Policies : schemes # accepts /\ accepts' = schemes
  /\ client' = [c \in Clients |->
       IF At(c, "idle") THEN Idle ELSE [client[c] EXCEPT !.steady = FALSE]]
  /\ UNCHANGED <<cache, record>>

\* Another client puts something else in the slot.
Overwrite ==
  /\ \E kind \in Kinds : kind # record /\ record' = kind
  /\ client' = [c \in Clients |->
       IF client[c].req.op = "show" THEN [client[c] EXCEPT !.changed = TRUE] ELSE client[c]]
  /\ UNCHANGED <<cache, accepts>>

CInit ==
  /\ client = [c \in Clients |-> Idle]
  /\ cache = Nothing
  /\ accepts \in Policies
  /\ record \in Kinds

\* What an invocation does by itself, and how a transfer ends.
Step(c) == \/ Load(c) \/ Retry(c) \/ Truncate(c) \/ Write(c) \/ Settle(c) \/ Fetch(c)
           \/ Prints(c) /\ Quit(c)
Transfer(c) == Send(c) \/ Lose(c)

CNext ==
  \/ \E c \in Clients :
       \/ \E line \in Lines[c], url, key, stdin \in BOOLEAN : Invoke(c, line, url, key, stdin)
       \/ Step(c) \/ Transfer(c) \/ Quit(c)
  \/ Reconfigure \/ Overwrite

\* A client goes on while it can: its own steps wait for nothing.  A transfer
\* need not end: http_client.cpp sets no time limit.
CSpec == CInit /\ [][CNext]_cvars /\ \A c \in Clients : WF_cvars(Step(c))

-----------------------------------------------------------------------------
(* What the client must keep true.                                         *)

ClientTypeOK ==
  /\ \A c \in Clients :
       /\ client[c].pc \in {"idle", "load", "send", "answer", "write", "answered"}
       /\ client[c].scheme \in Schemes \union {Nothing}
       /\ client[c].answer \in {"none", "text", "file", "done", "failed", "unauthorised"}
       /\ client[c].scheme # Nothing \/ At(c, "load") \/ ~client[c].key \/ At(c, "idle")
  /\ cache \in Schemes \union {Nothing, Torn, Mixed}

\* However many attempts it takes, one invocation is carried out at most
\* once: a request that failed after it had changed the store (POST /swap
\* with an unused slot) is not sent again under another scheme.
AppliedOnce == \A c \in Clients : client[c].applied <= 1

\* The cache, stale, torn by an interrupted writer or changed by another
\* invocation, never costs an answer: an invocation ends unauthorised only
\* when the server accepts no scheme, or changed its mind meanwhile.
CacheIsOnlyAHint ==
  \A c \in Clients :
    (Prints(c) /\ client[c].key /\ Refused(c) /\ client[c].steady)
      => accepts \intersect (Schemes \union {Nothing}) = {}

\* A scheme gets into the cache only after the server has carried out a
\* request under it.
CacheWorked ==
  [][(cache' # cache /\ cache' \in Schemes) =>
       \E c \in Clients : client[c].scheme = cache' /\ client[c].applied > 0]_cvars

\* "Non-text files do not dump raw binary" (docs/cli.md), as long as the
\* metadata was answered and the slot keeps what it had.
BinaryIsNotPrinted ==
  \A c \in Clients :
    (Prints(c) /\ client[c].part = "contents" /\ client[c].answer = "file")
      => client[c].changed \/ client[c].seen \in {"failed", "unauthorised"}

\* The latest record is deleted only by a line that names no record at all,
\* by --id, beside the command or anywhere else.
LatestOnlyUnnamed ==
  \A c \in Clients :
    client[c].req = Ask("delete", Nothing) => ~client[c].names

\* Whatever the server accepts and the cache holds, an invocation none of
\* whose transfers lasts for ever ends: it does not try the schemes in turn
\* without end, nor wait for another invocation.
EveryInvocationEnds ==
  \A c \in Clients :
    ([]<>~At(c, "send")) => (~At(c, "idle") ~> At(c, "idle"))
=============================================================================
