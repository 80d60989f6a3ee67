------------------------------ MODULE Startup -------------------------------
(***************************************************************************)
(* main (src/src/main.cc) from its arguments to its exit: ParseArgs,       *)
(* LoadSchema, DiscoverJwksUri, log::Init, the constructor of the pool,    *)
(* BuildAndStart, the signal handlers, the shutdown hook, Wait.  How the   *)
(* server drains is module GrpcServer.                                     *)
(*                                                                         *)
(* A configuration is what LoadSchema can tell apart about a file.  The    *)
(* file system, the identity provider, PostgreSQL, the port and whoever    *)
(* sends signals are the environment, which may do anything at any time.   *)
(***************************************************************************)
EXTENDS Integers, Sequences

CONSTANTS
    Starts,         \* pairs of an argument list and the file at its config_path
    IntModulus,     \* 2^32: get<int>() keeps a number modulo this
    Size            \* connections of the pool

\* Arguments: "-h" and "-c" also stand for their long forms.
Tokens == {"-h", "-c", "other"}

ASSUME StartupAssumption ==
    /\ IntModulus \in Nat \ {0} /\ IntModulus % 2 = 0
    /\ Size \in Nat \ {0}

-----------------------------------------------------------------------------
(***************************************************************************)
(* The configuration file.                                                 *)
(***************************************************************************)

Sections == {"database", "oauth", "grpc", "log"}

\* kAllowedDatabaseKeys and its siblings.
KeysOf(s) ==
    CASE s = "database" -> {"url"}
      [] s = "oauth" ->
            {"issuer_url", "audience", "jwks_cache_ttl_seconds",
             "discovery_connect_timeout_seconds",
             "discovery_read_timeout_seconds"}
      [] s = "grpc" -> {"port"}
      [] s = "log" -> {"level", "file", "max_size_mb", "max_files"}

Keys == UNION { KeysOf(s) : s \in Sections }

SectionOf(k) == CHOOSE s \in Sections : k \in KeysOf(s)

\* The defaults and the largest values of the integer keys.
Default ==
    [jwks_cache_ttl_seconds |-> 3600, discovery_connect_timeout_seconds |-> 5,
     discovery_read_timeout_seconds |-> 15, port |-> 50051,
     max_size_mb |-> 100, max_files |-> 7]

Largest ==
    [jwks_cache_ttl_seconds |-> 86400,
     discovery_connect_timeout_seconds |-> 120,
     discovery_read_timeout_seconds |-> 600, port |-> 65535,
     max_size_mb |-> 1024, max_files |-> 100]

IntKeys == DOMAIN Default

\* An int holds every limit and the first number above it.
ASSUME IntWidthAssumption ==
    \A k \in IntKeys : Largest[k] + 1 < IntModulus \div 2

StringKeys == Keys \ IntKeys

\* What the file says of a key.  "good" and "bad" are non-empty strings that
\* do and do not have the form the key wants (any audience is good); the
\* directory of a "good" log file is the one that may be writable.
StringKinds == {"absent", "wrong type", "empty", "bad", "good"}
IntKinds == {"absent", "wrong type", "zero", "one", "largest", "above", "wraps"}

Number(k, kind) ==
    CASE kind = "zero"    -> 0
      [] kind = "one"     -> 1
      [] kind = "largest" -> Largest[k]
      [] kind = "above"   -> Largest[k] + 1
      [] kind = "wraps"   -> IntModulus + 2

\* A file.  One that is no JSON object has only its form; a section that is
\* no object has no keys.
IsFile(c) ==
    /\ c \in [form : {"unreadable", "no json", "no object", "object"},
              section : [Sections -> {"absent", "wrong type", "object"}],
              unknown : SUBSET Sections,
              strings : [StringKeys -> StringKinds],
              ints : [IntKeys -> IntKinds]]
    /\ \A s \in c.unknown : c.section[s] = "object"

ASSUME StartsAssumption ==
    \A s \in Starts : s[1] \in Seq(Tokens) /\ IsFile(s[2])

\* EVGRPC_DATABASE_URL
Envs == {"unset", "bad", "good"}

\* get<int>() of a JSON integer.
Narrow(n) == ((n + IntModulus \div 2) % IntModulus) - IntModulus \div 2

\* Mutant of IntErrors: zero is not refused.
IntErrorsAboveOnly(c, s) ==
    { k \in KeysOf(s) \cap IntKeys :
        \/ c.ints[k] = "wrong type"
        \/ /\ c.ints[k] # "absent"
           /\ Narrow(Number(k, c.ints[k])) > Largest[k] }

IntErrors(c, s) ==
    { k \in KeysOf(s) \cap IntKeys :
        \/ c.ints[k] = "wrong type"
        \/ /\ c.ints[k] # "absent"
           /\ Narrow(Number(k, c.ints[k])) \notin 1 .. Largest[k] }

\* The file has a string that is not empty for database.url.
HasUrl(c) == c.section["database"] = "object" /\ c.strings["url"] \in {"bad", "good"}

\* json wins over the environment, whose value is looked at only when the
\* file has a database section.
UrlErrors(c, env) ==
    IF \/ c.section["database"] = "absent" /\ env = "unset"
       \/ /\ c.section["database"] = "object"
          /\ \/ c.strings["url"] \in {"wrong type", "bad"}
             \/ ~HasUrl(c) /\ env # "good"
    THEN {"url"} ELSE {}

\* Mutant of DatabaseUrl: the environment wins.
DatabaseUrlEnvFirst(c, env) ==
    IF env # "unset" THEN <<"env", env>> ELSE <<"file", c.strings["url"]>>

DatabaseUrl(c, env) ==
    IF HasUrl(c) THEN <<"file", c.strings["url"]>> ELSE <<"env", env>>

OauthErrors(c) ==
    (IF c.strings["issuer_url"] = "good" THEN {} ELSE {"issuer_url"})
    \cup (IF c.strings["audience"] \in {"bad", "good"} THEN {} ELSE {"audience"})
    \cup IntErrors(c, "oauth")

\* writable: the directory of log.file exists and is writable.
LogErrors(c, writable) ==
    (IF c.strings["level"] \in {"absent", "good"} THEN {} ELSE {"level"})
    \cup (IF \/ c.strings["file"] \in {"absent", "empty"}
             \/ c.strings["file"] = "good" /\ writable
          THEN {} ELSE {"file"})
    \cup IntErrors(c, "log")

\* Errors of the keys of a section that is an object.
KeyErrors(c, s, env, writable) ==
    CASE s = "database" -> UrlErrors(c, env)
      [] s = "oauth"    -> OauthErrors(c)
      [] s = "grpc"     -> IntErrors(c, "grpc")
      [] s = "log"      -> LogErrors(c, writable)

SectionErrors(c, s, env, writable) ==
    CASE c.section[s] = "object" -> KeyErrors(c, s, env, writable)
      [] c.section[s] = "absent" /\ s = "database" -> UrlErrors(c, env)
      [] OTHER -> {s}

\* Mutant of ErrorsOf: the sections after a bad one are not looked at.
ErrorsOfFailFast(c, env, writable) ==
    LET of(s) == SectionErrors(c, s, env, writable)
    IN  [bad |-> CASE of("database") # {} -> of("database")
                   [] of("oauth") # {}    -> of("oauth")
                   [] of("grpc") # {}     -> of("grpc")
                   [] OTHER               -> of("log"),
         unknown |-> c.unknown]

\* What ConfigErrorCollector has collected when LoadSchema is through: the
\* sections and keys that are bad, and the sections with an unknown key.
ErrorsOf(c, env, writable) ==
    [bad |-> UNION { SectionErrors(c, s, env, writable) : s \in Sections },
     unknown |-> c.unknown]

NoErrors == [bad |-> {}, unknown |-> {}]

\* The SchemaConfig that LoadSchema returns, as far as main uses it.
Schema(c, env) ==
    [url |-> DatabaseUrl(c, env),
     file |-> c.strings["file"] = "good",
     ints |-> [k \in IntKeys |->
                  IF c.ints[k] = "absent" THEN Default[k]
                  ELSE Narrow(Number(k, c.ints[k]))]]

NoSchema == [url |-> <<"file", "absent">>, file |-> FALSE, ints |-> Default]

-----------------------------------------------------------------------------

VARIABLES
    phase,      \* where main is
    argv,       \* the arguments not parsed yet
    help,       \* help_requested
    conf,       \* the file at config_path
    env,        \* EVGRPC_DATABASE_URL
    writable,   \* the directory of log.file is writable now
    errors,     \* what LoadSchema reported
    cfg,        \* the configuration in force
    open,       \* connections the pool has opened
    bound,      \* the server accepts RPCs
    caught,     \* the signals with a handler
    flag,       \* g_shutdown_requested
    hook,       \* the detached thread: "none", "polling" or "done"
    announced,  \* "evGRpc listening" is in the log
    exit        \* how the process ended: "no", "0", "1" or "killed"

vars == <<phase, argv, help, conf, env, writable, errors, cfg, open, bound,
          caught, flag, hook, announced, exit>>

Signals == {"SIGINT", "SIGTERM"}

Phases == {"args", "load", "discover", "log", "pool", "bind", "signal", "hook",
           "announce", "wait", "exited"}

StartTypeOK ==
    /\ phase \in Phases
    /\ help \in BOOLEAN
    /\ env \in Envs
    /\ writable \in BOOLEAN
    /\ errors.bad \subseteq Sections \cup Keys
    /\ \A k \in IntKeys : cfg.ints[k] \in 1 .. Largest[k]
    /\ open \in 0 .. Size
    /\ bound \in BOOLEAN
    /\ caught \subseteq Signals
    /\ flag \in BOOLEAN
    /\ hook \in {"none", "polling", "done"}
    /\ announced \in BOOLEAN
    /\ exit \in {"no", "0", "1", "killed"}

Init ==
    /\ phase = "args"
    /\ \E s \in Starts : argv = s[1] /\ conf = s[2]
    /\ help = FALSE
    /\ env \in Envs
    /\ writable \in BOOLEAN
    /\ errors = NoErrors
    /\ cfg = NoSchema
    /\ open = 0
    /\ bound = FALSE
    /\ caught = {}
    /\ flag = FALSE
    /\ hook = "none"
    /\ announced = FALSE
    /\ exit = "no"

\* main returns or the process is killed: stack objects, the pool and the
\* server among them, are gone.
End(code) ==
    /\ phase' = "exited"
    /\ exit' = code
    /\ open' = 0
    /\ bound' = FALSE

GoTo(p) ==
    /\ phase' = p
    /\ UNCHANGED <<exit, open, bound>>

-----------------------------------------------------------------------------

\* One turn of ParseArgs' loop.  The word after -c is a path, whatever it is.
ParseArg ==
    /\ phase = "args"
    /\ argv # <<>>
    /\ \/ /\ Head(argv) = "-h"
          /\ help' = TRUE
          /\ argv' = Tail(argv)
          /\ GoTo("args")
       \/ /\ Head(argv) = "-c" /\ Len(argv) > 1
          /\ argv' = SubSeq(argv, 3, Len(argv))
          /\ GoTo("args")
          /\ UNCHANGED help
       \/ /\ Head(argv) = "other" \/ argv = <<"-c">>
          /\ End("1")
          /\ UNCHANGED <<argv, help>>
    /\ UNCHANGED <<conf, env, writable, errors, cfg, caught, flag, hook, announced>>

ArgsParsed ==
    /\ phase = "args"
    /\ argv = <<>>
    /\ IF help THEN End("0") ELSE GoTo("load")
    /\ UNCHANGED <<argv, help, conf, env, writable, errors, cfg, caught, flag,
                   hook, announced>>

\* LoadSchema: all errors or the configuration.
LoadSchema ==
    /\ phase = "load"
    /\ IF conf.form # "object"
         THEN End("1") /\ UNCHANGED <<errors, cfg>>
         ELSE /\ errors' = ErrorsOf(conf, env, writable)
              /\ IF errors' = NoErrors
                   THEN GoTo("discover") /\ cfg' = Schema(conf, env)
                   ELSE End("1") /\ UNCHANGED cfg
    /\ UNCHANGED <<argv, help, conf, env, writable, caught, flag, hook, announced>>

\* DiscoverJwksUri: the provider's document has a jwks_uri, or transport,
\* timeout, status, JSON or the field throw.
Discover ==
    /\ phase = "discover"
    /\ GoTo("log") \/ End("1")
    /\ UNCHANGED <<argv, help, conf, env, writable, errors, cfg, caught, flag,
                   hook, announced>>

\* log::Init looks at the directory again; opening the file may fail too.
LogInit ==
    /\ phase = "log"
    /\ \/ (cfg.file => writable) /\ GoTo("pool")
       \/ cfg.file /\ End("1")
    /\ UNCHANGED <<argv, help, conf, env, writable, errors, cfg, caught, flag,
                   hook, announced>>

\* The pool's constructor opens a connection and pins it to UTC.
Connect ==
    /\ phase = "pool"
    /\ open' = open + 1
    /\ phase' = IF open' = Size THEN "bind" ELSE "pool"
    /\ UNCHANGED <<argv, help, conf, env, writable, errors, cfg, bound, caught,
                   flag, hook, announced, exit>>

\* Mutant of ConnectThrows: the connections opened so far are leaked.
ConnectThrowsLeaks ==
    /\ phase = "pool"
    /\ phase' = "exited"
    /\ exit' = "1"
    /\ UNCHANGED <<argv, help, conf, env, writable, errors, cfg, open, bound,
                   caught, flag, hook, announced>>

\* The constructor throws: the connections in idle_ are closed with it.
ConnectThrows ==
    /\ phase = "pool"
    /\ End("1")
    /\ UNCHANGED <<argv, help, conf, env, writable, errors, cfg, caught, flag,
                   hook, announced>>

\* BuildAndStart: from here on RPCs are served.
Bind ==
    /\ phase = "bind"
    /\ \/ /\ phase' = "signal"
          /\ bound' = TRUE
          /\ UNCHANGED <<open, exit>>
       \/ End("1")
    /\ UNCHANGED <<argv, help, conf, env, writable, errors, cfg, caught, flag,
                   hook, announced>>

\* std::signal, for SIGINT first.
InstallHandler ==
    /\ phase = "signal"
    /\ caught' = IF caught = {} THEN {"SIGINT"} ELSE Signals
    /\ GoTo(IF caught' = Signals THEN "hook" ELSE "signal")
    /\ UNCHANGED <<argv, help, conf, env, writable, errors, cfg, flag, hook,
                   announced>>

\* Mutant of InstallShutdownHook: the flag is cleared before the loop.
InstallShutdownHookClears ==
    /\ phase = "hook"
    /\ hook' = "polling"
    /\ flag' = FALSE
    /\ GoTo("announce")
    /\ UNCHANGED <<argv, help, conf, env, writable, errors, cfg, caught, announced>>

\* The detached thread that polls g_shutdown_requested; std::thread throws
\* when there is no thread to be had.
InstallShutdownHook ==
    /\ phase = "hook"
    /\ \/ hook' = "polling" /\ GoTo("announce")
       \/ End("1") /\ UNCHANGED hook
    /\ UNCHANGED <<argv, help, conf, env, writable, errors, cfg, caught, flag,
                   announced>>

Announce ==
    /\ phase = "announce"
    /\ announced' = TRUE
    /\ GoTo("wait")
    /\ UNCHANGED <<argv, help, conf, env, writable, errors, cfg, caught, flag,
                   hook>>

\* The hook's loop sees the flag and shuts the server down.
HookShutdown ==
    /\ hook = "polling"
    /\ flag
    /\ exit = "no"
    /\ hook' = "done"
    /\ UNCHANGED <<phase, argv, help, conf, env, writable, errors, cfg, open,
                   bound, caught, flag, announced, exit>>

\* Wait() returns once Shutdown was called, before or after it, and every
\* handler is through, which GrpcServer has in detail.  Nothing says when, or
\* that it ever does: handlers may wait for each other's connections.
WaitReturns ==
    /\ phase = "wait"
    /\ hook = "done"
    /\ End("0")
    /\ UNCHANGED <<argv, help, conf, env, writable, errors, cfg, caught, flag,
                   hook, announced>>

\* A signal: HandleSignal sets the flag; without a handler the process dies.
Signal(s) ==
    /\ phase # "exited"
    /\ IF s \in caught
         THEN flag' = TRUE /\ UNCHANGED <<phase, exit, open, bound>>
         ELSE End("killed") /\ UNCHANGED flag
    /\ UNCHANGED <<argv, help, conf, env, writable, errors, cfg, caught, hook,
                   announced>>

\* Somebody changes the directory of the log file before it is opened.
ChangeDirectory ==
    /\ phase \in {"load", "discover", "log"}
    /\ writable' = ~writable
    /\ UNCHANGED <<phase, argv, help, conf, env, errors, cfg, open, bound,
                   caught, flag, hook, announced, exit>>

Exited == phase = "exited" /\ UNCHANGED vars

\* The steps of main that end by themselves: discovery has its timeouts, the
\* others are local.  Opening a connection is not among them: libpq waits for
\* the server as long as the server lets it.  Nor is Wait(): it waits for the
\* handlers.
MainStep ==
    \/ ParseArg
    \/ ArgsParsed
    \/ LoadSchema
    \/ Discover
    \/ LogInit
    \/ Bind
    \/ InstallHandler
    \/ InstallShutdownHook
    \/ Announce

Next ==
    \/ MainStep
    \/ WaitReturns
    \/ Connect
    \/ ConnectThrows
    \/ HookShutdown
    \/ \E s \in Signals : Signal(s)
    \/ ChangeDirectory
    \/ Exited

Spec ==
    /\ Init
    /\ [][Next]_vars
    /\ WF_vars(MainStep)
    /\ WF_vars(HookShutdown)

-----------------------------------------------------------------------------

\* What serves was asked for: once the port is bound, the file had every
\* required section and no unknown key; the database is the one the file
\* names, and the environment's only if the file names none; every number is
\* within its limits, and the one in the file or else the default (a number
\* beyond int comes out as another one, within the limits too).
ServesAsConfigured ==
    bound =>
        /\ conf.form = "object"
        /\ \A s \in Sections \ {"database"} : conf.section[s] = "object"
        /\ conf.unknown = {}
        /\ conf.strings["issuer_url"] = "good"
        /\ conf.strings["audience"] \in {"good", "bad"}
        /\ conf.strings["level"] \in {"absent", "good"}
        /\ cfg.url = IF conf.strings["url"] = "good"
                           /\ conf.section["database"] = "object"
                     THEN <<"file", "good">> ELSE <<"env", env>>
        /\ \/ cfg.url[2] = "good"
           \/ conf.section["database"] = "absent" /\ env = "bad"
        /\ \A k \in IntKeys :
             /\ cfg.ints[k] \in 1 .. Largest[k]
             /\ CASE conf.ints[k] = "absent" -> cfg.ints[k] = Default[k]
                  [] conf.ints[k] = "wraps"  -> TRUE
                  [] OTHER -> cfg.ints[k] = Number(k, conf.ints[k])

\* The operator's corrections: good values for what was reported.
Repaired(c, e) ==
    [c EXCEPT
        !.section = [s \in Sections |->
            IF s \in e.bad \/ \E k \in e.bad \cap Keys : SectionOf(k) = s
            THEN "object" ELSE c.section[s]],
        !.unknown = @ \ e.unknown,
        !.strings = [k \in StringKeys |->
            IF k \in e.bad \/ SectionOf(k) \in e.bad
            THEN IF k = "file" THEN "empty" ELSE "good"
            ELSE c.strings[k]],
        !.ints = [k \in IntKeys |->
            IF k \in e.bad \/ SectionOf(k) \in e.bad
            THEN "absent" ELSE c.ints[k]]]

\* The operator sees every mistake in one pass: whoever corrects what
\* LoadSchema reported, and nothing else, is not refused again, unless the
\* directory of the log file has gone since.
OnePassIsEnough ==
    errors # NoErrors =>
        LET fixed == Repaired(conf, errors)
        IN  \A w \in BOOLEAN :
                \/ ErrorsOf(fixed, env, w) = NoErrors
                \/ /\ ~w
                   /\ fixed.strings["file"] = "good"
                   /\ ErrorsOf(fixed, env, w) = [bad |-> {"file"}, unknown |-> {}]

\* The end of the process tells the truth and leaves nothing behind: code 0
\* only for help and for a shutdown that a signal asked for, never before the
\* server was announced; code 1 only for a server that was never announced;
\* an announced server is never killed by SIGINT or SIGTERM; and no
\* connection stays open, wherever the start failed.
CleanExit ==
    /\ exit # "no" => open = 0 /\ ~bound
    /\ exit = "0" => help \/ (announced /\ flag)
    /\ exit = "1" => ~announced
    /\ exit = "killed" => ~announced

\* Every start comes to an end: the server is announced or the process
\* exits, unless it waits for ever for a connection to PostgreSQL.  And no
\* signal that was caught is lost, however early it comes, before there is a
\* hook to see it or while main has not reached Wait(): the server is told to
\* shut down, or the process has ended.
StartIsDecided ==
    /\ <>(announced \/ exit # "no") \/ <>[](phase = "pool")
    /\ flag ~> (hook = "done" \/ exit # "no")

=============================================================================
