--------------------------- MODULE StartupProofs ----------------------------
(***************************************************************************)
(* The end of the process, for every configuration, argument list, pool    *)
(* size and order of failures and signals.                                 *)
(***************************************************************************)
EXTENDS Startup, TLAPS

\* CleanExit is not inductive: a signal kills only a process without
\* handlers, so it needs that an announced server has both; Wait() returns
\* only after the hook, so it needs that the hook has seen the flag.
ExitInv ==
    /\ exit = "no" <=> phase # "exited"
    /\ exit # "no" => open = 0 /\ bound = FALSE
    /\ phase = "wait" => announced
    /\ announced => phase \in {"wait", "exited"} /\ caught = Signals
    /\ phase \in {"hook", "announce", "wait"} => caught = Signals
    /\ hook = "done" => flag
    /\ exit = "0" => help \/ (announced /\ flag)
    /\ exit \in {"1", "killed"} => ~announced

\* A process that has not begun has not ended.
LEMMA InitExitInv == Init => ExitInv
  BY DEF Init, ExitInv

\* One step per action of main, then the hook's thread and the environment.
LEMMA NextExitInv == ExitInv /\ [Next]_vars => ExitInv'
<1> SUFFICES ASSUME ExitInv, [Next]_vars PROVE ExitInv'
  OBVIOUS
<1> USE DEF ExitInv
<1>1. CASE ParseArg
  BY <1>1 DEF ParseArg, End, GoTo
<1>2. CASE ArgsParsed
  BY <1>2 DEF ArgsParsed, End, GoTo
<1>3. CASE LoadSchema
  BY <1>3 DEF LoadSchema, End, GoTo
<1>4. CASE Discover
  BY <1>4 DEF Discover, End, GoTo
<1>5. CASE LogInit
  BY <1>5 DEF LogInit, End, GoTo
<1>6. CASE Connect
  BY <1>6 DEF Connect
<1>7. CASE ConnectThrows
  BY <1>7 DEF ConnectThrows, End
<1>8. CASE Bind
  BY <1>8 DEF Bind, End
<1>9. CASE InstallHandler
  BY <1>9 DEF InstallHandler, GoTo
<1>10. CASE InstallShutdownHook
  BY <1>10 DEF InstallShutdownHook, End, GoTo
<1>11. CASE Announce
  BY <1>11 DEF Announce, GoTo
<1>12. CASE WaitReturns
  BY <1>12 DEF WaitReturns, End
<1>13. CASE HookShutdown
  BY <1>13 DEF HookShutdown
<1>14. ASSUME NEW s \in Signals, Signal(s) PROVE ExitInv'
  BY <1>14 DEF Signal, End
<1>15. CASE ChangeDirectory
  BY <1>15 DEF ChangeDirectory
<1>16. CASE UNCHANGED vars
  BY <1>16 DEF vars
<1>. QED
  BY <1>1, <1>2, <1>3, <1>4, <1>5, <1>6, <1>7, <1>8, <1>9, <1>10, <1>11,
     <1>12, <1>13, <1>14, <1>15, <1>16
  DEF Next, MainStep, Exited

\* main's exit code is true and no connection stays open, wherever the start
\* fails and whenever a signal comes.
THEOREM CleanExitHolds == Spec => []CleanExit
<1>1. Spec => []ExitInv
  BY InitExitInv, NextExitInv, PTL DEF Spec
<1>2. ExitInv => CleanExit
  BY DEF ExitInv, CleanExit
<1>. QED  BY <1>1, <1>2, PTL

-----------------------------------------------------------------------------
(***************************************************************************)
(* The configuration.                                                      *)
(***************************************************************************)

\* The keys of the sections, one by one.
LEMMA KeyTable ==
    /\ Sections = {"database", "oauth", "grpc", "log"}
    /\ KeysOf("database") = {"url"}
    /\ KeysOf("oauth") = {"issuer_url", "audience", "jwks_cache_ttl_seconds",
                          "discovery_connect_timeout_seconds",
                          "discovery_read_timeout_seconds"}
    /\ KeysOf("grpc") = {"port"}
    /\ KeysOf("log") = {"level", "file", "max_size_mb", "max_files"}
    /\ IntKeys = {"jwks_cache_ttl_seconds", "discovery_connect_timeout_seconds",
                  "discovery_read_timeout_seconds", "port", "max_size_mb",
                  "max_files"}
    /\ \A k \in IntKeys : Largest[k] \in Nat /\ Default[k] \in 1 .. Largest[k]
  BY DEF Sections, KeysOf, IntKeys, Default, Largest

\* The keys that are strings, and the keys altogether.
LEMMA StringKeyTable ==
    /\ StringKeys = {"url", "issuer_url", "audience", "level", "file"}
    /\ Keys = StringKeys \cup IntKeys
    /\ \A s \in Sections : KeysOf(s) \subseteq Keys
<1>1. Keys = KeysOf("database") \cup KeysOf("oauth") \cup KeysOf("grpc")
               \cup KeysOf("log")
  BY KeyTable DEF Keys
<1> QED
  BY <1>1, KeyTable DEF StringKeys

\* Every key belongs to one section.
LEMMA SectionTable ==
    /\ SectionOf("url") = "database"
    /\ \A k \in KeysOf("oauth") : SectionOf(k) = "oauth"
    /\ \A k \in KeysOf("grpc") : SectionOf(k) = "grpc"
    /\ \A k \in KeysOf("log") : SectionOf(k) = "log"
<1>1. ASSUME NEW s \in Sections, NEW k \in KeysOf(s)
      PROVE  SectionOf(k) = s
  <2>1. \A z \in Sections : k \in KeysOf(z) => z = s
    BY <1>1, KeyTable
  <2> QED
    BY <1>1, <2>1 DEF SectionOf
<1> QED
  BY <1>1, KeyTable

\* get<int>() keeps a number that fits an int.
LEMMA NarrowFits ==
    ASSUME NEW n \in Nat, n < IntModulus \div 2
    PROVE  Narrow(n) = n
<1>1. PICK h \in Nat : h = IntModulus \div 2 /\ IntModulus = 2 * h
  BY StartupAssumption
<1>2. ASSUME NEW a \in Nat, a < IntModulus PROVE a % IntModulus = a
  BY <1>2, StartupAssumption
<1>3. n + h < IntModulus /\ n + h \in Nat
  BY <1>1
<1>4. (n + h) % IntModulus = n + h
  BY <1>2, <1>3
<1> QED
  BY <1>1, <1>4 DEF Narrow

\* A number in the file that wraps comes out as another one; any other comes
\* out as it is.
LEMMA NumberKept ==
    ASSUME NEW k \in IntKeys, NEW kind \in {"zero", "one", "largest", "above"}
    PROVE  Narrow(Number(k, kind)) = Number(k, kind)
<1>1. Number(k, kind) \in Nat /\ Number(k, kind) <= Largest[k] + 1
  BY KeyTable DEF Number
<1>2. Number(k, kind) < IntModulus \div 2
  BY <1>1, KeyTable, IntWidthAssumption, StartupAssumption
<1> QED
  BY <1>1, <1>2, NarrowFits

\* What is not reported: each section of a file without errors.
LEMMA SectionsChecked ==
    ASSUME NEW c, IsFile(c), NEW e \in Envs, NEW w \in BOOLEAN,
           ErrorsOf(c, e, w).bad = {}
    PROVE  /\ \A s \in Sections \ {"database"} : c.section[s] = "object"
           /\ c.section["database"] # "wrong type"
           /\ UrlErrors(c, e) = {}
           /\ OauthErrors(c) = {}
           /\ IntErrors(c, "grpc") = {}
           /\ LogErrors(c, w) = {}
<1>1. \A s \in Sections : SectionErrors(c, s, e, w) = {}
  BY DEF ErrorsOf
<1>2. \A s \in Sections : c.section[s] \in {"absent", "wrong type", "object"}
  BY DEF IsFile
<1>3. \A s \in Sections : c.section[s] # "wrong type"
  BY <1>1 DEF SectionErrors
<1>4. \A s \in Sections \ {"database"} : c.section[s] = "object"
  BY <1>1, <1>2, <1>3 DEF SectionErrors
<1>5. UrlErrors(c, e) = {}
  BY <1>1, <1>2, <1>3, KeyTable DEF SectionErrors, KeyErrors
<1>6. OauthErrors(c) = {} /\ IntErrors(c, "grpc") = {} /\ LogErrors(c, w) = {}
  BY <1>1, <1>4, KeyTable DEF SectionErrors, KeyErrors
<1> QED
  BY <1>3, <1>4, <1>5, <1>6, KeyTable

\* The numbers of a file without errors are within their limits once they are
\* ints.
LEMMA IntsChecked ==
    ASSUME NEW c, IsFile(c), NEW e \in Envs, NEW w \in BOOLEAN,
           ErrorsOf(c, e, w).bad = {}, NEW k \in IntKeys
    PROVE  /\ c.ints[k] # "wrong type"
           /\ c.ints[k] # "absent" =>
                Narrow(Number(k, c.ints[k])) \in 1 .. Largest[k]
<1>1. /\ IntErrors(c, "oauth") = {}
      /\ IntErrors(c, "grpc") = {}
      /\ IntErrors(c, "log") = {}
  BY SectionsChecked DEF OauthErrors, LogErrors
<1>2. \E s \in {"oauth", "grpc", "log"} : k \in KeysOf(s)
  BY KeyTable
<1> QED
  BY <1>1, <1>2 DEF IntErrors

\* LoadSchema accepted the file, with the environment and the log directory
\* of that moment, and returned cfg.
Loaded ==
    /\ conf.form = "object"
    /\ \E w \in BOOLEAN : ErrorsOf(conf, env, w) = NoErrors
    /\ cfg = Schema(conf, env)

\* The phases of main after LoadSchema and before the exit.
Started == {"discover", "log", "pool", "bind", "signal", "hook", "announce",
            "wait"}

\* Nothing past LoadSchema happens without a configuration that LoadSchema
\* made; RPCs are served in the last phases only; and the errors on record
\* are all errors of the file.
ConfInv ==
    /\ IsFile(conf)
    /\ env \in Envs
    /\ writable \in BOOLEAN
    /\ cfg = NoSchema \/ Loaded
    /\ phase \in Started => Loaded
    /\ bound \in BOOLEAN
    /\ bound = TRUE => phase \in {"signal", "hook", "announce", "wait"}
    /\ \/ errors = NoErrors
       \/ \E w \in BOOLEAN : errors = ErrorsOf(conf, env, w)

\* The start reads one of the given files.
LEMMA InitConfInv == Init => ConfInv
  BY StartsAssumption DEF Init, ConfInv, Started

\* Only LoadSchema makes a configuration, and nobody changes the file or the
\* environment variable afterwards.
LEMMA NextConfInv == ConfInv /\ [Next]_vars => ConfInv'
<1> SUFFICES ASSUME ConfInv, [Next]_vars PROVE ConfInv'
  OBVIOUS
<1> USE DEF ConfInv, Loaded, Started
<1>1. CASE ParseArg
  BY <1>1 DEF ParseArg, End, GoTo
<1>2. CASE ArgsParsed
  BY <1>2 DEF ArgsParsed, End, GoTo
<1>3. CASE LoadSchema
  <2>1. CASE conf.form # "object"
    BY <1>3, <2>1 DEF LoadSchema, End
  <2>2. CASE conf.form = "object" /\ errors' = NoErrors
    BY <1>3, <2>2 DEF LoadSchema, GoTo
  <2>3. CASE conf.form = "object" /\ errors' # NoErrors
    BY <1>3, <2>3 DEF LoadSchema, End
  <2>. QED  BY <2>1, <2>2, <2>3
<1>4. CASE Discover
  BY <1>4 DEF Discover, End, GoTo
<1>5. CASE LogInit
  BY <1>5 DEF LogInit, End, GoTo
<1>6. CASE Connect
  BY <1>6 DEF Connect
<1>7. CASE ConnectThrows
  BY <1>7 DEF ConnectThrows, End
<1>8. CASE Bind
  BY <1>8 DEF Bind, End
<1>9. CASE InstallHandler
  BY <1>9 DEF InstallHandler, GoTo
<1>10. CASE InstallShutdownHook
  BY <1>10 DEF InstallShutdownHook, End, GoTo
<1>11. CASE Announce
  BY <1>11 DEF Announce, GoTo
<1>12. CASE WaitReturns
  BY <1>12 DEF WaitReturns, End
<1>13. CASE HookShutdown
  BY <1>13 DEF HookShutdown
<1>14. ASSUME NEW s \in Signals, Signal(s) PROVE ConfInv'
  BY <1>14 DEF Signal, End
<1>15. CASE ChangeDirectory
  BY <1>15 DEF ChangeDirectory
<1>16. CASE UNCHANGED vars
  BY <1>16 DEF vars
<1>. QED
  BY <1>1, <1>2, <1>3, <1>4, <1>5, <1>6, <1>7, <1>8, <1>9, <1>10, <1>11,
     <1>12, <1>13, <1>14, <1>15, <1>16
  DEF Next, MainStep, Exited

\* The numbers LoadSchema returns: within their limits, and the file's or the
\* default unless the file's number wraps.
LEMMA LoadedInts ==
    ASSUME ConfInv, Loaded, NEW k \in IntKeys
    PROVE  /\ cfg.ints[k] \in 1 .. Largest[k]
           /\ conf.ints[k] = "absent" => cfg.ints[k] = Default[k]
           /\ conf.ints[k] \notin {"absent", "wraps"} =>
                cfg.ints[k] = Number(k, conf.ints[k])
<1>1. PICK w \in BOOLEAN : ErrorsOf(conf, env, w).bad = {}
  BY DEF Loaded, NoErrors
<1>2. /\ conf.ints[k] # "wrong type"
      /\ conf.ints[k] # "absent" =>
           Narrow(Number(k, conf.ints[k])) \in 1 .. Largest[k]
  BY <1>1, IntsChecked DEF ConfInv
<1>3. cfg.ints[k] = IF conf.ints[k] = "absent" THEN Default[k]
                    ELSE Narrow(Number(k, conf.ints[k]))
  BY DEF Loaded, Schema
<1>4. conf.ints[k] \in IntKinds
  BY DEF ConfInv, IsFile
<1>5. conf.ints[k] \notin {"absent", "wraps"} =>
         Narrow(Number(k, conf.ints[k])) = Number(k, conf.ints[k])
  BY <1>2, <1>4, NumberKept DEF IntKinds
<1>. QED  BY <1>2, <1>3, <1>5, KeyTable

\* The database and the strings of a configuration that LoadSchema accepted.
LEMMA LoadedStrings ==
    ASSUME ConfInv, Loaded
    PROVE  /\ \A s \in Sections \ {"database"} : conf.section[s] = "object"
           /\ conf.unknown = {}
           /\ conf.strings["issuer_url"] = "good"
           /\ conf.strings["audience"] \in {"good", "bad"}
           /\ conf.strings["level"] \in {"absent", "good"}
           /\ cfg.url = IF conf.strings["url"] = "good"
                              /\ conf.section["database"] = "object"
                        THEN <<"file", "good">> ELSE <<"env", env>>
           /\ \/ cfg.url[2] = "good"
              \/ conf.section["database"] = "absent" /\ env = "bad"
<1>1. PICK w \in BOOLEAN : ErrorsOf(conf, env, w) = NoErrors
  BY DEF Loaded
<1>2. ErrorsOf(conf, env, w).bad = {} /\ conf.unknown = {}
  BY <1>1 DEF NoErrors, ErrorsOf
<1>3. /\ \A s \in Sections \ {"database"} : conf.section[s] = "object"
      /\ conf.section["database"] # "wrong type"
      /\ UrlErrors(conf, env) = {} /\ OauthErrors(conf) = {}
      /\ LogErrors(conf, w) = {}
  BY <1>2, SectionsChecked DEF ConfInv
<1>4. /\ conf.strings["issuer_url"] = "good"
      /\ conf.strings["audience"] \in {"good", "bad"}
  BY <1>3 DEF OauthErrors
<1>5. conf.strings["level"] \in {"absent", "good"}
  BY <1>3 DEF LogErrors
<1>6. /\ conf.section["database"] \in {"absent", "object"}
      /\ env \in {"unset", "bad", "good"}
  BY <1>3, KeyTable DEF ConfInv, IsFile, Envs
<1>7. /\ ~(conf.section["database"] = "absent" /\ env = "unset")
      /\ conf.section["database"] = "object" =>
           /\ conf.strings["url"] \notin {"wrong type", "bad"}
           /\ HasUrl(conf) \/ env = "good"
  BY <1>3 DEF UrlErrors
<1>8. cfg.url = DatabaseUrl(conf, env)
  BY DEF Loaded, Schema
<1>9. CASE HasUrl(conf)
  <2>1. conf.section["database"] = "object" /\ conf.strings["url"] = "good"
    BY <1>7, <1>9 DEF HasUrl
  <2>2. cfg.url = <<"file", "good">>
    BY <1>8, <1>9, <2>1 DEF DatabaseUrl
  <2>. QED  BY <1>2, <1>3, <1>4, <1>5, <2>1, <2>2
<1>10. CASE ~HasUrl(conf)
  <2>1. cfg.url = <<"env", env>>
    BY <1>8, <1>10 DEF DatabaseUrl
  <2>2. ~(conf.strings["url"] = "good" /\ conf.section["database"] = "object")
    BY <1>10 DEF HasUrl
  <2>3. env = "good" \/ (conf.section["database"] = "absent" /\ env = "bad")
    BY <1>6, <1>7, <1>10
  <2>4. cfg.url[2] = env
    BY <2>1
  <2>. QED  BY <1>2, <1>3, <1>4, <1>5, <2>1, <2>2, <2>3, <2>4
<1>. QED  BY <1>9, <1>10

\* A server that serves does so with the database, the issuer, the audience
\* and the numbers its file and environment name, for every file.
THEOREM ServesAsConfiguredHolds == Spec => []ServesAsConfigured
<1>1. Spec => []ConfInv
  BY InitConfInv, NextConfInv, PTL DEF Spec
<1>2. ConfInv => ServesAsConfigured
  <2> SUFFICES ASSUME ConfInv, bound = TRUE PROVE ServesAsConfigured
    BY DEF ConfInv, ServesAsConfigured
  <2>1. Loaded
    BY DEF ConfInv, Started
  <2>2. ASSUME NEW k \in IntKeys
        PROVE  /\ cfg.ints[k] \in 1 .. Largest[k]
               /\ CASE conf.ints[k] = "absent" -> cfg.ints[k] = Default[k]
                    [] conf.ints[k] = "wraps"  -> TRUE
                    [] OTHER -> cfg.ints[k] = Number(k, conf.ints[k])
    BY <2>1, LoadedInts
  <2>. QED
    BY <2>1, <2>2, LoadedStrings DEF ServesAsConfigured, Loaded
<1>. QED  BY <1>1, <1>2, PTL

\* LoadSchema reports sections and keys.
LEMMA ErrorNames ==
    ASSUME NEW c, NEW e, NEW w
    PROVE  ErrorsOf(c, e, w).bad \subseteq Sections \cup Keys
<1>1. \A s \in Sections : IntErrors(c, s) \subseteq Keys
  BY StringKeyTable DEF IntErrors
<1>2. UrlErrors(c, e) \subseteq Keys
  BY StringKeyTable DEF UrlErrors
<1>3. OauthErrors(c) \subseteq Keys /\ LogErrors(c, w) \subseteq Keys
  BY <1>1, StringKeyTable, KeyTable DEF OauthErrors, LogErrors
<1>4. ASSUME NEW s \in Sections
      PROVE  SectionErrors(c, s, e, w) \subseteq Sections \cup Keys
  <2>1. KeyErrors(c, s, e, w) \subseteq Keys
    <3>1. CASE s = "database"
      BY <1>2, <3>1 DEF KeyErrors
    <3>2. CASE s = "oauth"
      BY <1>3, <3>2 DEF KeyErrors
    <3>3. CASE s = "grpc"
      BY <1>1, <3>3 DEF KeyErrors
    <3>4. CASE s = "log"
      BY <1>3, <3>4 DEF KeyErrors
    <3>. QED  BY <3>1, <3>2, <3>3, <3>4, KeyTable
  <2>. QED  BY <1>2, <2>1 DEF SectionErrors
<1>. QED  BY <1>4 DEF ErrorsOf

\* How many connections are open while the pool is being filled.
OpenInv ==
    /\ phase \in Phases
    /\ open \in 0 .. Size
    /\ phase \in {"args", "load", "discover", "log"} => open = 0
    /\ phase = "pool" => open < Size

\* The types of what main keeps beside the configuration and the pool.
FlagsInv ==
    /\ help \in BOOLEAN
    /\ caught \subseteq Signals
    /\ flag \in BOOLEAN
    /\ hook \in {"none", "polling", "done"}
    /\ announced \in BOOLEAN
    /\ exit \in {"no", "0", "1", "killed"}

MainInv == OpenInv /\ FlagsInv

\* main before its first statement.
LEMMA InitMainInv == Init => MainInv
<1> SUFFICES ASSUME Init PROVE MainInv
  OBVIOUS
<1>1. Size \in Nat \ {0}
  BY StartupAssumption
<1>2. OpenInv
  BY <1>1 DEF Init, OpenInv, Phases
<1>3. FlagsInv
  BY DEF Init, FlagsInv, Signals
<1>. QED  BY <1>2, <1>3 DEF MainInv

\* The pool is filled one connection at a time and is full before the port is
\* bound.
LEMMA NextOpenInv == OpenInv /\ [Next]_vars => OpenInv'
<1> SUFFICES ASSUME OpenInv, [Next]_vars PROVE OpenInv'
  OBVIOUS
<1>0. Size \in Nat \ {0}
  BY StartupAssumption
<1> USE DEF OpenInv, Phases
<1>1. ASSUME NEW p \in Phases, GoTo(p), p # "exited",
             p = "pool" => open < Size,
             p \in {"args", "load", "discover", "log"} => open = 0
      PROVE  OpenInv'
  BY <1>1 DEF GoTo
<1>2. ASSUME NEW code, End(code) PROVE OpenInv'
  BY <1>0, <1>2 DEF End
<1>3. CASE ParseArg \/ ArgsParsed
  BY <1>1, <1>2, <1>3 DEF ParseArg, ArgsParsed
<1>4. CASE LoadSchema \/ Discover
  BY <1>1, <1>2, <1>4 DEF LoadSchema, Discover
<1>5. CASE LogInit
  <2>1. open < Size
    BY <1>0, <1>5 DEF LogInit
  <2>. QED  BY <1>1, <1>2, <1>5, <2>1 DEF LogInit
<1>6. CASE Connect
  BY <1>0, <1>6 DEF Connect
<1>7. CASE ConnectThrows \/ WaitReturns
  BY <1>2, <1>7 DEF ConnectThrows, WaitReturns
<1>8. CASE Bind
  <2>1. CASE phase' = "signal" /\ UNCHANGED open
    BY <2>1
  <2>. QED  BY <1>2, <1>8, <2>1 DEF Bind
<1>9. CASE InstallHandler
  BY <1>1, <1>9 DEF InstallHandler
<1>10. CASE InstallShutdownHook \/ Announce
  BY <1>1, <1>2, <1>10 DEF InstallShutdownHook, Announce
<1>11. CASE UNCHANGED <<phase, open>>
  BY <1>11
<1>12. ASSUME NEW s \in Signals, Signal(s) PROVE OpenInv'
  BY <1>2, <1>11, <1>12 DEF Signal
<1>13. CASE HookShutdown \/ ChangeDirectory \/ UNCHANGED vars
  BY <1>11, <1>13 DEF HookShutdown, ChangeDirectory, vars
<1>. QED
  BY <1>3, <1>4, <1>5, <1>6, <1>7, <1>8, <1>9, <1>10, <1>12, <1>13
  DEF Next, MainStep, Exited

\* Every step of main, of the hook and of the environment keeps the types.
LEMMA NextFlagsInv == FlagsInv /\ [Next]_vars => FlagsInv'
<1> SUFFICES ASSUME FlagsInv, [Next]_vars PROVE FlagsInv'
  OBVIOUS
<1> USE DEF FlagsInv, Signals
<1>1. CASE ParseArg
  BY <1>1 DEF ParseArg, End, GoTo
<1>2. CASE ArgsParsed
  BY <1>2 DEF ArgsParsed, End, GoTo
<1>3. CASE LoadSchema
  BY <1>3 DEF LoadSchema, End, GoTo
<1>4. CASE Discover
  BY <1>4 DEF Discover, End, GoTo
<1>5. CASE LogInit
  BY <1>5 DEF LogInit, End, GoTo
<1>6. CASE Connect
  BY <1>6 DEF Connect
<1>7. CASE ConnectThrows
  BY <1>7 DEF ConnectThrows, End
<1>8. CASE Bind
  BY <1>8 DEF Bind, End
<1>9. CASE InstallHandler
  BY <1>9 DEF InstallHandler, GoTo
<1>10. CASE InstallShutdownHook
  BY <1>10 DEF InstallShutdownHook, End, GoTo
<1>11. CASE Announce
  BY <1>11 DEF Announce, GoTo
<1>12. CASE WaitReturns
  BY <1>12 DEF WaitReturns, End
<1>13. CASE HookShutdown
  BY <1>13 DEF HookShutdown
<1>14. ASSUME NEW s \in Signals, Signal(s) PROVE FlagsInv'
  BY <1>14 DEF Signal, End
<1>15. CASE ChangeDirectory
  BY <1>15 DEF ChangeDirectory
<1>16. CASE UNCHANGED vars
  BY <1>16 DEF vars
<1>. QED
  BY <1>1, <1>2, <1>3, <1>4, <1>5, <1>6, <1>7, <1>8, <1>9, <1>10, <1>11,
     <1>12, <1>13, <1>14, <1>15, <1>16
  DEF Next, MainStep, Exited

\* Both parts.
LEMMA NextMainInv == MainInv /\ [Next]_vars => MainInv'
  BY NextOpenInv, NextFlagsInv DEF MainInv

\* Types of the start, for every file and argument list: among them that no
\* number outside its limits is ever in force.
THEOREM StartTypeCorrect == Spec => []StartTypeOK
<1>1. Spec => []ConfInv
  BY InitConfInv, NextConfInv, PTL DEF Spec
<1>2. Spec => []MainInv
  BY InitMainInv, NextMainInv, PTL DEF Spec
<1>3. ConfInv /\ MainInv => StartTypeOK
  <2> SUFFICES ASSUME ConfInv, MainInv PROVE StartTypeOK
    OBVIOUS
  <2>1. \A k \in IntKeys : cfg.ints[k] \in 1 .. Largest[k]
    <3>1. CASE cfg = NoSchema
      BY <3>1, KeyTable DEF NoSchema
    <3>2. CASE Loaded
      BY <3>2, LoadedInts
    <3>. QED  BY <3>1, <3>2 DEF ConfInv
  <2>2. errors.bad \subseteq Sections \cup Keys
    BY ErrorNames DEF ConfInv, NoErrors
  <2>. QED  BY <2>1, <2>2 DEF StartTypeOK, ConfInv, MainInv, OpenInv, FlagsInv
<1>. QED  BY <1>1, <1>2, <1>3, PTL

-----------------------------------------------------------------------------

\* A file after the operator corrected what was reported: every section but
\* perhaps database is there, and nothing in it is unknown.
LEMMA RepairedFacts ==
    ASSUME NEW c, IsFile(c), NEW e
    PROVE  LET f == Repaired(c, e)
           IN  /\ f.form = c.form
               /\ f.unknown = c.unknown \ e.unknown
               /\ \A s \in Sections : f.section[s] =
                    IF s \in e.bad \/ \E k \in e.bad \cap Keys : SectionOf(k) = s
                    THEN "object" ELSE c.section[s]
               /\ \A k \in StringKeys : f.strings[k] =
                    IF k \in e.bad \/ SectionOf(k) \in e.bad
                    THEN IF k = "file" THEN "empty" ELSE "good"
                    ELSE c.strings[k]
               /\ \A k \in IntKeys : f.ints[k] =
                    IF k \in e.bad \/ SectionOf(k) \in e.bad
                    THEN "absent" ELSE c.ints[k]
  BY DEF IsFile, Repaired

\* A key of a section that is an object is reported exactly when it is bad,
\* and a section exactly when it is missing or no object.
LEMMA Reported ==
    ASSUME NEW c, IsFile(c), NEW e \in Envs, NEW w \in BOOLEAN
    PROVE  LET bad == ErrorsOf(c, e, w).bad
           IN  /\ \A s \in Sections \ {"database"} :
                    c.section[s] # "object" => s \in bad
               /\ c.section["database"] = "wrong type" => "database" \in bad
               /\ c.section["database"] # "wrong type" =>
                    UrlErrors(c, e) \subseteq bad
               /\ c.section["oauth"] = "object" => OauthErrors(c) \subseteq bad
               /\ c.section["grpc"] = "object" =>
                    IntErrors(c, "grpc") \subseteq bad
               /\ c.section["log"] = "object" => LogErrors(c, w) \subseteq bad
<1> DEFINE bad == ErrorsOf(c, e, w).bad
<1>1. \A s \in Sections : SectionErrors(c, s, e, w) \subseteq bad
  BY DEF ErrorsOf
<1>2. \A s \in Sections : c.section[s] \in {"absent", "wrong type", "object"}
  BY DEF IsFile
<1> HIDE DEF bad
<1>3. /\ \A s \in Sections \ {"database"} :
           c.section[s] # "object" => s \in bad
      /\ c.section["database"] = "wrong type" => "database" \in bad
  BY <1>1, <1>2, KeyTable DEF SectionErrors
<1>4. c.section["database"] # "wrong type" => UrlErrors(c, e) \subseteq bad
  BY <1>1, <1>2, KeyTable DEF SectionErrors, KeyErrors
<1>5. /\ c.section["oauth"] = "object" => OauthErrors(c) \subseteq bad
      /\ c.section["grpc"] = "object" => IntErrors(c, "grpc") \subseteq bad
      /\ c.section["log"] = "object" => LogErrors(c, w) \subseteq bad
  BY <1>1, KeyTable DEF SectionErrors, KeyErrors
<1>. QED  BY <1>3, <1>4, <1>5 DEF bad

\* What the correction leaves to report: nothing but, where the directory of
\* the log file is not writable, the log file.
LEMMA RepairedIsAccepted ==
    ASSUME NEW c, IsFile(c), NEW e \in Envs, NEW w0 \in BOOLEAN,
           NEW w \in BOOLEAN
    PROVE  LET f == Repaired(c, ErrorsOf(c, e, w0))
           IN  /\ ErrorsOf(f, e, w).unknown = {}
               /\ \/ ErrorsOf(f, e, w).bad = {}
                  \/ /\ ~w
                     /\ f.strings["file"] = "good"
                     /\ ErrorsOf(f, e, w).bad = {"file"}
<1> DEFINE bad == ErrorsOf(c, e, w0).bad
           f == Repaired(c, ErrorsOf(c, e, w0))
<1>1. /\ f.unknown = {}
      /\ \A s \in Sections : f.section[s] =
           IF s \in bad \/ \E k \in bad \cap Keys : SectionOf(k) = s
           THEN "object" ELSE c.section[s]
      /\ \A k \in StringKeys : f.strings[k] =
           IF k \in bad \/ SectionOf(k) \in bad
           THEN IF k = "file" THEN "empty" ELSE "good"
           ELSE c.strings[k]
      /\ \A k \in IntKeys : f.ints[k] =
           IF k \in bad \/ SectionOf(k) \in bad
           THEN "absent" ELSE c.ints[k]
  <2>1. ErrorsOf(c, e, w0).unknown = c.unknown
    BY DEF ErrorsOf
  <2>. QED  BY <2>1, RepairedFacts
<1>2. /\ \A s \in Sections \ {"database"} : c.section[s] # "object" => s \in bad
      /\ c.section["database"] = "wrong type" => "database" \in bad
      /\ c.section["database"] # "wrong type" => UrlErrors(c, e) \subseteq bad
      /\ c.section["oauth"] = "object" => OauthErrors(c) \subseteq bad
      /\ c.section["grpc"] = "object" => IntErrors(c, "grpc") \subseteq bad
      /\ c.section["log"] = "object" => LogErrors(c, w0) \subseteq bad
  BY Reported
<1>3. ErrorsOf(f, e, w).unknown = {}
  BY <1>1 DEF ErrorsOf
<1> HIDE DEF bad, f
<1>4. \A s \in Sections \ {"database"} : f.section[s] = "object"
  BY <1>1, <1>2
<1>5. f.section["database"] \in {"absent", "object"} /\ UrlErrors(f, e) = {}
  <2>1. /\ "url" \in StringKeys /\ "url" \in Keys /\ "url" # "file"
        /\ SectionOf("url") = "database" /\ "database" \in Sections
    BY KeyTable, StringKeyTable, SectionTable
  <2>2. CASE "database" \in bad \/ "url" \in bad
    <3>1. f.section["database"] = "object" /\ f.strings["url"] = "good"
      BY <1>1, <2>1, <2>2
    <3>. QED  BY <3>1 DEF UrlErrors, HasUrl
  <2>3. CASE "database" \notin bad /\ "url" \notin bad
    <3>1. \A k \in Keys : SectionOf(k) = "database" => k = "url"
      BY KeyTable, StringKeyTable, SectionTable
    <3>2. /\ f.section["database"] = c.section["database"]
          /\ f.strings["url"] = c.strings["url"]
      BY <1>1, <2>1, <2>3, <3>1
    <3>3. c.section["database"] \in {"absent", "object"} /\ UrlErrors(c, e) = {}
      BY <1>2, <2>1, <2>3 DEF UrlErrors, IsFile
    <3>. QED  BY <3>2, <3>3 DEF UrlErrors, HasUrl
  <2>. QED  BY <2>2, <2>3
<1>6. ASSUME NEW s \in {"oauth", "grpc", "log"} PROVE IntErrors(f, s) = {}
  <2> SUFFICES ASSUME NEW k \in KeysOf(s) \cap IntKeys
               PROVE  k \notin IntErrors(f, s)
    BY DEF IntErrors
  <2>1. SectionOf(k) = s
    BY SectionTable
  <2>2. CASE k \in bad \/ s \in bad
    <3>1. f.ints[k] = "absent"
      BY <1>1, <2>1, <2>2
    <3>. QED  BY <3>1 DEF IntErrors
  <2>3. CASE k \notin bad /\ s \notin bad
    <3>1. f.ints[k] = c.ints[k]
      BY <1>1, <2>1, <2>3
    <3>2. IntErrors(c, s) \subseteq bad
      BY <1>2, <2>3, KeyTable DEF OauthErrors, LogErrors
    <3>. QED  BY <2>3, <3>1, <3>2 DEF IntErrors
  <2>. QED  BY <2>2, <2>3
<1>7. OauthErrors(f) = {}
  <2>1. /\ {"issuer_url", "audience"} \subseteq StringKeys
        /\ SectionOf("issuer_url") = "oauth" /\ SectionOf("audience") = "oauth"
        /\ "oauth" \in Sections \ {"database"}
    BY KeyTable, StringKeyTable, SectionTable
  <2>2. f.strings["issuer_url"] = "good"
    <3>1. CASE "issuer_url" \in bad \/ "oauth" \in bad
      BY <1>1, <2>1, <3>1
    <3>2. CASE "issuer_url" \notin bad /\ "oauth" \notin bad
      <4>1. f.strings["issuer_url"] = c.strings["issuer_url"]
        BY <1>1, <2>1, <3>2
      <4>2. "issuer_url" \notin OauthErrors(c)
        BY <1>2, <3>2, <2>1
      <4>. QED  BY <4>1, <4>2 DEF OauthErrors
    <3>. QED  BY <3>1, <3>2
  <2>3. f.strings["audience"] \in {"bad", "good"}
    <3>1. CASE "audience" \in bad \/ "oauth" \in bad
      BY <1>1, <2>1, <3>1
    <3>2. CASE "audience" \notin bad /\ "oauth" \notin bad
      <4>1. f.strings["audience"] = c.strings["audience"]
        BY <1>1, <2>1, <3>2
      <4>2. "audience" \notin OauthErrors(c)
        BY <1>2, <3>2, <2>1
      <4>. QED  BY <4>1, <4>2 DEF OauthErrors
    <3>. QED  BY <3>1, <3>2
  <2>. QED  BY <1>6, <2>2, <2>3 DEF OauthErrors
<1>8. \/ LogErrors(f, w) = {}
      \/ ~w /\ f.strings["file"] = "good" /\ LogErrors(f, w) = {"file"}
  <2>1. /\ {"level", "file"} \subseteq StringKeys
        /\ SectionOf("level") = "log" /\ SectionOf("file") = "log"
        /\ "log" \in Sections \ {"database"}
    BY KeyTable, StringKeyTable, SectionTable
  <2>2. f.strings["level"] \in {"absent", "good"}
    <3>1. CASE "level" \in bad \/ "log" \in bad
      BY <1>1, <2>1, <3>1
    <3>2. CASE "level" \notin bad /\ "log" \notin bad
      <4>1. f.strings["level"] = c.strings["level"]
        BY <1>1, <2>1, <3>2
      <4>2. "level" \notin LogErrors(c, w0)
        BY <1>2, <3>2, <2>1
      <4>. QED  BY <4>1, <4>2 DEF LogErrors
    <3>. QED  BY <3>1, <3>2
  <2>3. f.strings["file"] \in {"absent", "empty", "good"}
    <3>1. CASE "file" \in bad \/ "log" \in bad
      BY <1>1, <2>1, <3>1
    <3>2. CASE "file" \notin bad /\ "log" \notin bad
      <4>1. f.strings["file"] = c.strings["file"]
        BY <1>1, <2>1, <3>2
      <4>2. "file" \notin LogErrors(c, w0)
        BY <1>2, <3>2, <2>1
      <4>. QED  BY <4>1, <4>2 DEF LogErrors
    <3>. QED  BY <3>1, <3>2
  <2>4. IntErrors(f, "log") = {}
    BY <1>6
  <2>5. CASE f.strings["file"] \in {"absent", "empty"} \/ w = TRUE
    BY <2>2, <2>3, <2>4, <2>5 DEF LogErrors
  <2>6. CASE f.strings["file"] = "good" /\ w = FALSE
    BY <2>2, <2>4, <2>6 DEF LogErrors
  <2>. QED  BY <2>3, <2>5, <2>6
<1>9. ErrorsOf(f, e, w).bad = LogErrors(f, w)
  <2>1. SectionErrors(f, "database", e, w) = {}
    BY <1>5 DEF SectionErrors, KeyErrors
  <2>2. /\ SectionErrors(f, "oauth", e, w) = {}
        /\ SectionErrors(f, "grpc", e, w) = {}
        /\ SectionErrors(f, "log", e, w) = LogErrors(f, w)
    BY <1>4, <1>6, <1>7, KeyTable DEF SectionErrors, KeyErrors
  <2>. QED  BY <2>1, <2>2, KeyTable DEF ErrorsOf
<1>. QED  BY <1>3, <1>8, <1>9 DEF f

\* One pass over the errors LoadSchema reports is enough, for every file.
THEOREM OnePassIsEnoughHolds == Spec => []OnePassIsEnough
<1>1. Spec => []ConfInv
  BY InitConfInv, NextConfInv, PTL DEF Spec
<1>2. ConfInv => OnePassIsEnough
  <2> SUFFICES ASSUME ConfInv, errors # NoErrors, NEW w \in BOOLEAN
               PROVE  LET f == Repaired(conf, errors)
                      IN  \/ ErrorsOf(f, env, w) = NoErrors
                          \/ /\ ~w
                             /\ f.strings["file"] = "good"
                             /\ ErrorsOf(f, env, w) =
                                  [bad |-> {"file"}, unknown |-> {}]
    BY DEF OnePassIsEnough
  <2> DEFINE f == Repaired(conf, errors)
  <2>1. PICK w0 \in BOOLEAN : errors = ErrorsOf(conf, env, w0)
    BY DEF ConfInv
  <2>2. /\ ErrorsOf(f, env, w).unknown = {}
        /\ \/ ErrorsOf(f, env, w).bad = {}
           \/ /\ ~w
              /\ f.strings["file"] = "good"
              /\ ErrorsOf(f, env, w).bad = {"file"}
    BY <2>1, RepairedIsAccepted DEF ConfInv
  <2>3. ErrorsOf(f, env, w) = [bad |-> ErrorsOf(f, env, w).bad,
                               unknown |-> ErrorsOf(f, env, w).unknown]
    BY DEF ErrorsOf
  <2>. QED  BY <2>2, <2>3 DEF NoErrors
<1>. QED  BY <1>1, <1>2, PTL

=============================================================================
