----------------------------- MODULE MCStartup ------------------------------
(* Startup for TLC: a good file with any two of its parts replaced.         *)
EXTENDS Startup

Good ==
    [form |-> "object",
     section |-> [s \in Sections |-> "object"],
     unknown |-> {},
     strings |-> [k \in StringKeys |-> "good"],
     ints |-> [k \in IntKeys |-> "absent"]]

\* The files that differ from c in one part.
Altered(c) ==
    { [c EXCEPT !.section[s] = x] :
        s \in Sections, x \in {"absent", "wrong type"} }
    \cup { [c EXCEPT !.unknown = @ \cup {s}] : s \in Sections }
    \cup { [c EXCEPT !.strings[k] = x] : k \in StringKeys, x \in StringKinds }
    \cup { [c EXCEPT !.ints[k] = x] :
             k \in {"port", "jwks_cache_ttl_seconds"}, x \in IntKinds }
    \cup { [c EXCEPT !.ints[k] = x] : k \in IntKeys, x \in {"zero", "above"} }

MCConfigs ==
    { c \in UNION { Altered(d) : d \in Altered(Good) } : IsFile(c) }
    \cup { [Good EXCEPT !.form = x] :
             x \in {"unreadable", "no json", "no object"} }

\* No argument, a path, help after a path, a path that looks like help, and
\* the two mistakes.
MCArgvs ==
    { <<>>, <<"-c", "other">>, <<"-c", "other", "-h">>, <<"-c", "-h">>,
      <<"-h", "other">>, <<"other">>, <<"-h", "-c">> }

\* Every file without arguments, the good one with every argument list.
MCStarts == ({<<>>} \X MCConfigs) \cup (MCArgvs \X {Good})

=============================================================================
