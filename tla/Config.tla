------------------------------- MODULE Config -------------------------------
(***************************************************************************)
(* Configuration (config.cpp): a builder collects options in three layers, *)
(* a client copies them, and every later question is one lookup: option    *)
(* for a value, has_option for its presence, scope_key for the place it    *)
(* comes from, by which the credential cache shares an entry among paths.  *)
(*                                                                         *)
(* A path is a sequence of symbols: a handler or a scheme, letters and     *)
(* "/".  The history variable `log' keeps the accepted calls as the caller *)
(* wrote them, for the properties to compare lookups with.                 *)
(***************************************************************************)
EXTENDS Naturals, SequencesExt, TLC

CONSTANTS
    Table,         \* the option names in the order of config_options.hpp
    Environments,  \* environments: functions from names of Table to values
    Spellings,     \* option names that callers write
    Values,        \* values that callers write; "bad" is of no number and of no Boolean
    Scopes,        \* path prefixes that callers write
    Paths,         \* paths that are looked up
    MaxCalls       \* bound on the accepted calls

ASSUME ConfigAssumption ==
    /\ \A e \in Environments : DOMAIN e \subseteq Range(Table)
    /\ Scopes \subseteq Seq(STRING) /\ Paths \subseteq Seq(STRING)
    /\ MaxCalls \in Nat

VARIABLES
    env,      \* the environment
    builder,  \* karu_config
    clients,  \* the ConfigSnapshot of the client, when there is one
    log       \* the accepted calls

vars == <<env, builder, clients, log>>

NULL == "NULL"
Empty == <<>>

(***************************************************************************)
(* Names and paths                                                         *)
(***************************************************************************)
Aliases ==
    [AWS_ENDPOINT_URL |-> "AWS_S3_ENDPOINT", AWS_ENDPOINT_URL_S3 |-> "AWS_S3_ENDPOINT",
     AWS_DEFAULT_PROFILE |-> "AWS_PROFILE", AWS_DEFAULT_REGION |-> "AWS_REGION",
     KARU_MAX_RETRIES |-> "KARU_MAX_ATTEMPTS", HUGGING_FACE_HUB_TOKEN |-> "HF_TOKEN",
     CURL_CA_BUNDLE |-> "KARU_HTTP_CA_BUNDLE", SSL_CERT_FILE |-> "KARU_HTTP_CA_BUNDLE",
     SOURCE_PROXY_URL |-> "SOURCE_ENDPOINT"]

canonical_option_name(n) == IF n \in DOMAIN Aliases THEN Aliases[n] ELSE n

Names == {canonical_option_name(n) : n \in Range(Table)}

known_option(n) == n \in Names

\* The options that are the client's, in no path: those that begin with KARU_.
ClientWide == {"KARU_MAX_ATTEMPTS", "KARU_HTTP_CA_BUNDLE", "KARU_CONCURRENCY"}

Handlers ==
    ("s3://" :> "/vsis3/") @@ ("gs://" :> "/vsigs/") @@ ("az://" :> "/vsiaz/")
    @@ ("abfs://" :> "/vsiadls/") @@ ("hf://" :> "/vsihf/") @@ ("source://" :> "/vsisource/")

canonical_vsi_path(p) ==
    IF p # Empty /\ Head(p) \in DOMAIN Handlers THEN <<Handlers[Head(p)]>> \o Tail(p) ELSE p

\* The words of scope_key for a value that comes from no rule.  A path that is
\* looked up is empty or the canonical URI of a remote object, which begins with
\* a handler or a scheme (uri.cpp:85-158) and never with one of them.
Layers == {"explicit", "environment", "default"}

ASSUME PathsAssumption ==
    \A p \in Paths : canonical_vsi_path(p) # Empty => Head(canonical_vsi_path(p)) \notin Layers

Slashed == {"/"} \cup Range(Handlers)

EndsWithSlash(p) == Last(p) \in Slashed

path_prefix_matches(p, prefix) ==
    /\ IsPrefix(prefix, p)
    /\ Len(p) = Len(prefix) \/ EndsWithSlash(prefix) \/ p[Len(prefix) + 1] = "/"

(***************************************************************************)
(* Lookups in a snapshot                                                   *)
(***************************************************************************)
Put(m, n, v) == [x \in DOMAIN m \cup {n} |-> IF x = n THEN v ELSE m[x]]
Erase(m, n) == [x \in DOMAIN m \ {n} |-> m[x]]

Rules(s, path, name) ==
    LET canonical == canonical_vsi_path(path)
    IN  {i \in DOMAIN s.paths : /\ name \in DOMAIN s.paths[i].values
                                /\ path_prefix_matches(canonical, s.paths[i].prefix)}

\* Mutant: the rule that was made first.
BestFirst(s, path, name) ==
    LET rules == Rules(s, path, name)
    IN  CHOOSE i \in rules : \A j \in rules : i <= j

\* The rule with the longest prefix.
Best(s, path, name) ==
    LET rules == Rules(s, path, name)
    IN  CHOOSE i \in rules :
            \A j \in rules : Len(s.paths[j].prefix) <= Len(s.paths[i].prefix)

option(s, path, raw, fallback) ==
    LET name == canonical_option_name(raw)
    IN  IF Rules(s, path, name) # {} THEN s.paths[Best(s, path, name)].values[name]
        ELSE IF name \in DOMAIN s.explicit THEN s.explicit[name]
        ELSE IF name \in DOMAIN s.environment THEN s.environment[name]
        ELSE fallback

\* Mutant: the layer alone, whatever the prefix.
ScopeOfLayer(s, path, raw) ==
    LET name == canonical_option_name(raw)
    IN  IF Rules(s, path, name) # {} THEN <<"path">>
        ELSE IF name \in DOMAIN s.explicit THEN <<"explicit">>
        ELSE IF name \in DOMAIN s.environment THEN <<"environment">>
        ELSE <<"default">>

\* One line of scope_key: where the value of an option comes from.
Scope(s, path, raw) ==
    LET name == canonical_option_name(raw)
    IN  IF Rules(s, path, name) # {} THEN s.paths[Best(s, path, name)].prefix
        ELSE IF name \in DOMAIN s.explicit THEN <<"explicit">>
        ELSE IF name \in DOMAIN s.environment THEN <<"environment">>
        ELSE <<"default">>

scope_key(s, path, names) == [n \in names |-> Scope(s, path, n)]

(***************************************************************************)
(* The builder                                                             *)
(***************************************************************************)
\* A later alias in the table does not override an earlier one.
Spelled(e, name) ==
    SelectSeq(Table, LAMBDA n : n \in DOMAIN e /\ canonical_option_name(n) = name)

environment_(e) ==
    [name \in {n \in Names : Spelled(e, n) # Empty} |-> e[Head(Spelled(e, name))]]

ConfigBuilder(e) == [environment |-> e, explicit |-> Empty, paths |-> Empty]

\* karu_config_create and karu_config_create_empty.
Init ==
    /\ env \in Environments
    /\ builder \in {ConfigBuilder(environment_(env)), ConfigBuilder(Empty)}
    /\ clients = {}
    /\ log = Empty

\* The client has a copy: later calls do not concern it, and are left out.
Logged(prefix, raw, value) ==
    /\ Len(log) < MaxCalls
    /\ clients = {}
    /\ log' = Append(log, [prefix |-> prefix, name |-> raw, value |-> value])

set(raw, value) ==
    LET name == canonical_option_name(raw)
    IN  /\ known_option(name)
        /\ builder' = [builder EXCEPT !.explicit =
               IF value = NULL THEN Erase(@, name) ELSE Put(@, name, value)]
        /\ Logged(Empty, raw, value)
        /\ UNCHANGED <<env, clients>>

\* A rule is made for a new prefix, also when there is nothing to remove.
WithRule(paths, prefix) ==
    IF \E i \in DOMAIN paths : paths[i].prefix = prefix THEN paths
    ELSE Append(paths, [prefix |-> prefix, values |-> Empty])

set_path(prefix, raw, value) ==
    LET name == canonical_option_name(raw)
        canonical == canonical_vsi_path(prefix)
        Changed(rule) ==
            IF rule.prefix # canonical THEN rule
            ELSE [rule EXCEPT !.values =
                      IF value = NULL THEN Erase(@, name) ELSE Put(@, name, value)]
        rules == WithRule(builder.paths, canonical)
    IN  /\ prefix # Empty
        /\ known_option(name) /\ name \notin ClientWide
        /\ builder' = [builder EXCEPT !.paths = [i \in DOMAIN rules |-> Changed(rules[i])]]
        /\ Logged(prefix, raw, value)
        /\ UNCHANGED <<env, clients>>

(***************************************************************************)
(* freeze.  validate_values looks at every layer, the numbers of the       *)
(* client are parsed from the value that wins.                             *)
(***************************************************************************)
Validated == {"AWS_NO_SIGN_REQUEST"}
Numeric == {"KARU_MAX_ATTEMPTS"}

validate_values(m) == \A n \in DOMAIN m \cap Validated : m[n] # "bad"

Freezes(b) ==
    /\ validate_values(b.environment)
    /\ validate_values(b.explicit)
    /\ \A i \in DOMAIN b.paths : validate_values(b.paths[i].values)
    /\ \A n \in Numeric : option(b, Empty, n, "8") # "bad"

karu_client_create ==
    /\ clients = {}
    /\ Freezes(builder)
    /\ clients' = {builder}
    /\ UNCHANGED <<env, builder, log>>

Next ==
    \/ \E n \in Spellings, v \in Values \cup {NULL} :
           set(n, v) \/ \E p \in Scopes : set_path(p, n, v)
    \/ karu_client_create

Spec == Init /\ [][Next]_vars

(***************************************************************************)
(* Properties                                                              *)
(***************************************************************************)
Hermetic == builder.environment = Empty

\* What calls say of an option in one scope: the last one counts.
Said(calls, scope, name) ==
    LET about == {i \in DOMAIN calls : /\ canonical_vsi_path(calls[i].prefix) = scope
                                       /\ canonical_option_name(calls[i].name) = name}
    IN  IF about = {} THEN NULL ELSE calls[Max(about)].value

\* A path is in itself and in every directory above it.
Above(path) ==
    {SubSeq(path, 1, k) : k \in {i \in 1 .. Len(path) :
        i = Len(path) \/ path[i + 1] = "/" \/ EndsWithSlash(SubSeq(path, 1, i))}}

\* The value that the documentation promises for a path: that of the nearest directory
\* for which one was set, then the global one, then the environment's, then the default.
Promised(path, name) ==
    LET scopes == {p \in Above(canonical_vsi_path(path)) : Said(log, p, name) # NULL}
        first == Spelled(env, name)
    IN  IF scopes # {}
        THEN Said(log, CHOOSE p \in scopes : \A q \in scopes : Len(q) <= Len(p), name)
        ELSE IF Said(log, Empty, name) # NULL THEN Said(log, Empty, name)
        ELSE IF ~Hermetic /\ first # Empty THEN env[Head(first)]
        ELSE NULL

\* Whatever the order and the spellings of the calls that made the configuration,
\* a lookup of the client gives what the nearest enclosing scope was last told.
LookupIsNearest ==
    \A client \in clients, path \in Paths, n \in Names :
        option(client, path, n, NULL) = Promised(path, n)

\* Paths with the same scope key have the same values of all its options: what
\* the credential cache shares was looked up with the same settings.
ScopeSharesValues ==
    \A client \in clients :
        LET values(p) == [n \in Names |-> option(client, p, n, NULL)]
            seen == {<<scope_key(client, p, Names), values(p)>> : p \in Paths}
        IN  \A x \in seen, y \in seen : x[1] = y[1] => x[2] = y[2]
=============================================================================
