----------------------------- MODULE Resolution -----------------------------
(***************************************************************************)
(* What a load resolves to: the layers of LAYERS (dynamic-config, loader/)  *)
(* merged lowest first, and the aliases that fill the gaps afterwards;      *)
(* what explain() says of one path; and the calls and edits that change     *)
(* what the layers hold, in any order.                                      *)
(*                                                                         *)
(* A leaf is <<value, by>>, where by is the provider it came from.  A       *)
(* document's paths begin with its section: Own is the section this load    *)
(* reads, Other one that an alias may reach into.  Environment variables    *)
(* and .env entries hold texts; Variables gives the paths of those that     *)
(* carry the prefix.                                                        *)
(***************************************************************************)
EXTENDS Trees, SequencesExt

CONSTANTS PathOrder,   \* the paths a call may name, in the order of their
                       \* spelling, a path of Other's among them
          Variables,   \* variable -> the path it is spelled for, <<>> for
                       \* one without the prefix
          EnvTexts,    \* what a variable may hold
          DocSet,      \* what a file or the remote document may be
          MaxOps       \* bound: calls and edits

ASSUME ResolutionAssumption ==
    /\ MaxOps \in Nat
    /\ PathOrder \in Seq(PathsOf(STRING))
    /\ \A i, j \in 1..Len(PathOrder) : PathOrder[i] = PathOrder[j] => i = j
    /\ \A v, w \in DOMAIN Variables :     \* one spelling of a path
           Variables[v] = Variables[w] /\ Variables[v] # <<>> => v = w

VARIABLES spec,     \* what the builder was told (LoadSpec)
          set,      \* [default, flag, override]: the Layers' entries
          files,    \* the documents of the sources, by source
          environ,  \* the process environment
          dotenv,   \* the .env file's entries
          secrets,  \* the secrets directory's files, by key
          bound,    \* EnvBindings: path -> variable
          aliases,  \* Aliases: old path -> new path
          walked,   \* the explanation under way, between its two reads
          explained,\* the last explanation, until something changes
          ops

sourceVars == <<spec, set, files, environ, dotenv, secrets, bound, aliases>>
resolutionVars == <<sourceVars, walked, explained, ops>>

Own == "app"
Other == "old"
SECTION == "::"
SCHEMA_KEY == <<"$schema">>
Unset == "unset"
Ambiguous == {"yes"}
Missing == [t \in {<<>>} |-> <<"missing">>]
Unreadable == [t \in {<<>>} |-> <<"unreadable">>]
NoEntry == [p \in {} |-> <<>>]
NotExplained == [path |-> <<>>]

Paths == {PathOrder[i] : i \in 1..Len(PathOrder)}

\* check_path, of a path that is relative to the section: no empty part and
\* no section.
check_path(p) == p # <<>> /\ p[1] # SECTION
OwnPaths == {p \in Paths : check_path(p)}

-----------------------------------------------------------------------------
(* Providers.  A figment is a tree per section, or poisoned: a provider     *)
(* that fails is found out when something is extracted.  A layer's merge    *)
(* can also fail outright.                                                  *)

NoFigment == [status |-> "ok", own |-> EmptyTree, other |-> EmptyTree]
Poisoned == [NoFigment EXCEPT !.status = "poisoned"]
Error == [NoFigment EXCEPT !.status = "error"]

Tagged(t, by) ==
    [p \in DOMAIN t |->
        IF t[p] = EmptyTable THEN EmptyTable ELSE <<t[p][1], by>>]

InOwn(t, by) == [NoFigment EXCEPT !.own = Tagged(t, by)]

Worse(a, b) ==
    CASE "error" \in {a, b} -> "error"
      [] "error" \notin {a, b} /\ "poisoned" \in {a, b} -> "poisoned"
      [] OTHER -> "ok"

MergeFigments(f, g) ==
    [status |-> Worse(f.status, g.status),
     own |-> MergeTrees(f.own, g.own),
     other |-> MergeTrees(f.other, g.other)]

\* Layer::dict: the entries in the order of their spelling, so that an entry
\* below another one's path displaces it.
Dict(entries) ==
    [p \in {q \in DOMAIN entries : ~\E r \in DOMAIN entries : Under(r, q)} |->
        entries[p]]

\* Sections: every top-level key of a document is a section and must be a
\* table, unless the whole document is this one.  A file that is not there
\* has nothing to say.
Sections(doc, by) ==
    LET named == WithoutTopLevel(doc, SCHEMA_KEY[1])
    IN  CASE doc = Missing -> NoFigment
          [] doc = Unreadable -> Poisoned
          [] doc \notin {Missing, Unreadable} /\ spec.whole ->
                InOwn(named, by)
          [] doc \notin {Missing, Unreadable} /\ ~spec.whole ->
                IF \E p \in DOMAIN named :
                       Len(p) = 1 /\ named[p] # EmptyTable
                THEN Poisoned
                ELSE [status |-> "ok",
                      own |-> Tagged(Sub(named, <<Own>>), by),
                      other |-> Tagged(Sub(named, <<Other>>), by)]

\* merge_encrypted_file: without a decryptor, or with one that cannot open
\* it, there is no load.
merge_encrypted_file(doc, by) ==
    IF doc = Missing THEN NoFigment
    ELSE IF ~spec.decryptor THEN Error
    ELSE Sections(doc, by)

\* validated_profile: a profile that is not a plain word fails everything.
validated_profile == spec.profile # "../x"

\* A file, through the decryptor where its name says that it is encrypted.
merge_source(name, variant) ==
    LET doc == files[<<name, variant>>]
    IN  IF name = "sealed" THEN merge_encrypted_file(doc, <<name, variant>>)
        ELSE Sections(doc, <<name, variant>>)

\* merge_profile_variant: the file's variant for the profile, after it.
merge_profile_variant(name) ==
    IF spec.profile = "" THEN NoFigment ELSE merge_source(name, "prod")

WithVariant(name) ==
    MergeFigments(merge_source(name, ""), merge_profile_variant(name))

-----------------------------------------------------------------------------
(* The layers, each as the figment it makes by itself.                      *)

merge_defaults == InOwn(Dict(set.default), <<"default", "">>)

\* Search::resolve: in a directory the first spelling that is a file, and
\* no variant of a file that is not there.
resolve_search ==
    LET there == {name \in {"found.toml", "found.json"} :
                     files[<<name, "">>] # Missing}
    IN  IF "found.toml" \in there THEN {"found.toml"} ELSE there

merge_discovered ==
    IF resolve_search = {} THEN NoFigment
    ELSE WithVariant(CHOOSE name \in resolve_search : TRUE)

\* A listed source's variant counts whether or not the source is there.
merge_listed == MergeFigments(WithVariant("listed"), WithVariant("sealed"))

merge_remote == Sections(files[<<"remote", "">>], <<"remote", "">>)

merge_secrets_dir == InOwn(secrets, <<"secrets", "">>)

\* A text that counts: an empty one says nothing unless it was allowed to.
Counts(text) == text # Unset /\ (text # "" \/ spec.allow_empty)

Prefixed == {v \in DOMAIN Variables : Variables[v] # <<>>}

\* The tree of the prefixed variables of env that count.
Spelled(env) ==
    [p \in {Variables[v] : v \in {u \in Prefixed : Counts(env[u])}} |->
        <<env[CHOOSE v \in Prefixed : Variables[v] = p]>>]

\* merge_env_files: a line that is not an entry fails the load, and so does
\* an ambiguous text of any entry under strict_env.
merge_env_files(dot) ==
    IF \E v \in DOMAIN Variables : dot[v] = "not an entry" THEN Error
    ELSE IF /\ spec.strict_env
            /\ \E v \in DOMAIN Variables : dot[v] \in Ambiguous
    THEN Error
    ELSE InOwn(Spelled(dot), <<".env", "">>)

\* merge_environment: reject_ambiguous looks at the prefixed variables.
merge_environment(env) ==
    IF spec.strict_env /\ \E v \in Prefixed : env[v] \in Ambiguous
    THEN Error
    ELSE InOwn(Spelled(env), <<"environment", "">>)

\* Mutant: a variable that is set is not looked for in the .env file.
resolve_set_first(v, env, dot) ==
    IF env[v] # Unset THEN env[v] ELSE dot[v]

\* resolve, of a bound variable: the environment's text where it counts,
\* else the .env file's.
resolve(v, env, dot) ==
    IF Counts(env[v]) THEN env[v] ELSE dot[v]

merge_bindings(env, dot) ==
    LET said == {p \in DOMAIN bound : Counts(resolve(bound[p], env, dot))}
        texts == [p \in said |-> <<resolve(bound[p], env, dot)>>]
    IN  IF \E v \in DOMAIN Variables : dot[v] = "not an entry" THEN Error
        ELSE InOwn(Dict(texts), <<"binding", "">>)

merge_flags == InOwn(Dict(set.flag), <<"flag", "">>)
merge_overrides == InOwn(Dict(set.override), <<"override", "">>)

LAYERS == <<"default", "discovered", "file", "remote", "secrets", ".env",
            "environment", "binding", "flag", "override">>

LayerFigment(layer, env, dot) ==
    CASE layer = "default" -> merge_defaults
      [] layer = "discovered" -> merge_discovered
      [] layer = "file" -> merge_listed
      [] layer = "remote" -> merge_remote
      [] layer = "secrets" -> merge_secrets_dir
      [] layer = ".env" -> merge_env_files(dot)
      [] layer = "environment" -> merge_environment(env)
      [] layer = "binding" -> IF bound = NoEntry THEN NoFigment
                              ELSE merge_bindings(env, dot)
      [] layer = "flag" -> merge_flags
      [] layer = "override" -> merge_overrides

\* layer_figments: every layer alone.
LayerFigments(env, dot) ==
    [i \in 1..Len(LAYERS) |-> LayerFigment(LAYERS[i], env, dot)]
layer_figments == LayerFigments(environ, dotenv)

\* build: the layers merged, lowest first.
Together(figments) ==
    LET upTo[n \in 0..Len(figments)] ==
            IF n = 0 THEN NoFigment
            ELSE MergeFigments(upTo[n - 1], figments[n])
    IN  upTo[Len(figments)]

build(env, dot) ==
    IF validated_profile THEN Together(LayerFigments(env, dot)) ELSE Error

-----------------------------------------------------------------------------
(* The alias pass.                                                          *)

\* Whether, and as what, an old path is supplied, in its own section.
Found(f, from) ==
    IF from[1] = SECTION THEN Tail(from) \in DOMAIN f.other
    ELSE from \in DOMAIN f.own
ValueAt(f, from) ==
    IF from[1] = SECTION THEN f.other[Tail(from)] ELSE f.own[from]

supplied_above_defaults(f, to) ==
    to \in DOMAIN f.own /\ f.own[to][2] # <<"default", "">>

\* One alias of one round: the old path's value, with its provenance, at a
\* new path that nothing but the defaults supplies and no alias has filled.
Fill(s, pairs, from) ==
    LET to == pairs[from]
        f == s.figment
    IN  IF \/ from \notin DOMAIN pairs
           \/ to \in s.filled
           \/ supplied_above_defaults(f, to)
           \/ ~Found(f, from)
        THEN s
        ELSE [figment |-> [f EXCEPT !.own =
                              MergeTrees(@, [p \in {to} |->
                                                ValueAt(f, from)])],
              filled |-> s.filled \union {to}]

\* One round: the aliases in the order of their old paths.
Round(s, pairs, order) ==
    LET upTo[n \in 0..Len(order)] ==
            IF n = 0 THEN s ELSE Fill(upTo[n - 1], pairs, order[n])
    IN  upTo[Len(order)]

\* Rounds until nothing is filled: one an alias is always enough.
apply_aliases(f, pairs, order) ==
    LET many == Cardinality(DOMAIN pairs)
        after[n \in 0..many] ==
            IF n = 0 THEN [figment |-> f, filled |-> {}]
            ELSE Round(after[n - 1], pairs, order)
    IN  IF f.status = "ok" THEN after[many].figment ELSE f

merged == apply_aliases(build(environ, dotenv), aliases, PathOrder)

-----------------------------------------------------------------------------
(* explain.                                                                 *)

\* A layer is active, and has a row, when it holds or is told of something.
Active(layer) ==
    CASE layer = "default" -> set.default # NoEntry
      [] layer = "remote" -> files[<<"remote", "">>] # Missing
      [] layer = "binding" -> bound # NoEntry
      [] layer = "flag" -> set.flag # NoEntry
      [] layer = "override" -> set.override # NoEntry
      [] OTHER -> TRUE

\* What each layer says of the path; a poisoned one says nothing.
Rows(path) ==
    LET said == layer_figments
    IN  [i \in {n \in 1..Len(LAYERS) :
                   /\ Active(LAYERS[n])
                   /\ said[n].status = "ok"
                   /\ path \in DOMAIN said[n].own} |-> said[i].own[path]]

NoRow == <<>>

\* winner, of the layers' rows alone: the last one with a value.
WalkWinner(rows) ==
    IF DOMAIN rows = {} THEN NoRow
    ELSE rows[CHOOSE i \in DOMAIN rows : \A j \in DOMAIN rows : j <= i]

\* aliased_from: the first alias, in order, that leads to the path.
aliased_from(path) ==
    LET leading == {i \in 1..Len(PathOrder) :
                       /\ PathOrder[i] \in DOMAIN aliases
                       /\ aliases[PathOrder[i]] = path}
    IN  IF leading = {} THEN <<>>
        ELSE PathOrder[CHOOSE i \in leading : \A j \in leading : i <= j]

\* Mutant: only a path no layer has a row for is asked of the whole load.
AliasRowForGaps(path, rows) ==
    LET whole == merged
    IN  IF /\ whole.status = "ok"
           /\ path \in DOMAIN whole.own
           /\ WalkWinner(rows) = NoRow
        THEN whole.own[path] ELSE NoRow

\* The composed load speaks where no row has its origin.
AliasRow(path, rows) ==
    LET whole == merged
        last == WalkWinner(rows)
    IN  IF /\ whole.status = "ok"
           /\ path \in DOMAIN whole.own
           /\ last = NoRow \/ last[2] # whole.own[path][2]
        THEN whole.own[path] ELSE NoRow

-----------------------------------------------------------------------------
FileNames == ({"found.toml", "found.json", "listed", "sealed"}
                  \X {"", "prod"}) \union {<<"remote", "">>}

\* A fresh program: something may be in the listed file already.
Fresh ==
    /\ set = [default |-> NoEntry, flag |-> NoEntry, override |-> NoEntry]
    /\ environ = [v \in DOMAIN Variables |-> Unset]
    /\ dotenv = [v \in DOMAIN Variables |-> Unset]
    /\ secrets = NoEntry /\ bound = NoEntry /\ aliases = NoEntry
    /\ walked = NotExplained /\ explained = NotExplained /\ ops = 0

\* Something that a load reads has changed.  Bound: once while an
\* explanation is under way.
Changed ==
    /\ ops < MaxOps
    /\ walked # NotExplained => walked.at = ops
    /\ ops' = ops + 1
    /\ explained' = NotExplained

With(f, p, v) == [q \in DOMAIN f \union {p} |-> IF q = p THEN v ELSE f[q]]
Without(f, p) == [q \in DOMAIN f \ {p} |-> f[q]]

\* Layer::set, set_text and an assignment; a path that is not usable is
\* refused and changes nothing.
Set(layer, p, v) ==
    /\ Changed
    /\ check_path(p)
    /\ set' = [set EXCEPT ![layer] = With(@, p, <<v>>)]
    /\ UNCHANGED <<spec, files, environ, dotenv, secrets, bound, aliases,
                   walked>>

unset(layer, p) ==
    /\ Changed
    /\ p \in DOMAIN set[layer]
    /\ set' = [set EXCEPT ![layer] = Without(@, p)]
    /\ UNCHANGED <<spec, files, environ, dotenv, secrets, bound, aliases,
                   walked>>

\* EnvBindings::bind.
bind(p, v) ==
    /\ Changed
    /\ check_path(p)
    /\ bound' = With(bound, p, v)
    /\ UNCHANGED <<spec, set, files, environ, dotenv, secrets, aliases,
                   walked>>

\* Where the aliases lead from p: the walk of add, which meets at most as
\* many paths as there are aliases.
Leads(p) ==
    LET step[n \in 0..Cardinality(DOMAIN aliases)] ==
            IF n = 0 THEN p
            ELSE IF step[n - 1] \in DOMAIN aliases
            THEN aliases[step[n - 1]] ELSE step[n - 1]
    IN  {step[n] : n \in DOMAIN step}

\* Mutant: the walk looks one alias ahead.
add_near(from, to) ==
    /\ Changed
    /\ check_path(to) /\ from # to
    /\ ~(to \in DOMAIN aliases /\ aliases[to] = from)
    /\ aliases' = With(aliases, from, to)
    /\ UNCHANGED <<spec, set, files, environ, dotenv, secrets, bound, walked>>

\* Aliases::add: a new path is in this section, and an alias that closes a
\* cycle is refused.
add(from, to) ==
    /\ Changed
    /\ check_path(to) /\ from # to
    /\ from \notin Leads(to)
    /\ aliases' = With(aliases, from, to)
    /\ UNCHANGED <<spec, set, files, environ, dotenv, secrets, bound, walked>>

\* Somebody writes a file, the remote slot takes a document, a variable or
\* an entry of the .env file changes, a secret is mounted.
WriteFile(name, doc) ==
    /\ Changed
    /\ files' = [files EXCEPT ![name] = doc]
    /\ UNCHANGED <<spec, set, environ, dotenv, secrets, bound, aliases,
                   walked>>

SetVariable(v, text) ==
    /\ Changed
    /\ text # "not an entry"
    /\ environ' = [environ EXCEPT ![v] = text]
    /\ UNCHANGED <<spec, set, files, dotenv, secrets, bound, aliases, walked>>

WriteDotenv(v, text) ==
    /\ Changed
    /\ dotenv' = [dotenv EXCEPT ![v] = text]
    /\ UNCHANGED <<spec, set, files, environ, secrets, bound, aliases, walked>>

MountSecret(p, text) ==
    /\ Changed
    /\ secrets' = With(secrets, p, <<text>>)
    /\ UNCHANGED <<spec, set, files, environ, dotenv, bound, aliases, walked>>

\* explain reads every layer by itself ...
Walk(path) ==
    /\ walked = NotExplained /\ explained = NotExplained
    /\ validated_profile
    /\ \A i \in 1..Len(LAYERS) : layer_figments[i].status # "error"
    /\ walked' = [path |-> path, rows |-> Rows(path), at |-> ops]
    /\ UNCHANGED <<sourceVars, explained, ops>>

\* ... and then all of them again, together.
Compose ==
    /\ walked # NotExplained
    /\ explained' =
           IF merged.status = "error" THEN NotExplained
           ELSE [path |-> walked.path, walk |-> WalkWinner(walked.rows),
                 alias |-> AliasRow(walked.path, walked.rows),
                 from |-> aliased_from(walked.path),
                 undisturbed |-> walked.at = ops]
    /\ walked' = NotExplained
    /\ UNCHANGED <<sourceVars, ops>>

-----------------------------------------------------------------------------
OneAliasPerPath == \A p, q \in DOMAIN aliases : aliases[p] = aliases[q] => p = q

\* A path that is a new path and an old one, and nothing but the defaults
\* supplies it.
DefaultInTheMiddle(f) ==
    \E p, q \in DOMAIN aliases :
        /\ aliases[q] = p
        /\ Found(f, p) /\ ~supplied_above_defaults(f, p)

\* No new path is inside or above a leaf or another new path.
AliasesLeadToLeaves(f) ==
    \A p \in DOMAIN aliases :
        \A q \in DOMAIN f.own \union {aliases[r] : r \in DOMAIN aliases} :
            ~Under(aliases[p], q) /\ ~Under(q, aliases[p])

\* Aliases fill gaps and do nothing else: they stay a set of chains, what a
\* layer above the defaults supplies is left as it is, and where a chain is
\* the only way to a path and no default sits in the middle of it the path
\* holds what the path before it in the chain holds, whatever the spelling
\* of the paths, with its provenance.
AliasesOnlyFillGaps ==
    LET before == build(environ, dotenv)
        after == apply_aliases(before, aliases, PathOrder)
        same(p) == IF p \in DOMAIN before.own
                   THEN p \in DOMAIN after.own /\ after.own[p] = before.own[p]
                   ELSE p \notin DOMAIN after.own
        carried(q, p) == p \in DOMAIN after.own
                         /\ after.own[p] = ValueAt(after, q)
    IN  aliases = NoEntry
        \/
        /\ \A p \in DOMAIN aliases : p \notin Leads(aliases[p])
        /\ (before.status = "ok" /\ AliasesLeadToLeaves(before)) =>
              /\ \A p \in DOMAIN before.own \union DOMAIN after.own :
                    (\/ supplied_above_defaults(before, p)
                     \/ \A q \in DOMAIN aliases : aliases[q] # p) => same(p)
              /\ (OneAliasPerPath /\ ~DefaultInTheMiddle(before)) =>
                    \A q \in DOMAIN aliases :
                        IF supplied_above_defaults(before, aliases[q])
                           \/ ~Found(after, q)
                        THEN same(aliases[q]) ELSE carried(q, aliases[q])

\* An empty variable or .env entry is no variable at all, unless empty ones
\* were asked for: it neither erases what a lower layer holds nor hides the
\* .env file from a bound path.
EmptyIsUnset ==
    LET cleared(env) == [v \in DOMAIN env |->
                            IF env[v] = "" THEN Unset ELSE env[v]]
        empty == \E v \in DOMAIN Variables : "" \in {environ[v], dotenv[v]}
    IN  (empty /\ ~spec.allow_empty) =>
            build(environ, dotenv) = build(cleared(environ), cleared(dotenv))

\* Of sources that stay as they are, explain's winner is what a load finds
\* at the path, and a row calls itself an alias only where one leads to the
\* path.  Two exceptions are the code's: a value that a leaf above or inside
\* it has displaced, a layer's or an alias's, still has its row, and an alias
\* whose supplier is the layer of the last row gets none.
ExplainedIsLoaded ==
    (explained # NotExplained /\ explained.undisturbed) =>
        LET p == explained.path
            whole == merged
            loaded == IF p \in DOMAIN whole.own THEN whole.own[p] ELSE NoRow
            winner == IF explained.alias # NoRow THEN explained.alias
                      ELSE explained.walk
            layers == layer_figments
            displaced == \/ \E i \in 1..Len(LAYERS) :
                               \E q \in DOMAIN layers[i].own :
                                   q # p /\ Touch(p, q)
                         \/ \E q \in DOMAIN aliases :
                               aliases[q] # p /\ Touch(aliases[q], p)
            same == /\ explained.from # <<>>
                    /\ explained.walk # NoRow /\ loaded # NoRow
                    /\ explained.walk[2] = loaded[2]
        IN  /\ \/ winner = loaded \/ displaced \/ same
               \/ whole.status # "ok"
            /\ explained.alias # NoRow => explained.from # <<>>

\* aliases_pass.rs:34-36: "a chain ... resolves whatever the map's iteration
\* order says, instead of only when the alphabet happens to put the first
\* hop first".
ChainsIgnoreTheAlphabet ==
    OneAliasPerPath =>
        apply_aliases(build(environ, dotenv), aliases,
                      Reverse(PathOrder)) = merged

\* aliases.rs:91-92: "the alias row names the old path next to the layer that
\* supplied it".
AliasRowNamesItsSupplier ==
    (explained # NotExplained /\ explained.undisturbed
     /\ explained.alias # NoRow) =>
        Found(merged, explained.from)
=============================================================================
