----------------------------- MODULE Lifecycle ------------------------------
(***************************************************************************)
(* The life of one configuration type across process restarts: init, with   *)
(* its recovery from the last-known-good cache, and reload_with             *)
(* (builder/lifecycle.rs); the cache file (cache.rs); the layers a load     *)
(* merges (loader/mod.rs) and the ones a recovery does (loader/recover.rs). *)
(*                                                                         *)
(* Several threads may be inside init or a reload at once (a watch thread,  *)
(* a remote sink, the program), sources change under them, and the process  *)
(* may die between any two steps; the sources on disk and the cache file    *)
(* survive it.  A load reads its layers in one step, and so does the second *)
(* read that the cache is written from.  The cache file changes in one step *)
(* (write.rs renames a complete file into place).                           *)
(*                                                                         *)
(* A document maps leaf keys to values; it covers some of the keys.  Every  *)
(* layer's document is already filed under the type's section.              *)
(***************************************************************************)
EXTENDS Naturals, Sequences

CONSTANTS
    Keys,         \* leaf key paths of the type's section
    Values,       \* what a key may be set to
    Secrets,      \* keys declared #[config(secret)]
    Required,     \* keys without which the type does not deserialize
    Refused,      \* values that the type's validate function refuses
    Threads,      \* threads that call init and reload
    Choices,      \* what each layer may come to hold while the program runs
    Deployments,  \* the cache modes and secret declarations of its builders
    MaxChanges,   \* bound on the changes of a layer
    MaxCalls,     \* bound on the calls of init and reload
    MaxCrashes    \* bound on restarts

ASSUME BoundsAreNaturals ==
    MaxChanges \in Nat /\ MaxCalls \in Nat /\ MaxCrashes \in Nat

ASSUME KeySets == Secrets \subseteq Keys /\ Required \subseteq Keys

\* LAYERS: every later layer displaces the earlier ones.
LAYERS == <<"default", "discovered", "file", "remote", "secrets", ".env",
            "environment", "binding", "flag", "override">>

LayerNames == {"default", "discovered", "file", "remote", "secrets", ".env",
               "environment", "binding", "flag", "override"}

\* The layers that are values in the process, lost when it dies.
InMemory == {"default", "remote", "flag", "override"}

Documents == UNION {[D -> Values] : D \in SUBSET Keys}
Nothing == [k \in {} |-> k]

\* A layer can be read (ok), or fails to parse.
Layer == [ok : BOOLEAN, doc : Documents]
Quiet == [ok |-> TRUE, doc |-> Nothing]

CacheMode == {"Full", "Redacted", "Fingerprint"}
Deployment == [mode : CacheMode \union {"none"}, declared : BOOLEAN]

ASSUME ChoicesAreLayers ==
    /\ Choices \in [LayerNames -> SUBSET Layer]
    /\ Deployments \subseteq Deployment

VARIABLES
    layers,      \* what each layer holds now
    disk,        \* the cache file: its marker's mode, or "absent"
    builder,     \* the cache mode configured, and whether secrets are known
    serving,     \* the configuration in the cell
    reason,      \* why it was installed, or "none" while nothing is
    configured,  \* the builder is remembered (Configured::set)
    pc,          \* where each thread is
    op,          \* what it was called for
    value,       \* the configuration or document it holds
    read,        \* history: the layers it last read
    changes, calls, crashes,
    worked       \* history: every configuration that was ever installed

cellVars == <<serving, reason, configured>>
threadVars == <<pc, op, value, read>>
bounds == <<changes, calls, crashes>>
vars == <<layers, disk, builder, cellVars, threadVars, bounds, worked>>

CellTypeOK ==
    /\ serving \in Documents
    /\ reason \in {"none", "Initial", "Recovered", "Reload"}
    /\ configured \in BOOLEAN
    /\ worked \subseteq Documents

SourceTypeOK ==
    /\ layers \in [LayerNames -> Layer]
    /\ disk \in [mode : CacheMode \union {"absent"}, doc : Documents]
    /\ builder \in Deployment

ThreadTypeOK ==
    /\ pc \in [Threads -> {"idle", "load", "install", "snapshot", "write",
                           "recover", "restore"}]
    /\ op \in [Threads -> {"init", "reload"}]
    /\ value \in [Threads -> Documents]
    /\ read \in [Threads -> [LayerNames -> Layer]]

TypeOK ==
    /\ CellTypeOK /\ SourceTypeOK /\ ThreadTypeOK
    /\ changes \in Nat /\ calls \in Nat /\ crashes \in Nat

Init ==
    /\ layers = [l \in LayerNames |-> Quiet]
    /\ disk = [mode |-> "absent", doc |-> Nothing]
    /\ builder \in Deployments
    /\ serving = Nothing /\ reason = "none" /\ configured = FALSE
    /\ pc = [t \in Threads |-> "idle"]
    /\ op = [t \in Threads |-> "init"]
    /\ value = [t \in Threads |-> Nothing]
    /\ read = [t \in Threads |-> layers]
    /\ changes = 0 /\ calls = 0 /\ crashes = 0
    /\ worked = {}

-----------------------------------------------------------------------------
(* What a load computes.                                                    *)

\* Mutant: figment's join, where what came first stays.
Join(a, b) ==
    [k \in DOMAIN a \union DOMAIN b |-> IF k \in DOMAIN a THEN a[k] ELSE b[k]]

\* figment's merge: the later document displaces the earlier one key by key.
Merge(a, b) ==
    [k \in DOMAIN a \union DOMAIN b |-> IF k \in DOMAIN b THEN b[k] ELSE a[k]]

\* The document of a base and the first n layers of an order over it.
MergedOver(base, order, content) ==
    LET upTo[n \in 0..Len(order)] ==
            IF n = 0 THEN base
            ELSE Merge(upTo[n - 1], content[order[n]].doc)
    IN  upTo[Len(order)]

Readable(order, content) == \A i \in 1..Len(order) : content[order[i]].ok

Build(content) == MergedOver(Nothing, LAYERS, content)

\* Deserializes, and is accepted by validate.
Valid(config) ==
    /\ Required \subseteq DOMAIN config
    /\ \A k \in DOMAIN config : config[k] \notin Refused

\* The layers that recover() really lays over the cache.  Flags and overrides
\* are merged there too, but under the profile spec.key instead of
\* section_profile(spec.key), which is the one selected.
RECOVERED == <<".env", "environment", "binding">>

Recovered(cached, content) == MergedOver(cached, RECOVERED, content)

Goto(t, where) == pc' = [pc EXCEPT ![t] = where]

-----------------------------------------------------------------------------
(* The environment of the process.                                          *)

Change(l) ==
    /\ changes < MaxChanges /\ changes' = changes + 1
    /\ \E content \in Choices[l] : layers' = [layers EXCEPT ![l] = content]
    /\ UNCHANGED <<disk, builder, cellVars, threadVars, calls, crashes, worked>>

\* The process dies and is started again, perhaps as another deployment.
Restart ==
    /\ crashes < MaxCrashes /\ crashes' = crashes + 1
    /\ builder' \in Deployments
    /\ layers' = [l \in LayerNames |-> IF l \in InMemory THEN Quiet ELSE layers[l]]
    /\ serving' = Nothing /\ reason' = "none" /\ configured' = FALSE
    /\ pc' = [t \in Threads |-> "idle"]
    /\ UNCHANGED <<disk, op, value, read, changes, calls, worked>>

-----------------------------------------------------------------------------
(* init and reload.                                                         *)

\* Whether a cache of the configured mode may be written at all.
MayRedact == builder.mode \in {"none", "Full"} \/ builder.declared

Call(t, what) ==
    /\ pc[t] = "idle" /\ calls < MaxCalls
    /\ calls' = calls + 1
    /\ Goto(t, "load")
    /\ op' = [op EXCEPT ![t] = what]
    /\ UNCHANGED <<layers, disk, builder, cellVars, value, read, changes,
                   crashes, worked>>

\* check_cache_mode comes first: otherwise init is an error, and no step.
CallInit(t) == MayRedact /\ Call(t, "init")

\* reload_with, and the watch thread's own copy of it.
CallReload(t) == Call(t, "reload")

LoadOk(t) ==
    /\ pc[t] = "load"
    /\ Readable(LAYERS, layers) /\ Valid(Build(layers))
    /\ value' = [value EXCEPT ![t] = Build(layers)]
    /\ read' = [read EXCEPT ![t] = layers]
    /\ Goto(t, "install")
    /\ UNCHANGED <<layers, disk, builder, cellVars, op, bounds, worked>>

\* A failed init goes on to recover; a failed reload only counts itself.
LoadFails(t) ==
    /\ pc[t] = "load"
    /\ ~(Readable(LAYERS, layers) /\ Valid(Build(layers)))
    /\ Goto(t, IF op[t] = "init" THEN "recover" ELSE "idle")
    /\ UNCHANGED <<layers, disk, builder, cellVars, op, value, read, bounds,
                   worked>>

Install(t) ==
    /\ pc[t] = "install"
    /\ serving' = value[t]
    /\ reason' = IF op[t] = "init" THEN "Initial" ELSE "Reload"
    /\ worked' = worked \union {value[t]}
    /\ Goto(t, "snapshot")
    /\ UNCHANGED <<layers, disk, builder, configured, op, value, read, bounds>>

\* register(self) runs when init has installed, after the cache was written.
Finish(t) ==
    /\ Goto(t, "idle")
    /\ configured' = (configured \/ op[t] = "init")

\* Mutant: the cache is written in the mode asked for, declared or not.
MayWriteUnchecked == builder.mode # "none"

\* write_cache repeats check_cache_mode's refusal for every path that writes.
MayWrite == builder.mode # "none" /\ MayRedact

NotCached(t) ==
    /\ pc[t] = "snapshot"
    /\ ~MayWrite \/ ~Readable(LAYERS, layers)
    /\ Finish(t)
    /\ UNCHANGED <<layers, disk, builder, serving, reason, op, value, read,
                   bounds, worked>>

\* The document for the cache is resolved again from the sources.
Snapshot(t) ==
    /\ pc[t] = "snapshot"
    /\ MayWrite /\ Readable(LAYERS, layers)
    /\ value' = [value EXCEPT ![t] = Build(layers)]
    /\ Goto(t, "write")
    /\ UNCHANGED <<layers, disk, builder, cellVars, op, read, bounds, worked>>

Without(doc, secrets) == [k \in DOMAIN doc \ secrets |-> doc[k]]

\* What cache::write puts on disk.  With no declaration the list of secrets
\* is empty (unwrap_or_default).
CacheDocument(doc) ==
    CASE builder.mode = "Redacted" ->
            Without(doc, IF builder.declared THEN Secrets ELSE {})
      [] builder.mode = "Fingerprint" -> Nothing
      [] OTHER -> doc

WriteCache(t) ==
    /\ pc[t] = "write"
    /\ \/ disk' = [mode |-> builder.mode, doc |-> CacheDocument(value[t])]
       \/ UNCHANGED disk                  \* logged: a worse tomorrow
    /\ Finish(t)
    /\ UNCHANGED <<layers, builder, serving, reason, op, value, read, bounds,
                   worked>>

-----------------------------------------------------------------------------
(* Recovery, reached only from a failed init.                               *)

\* The configured mode decides, not the file on disk.
MayRecover ==
    /\ builder.mode \in {"Full", "Redacted"}
    /\ disk.mode \in {"Full", "Redacted"}

\* Mutant: a configuration that worked yesterday is not validated again.
AcceptsUnchecked(config) == Required \subseteq DOMAIN config

\* loader::recover deserializes, and install() runs validate on the result.
Accepts(config) == Valid(config)

RecoverOk(t) ==
    /\ pc[t] = "recover"
    /\ MayRecover /\ Readable(RECOVERED, layers)
    /\ Accepts(Recovered(disk.doc, layers))
    /\ value' = [value EXCEPT ![t] = Recovered(disk.doc, layers)]
    /\ read' = [read EXCEPT ![t] = layers]
    /\ Goto(t, "restore")
    /\ UNCHANGED <<layers, disk, builder, cellVars, op, bounds, worked>>

\* Nothing to recover from, a mode that does not, a layer or a result that
\* fails; or a cache file that cannot be read, whatever it holds.
RecoverFails(t) ==
    /\ pc[t] = "recover"
    /\ Goto(t, "idle")
    /\ UNCHANGED <<layers, disk, builder, cellVars, op, value, read, bounds,
                   worked>>

\* Installed with its own reason, and nothing is written to the cache.
InstallRecovered(t) ==
    /\ pc[t] = "restore"
    /\ serving' = value[t] /\ reason' = "Recovered"
    /\ worked' = worked \union {value[t]}
    /\ Finish(t)
    /\ UNCHANGED <<layers, disk, builder, op, value, read, bounds>>

ThreadNext(t) ==
    \/ CallInit(t) \/ CallReload(t) \/ LoadOk(t) \/ LoadFails(t) \/ Install(t)
    \/ NotCached(t) \/ Snapshot(t) \/ WriteCache(t) \/ RecoverOk(t)
    \/ RecoverFails(t) \/ InstallRecovered(t)

Next ==
    \/ \E l \in LayerNames : Change(l)
    \/ Restart
    \/ \E t \in Threads : ThreadNext(t)

Spec == Init /\ [][Next]_vars

-----------------------------------------------------------------------------
(* Properties.                                                              *)

\* Nothing that does not deserialize and pass validate is ever served, even
\* though the cache can hold a document that was never validated
\* (load, and the check that install repeats on a recovered value).
ServingIsValid == reason # "none" => Valid(serving)

\* A file marked redacted holds no declared secret and one marked fingerprint
\* holds no value, on every path that writes it (check_cache_mode guards init
\* only, write_cache guards every path).
MarkedCacheIsRedacted ==
    /\ disk.mode = "Redacted" => DOMAIN disk.doc \intersect Secrets = {}
    /\ disk.mode = "Fingerprint" => disk.doc = Nothing

\* A deployment in fingerprint mode, or without a cache, never starts from
\* one, not even from a full cache an earlier deployment left behind.
OnlyARecoveringModeRecovers ==
    reason = "Recovered" => builder.mode \in {"Full", "Redacted"}

\* What a load is about to install has, key by key, the value of the last
\* layer of LAYERS that sets it; so a runtime override always wins.
LoadsRespectPrecedence ==
    \A t \in Threads : pc[t] = "install" =>
        \A i \in 1..Len(LAYERS) : \A k \in DOMAIN read[t][LAYERS[i]].doc :
            (\A j \in (i + 1)..Len(LAYERS) : k \notin DOMAIN read[t][LAYERS[j]].doc)
                => value[t][k] = read[t][LAYERS[i]].doc[k]

\* "The environment and the runtime layers are applied over the cache exactly
\* as they would be over the files": a recovered configuration has the value
\* of the runtime override wherever there is one.
RecoveryKeepsOverrides ==
    \A t \in Threads : pc[t] = "restore" =>
        \A k \in DOMAIN read[t]["override"].doc :
            k \in DOMAIN value[t] /\ value[t][k] = read[t]["override"].doc[k]

\* "the last configuration that worked": a full cache holds a configuration
\* that was installed.
CacheHoldsWhatWorked == disk.mode = "Full" => disk.doc \in worked

=============================================================================
