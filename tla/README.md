# dynamic-config in TLA+

`dynamic-config` is a Rust library that keeps typed configuration current while
a program runs. It resolves a type from ten layers (defaults, files, a remote
store, secrets, the environment, flags, overrides), publishes it in a cell that
readers load without a lock, reloads it when a file or a remote store changes,
and starts from a last-known-good cache when the sources are broken. Around the
library are eight store crates, a configuration server with its client, an
embedded variant, and bindings for Python and Node. This directory models the
parts whose correctness depends on order (which of several threads, tasks,
interrupts, round trips or crashes comes first) and the algorithms that decide
what a load resolves to.

Source paths below are relative to the repository's root.

## 1. The system

| Part | Source | State it keeps | Operations |
|---|---|---|---|
| Cell | `dynamic-config/src/cell.rs` | the snapshot, its generation and install time, the reason, the failure streak, the hook list | `store_with`, `record_failure`, `register`/`unregister`, `dispatch`, `load` |
| Change notification | `dynamic-config/src/asynchronous.rs` | a bump counter and the waiting wakers; per handle, the last bump seen | `bump`, `poll_with`, `Changes::new`, `changed` |
| Blocking work off the executor | `dynamic-config/src/asynchronous.rs` (`off_thread`) | a one-shot slot, a waker, an armed guard | fill, take, poll, drop |
| Remote slot | `dynamic-config/src/remote/mod.rs`, `status.rs` | source, document, source generation, clear epoch, status counters | `set`, `clear`, `refresh`, `refresh_async`, `install_if` |
| Remote sink | `dynamic-config/src/remote/sink.rs` | the source generation it was taken under | `apply`, `failed` |
| Lifecycle | `dynamic-config/src/builder/lifecycle.rs`, `configured.rs` | the remembered builder | `init`, recovery, `reload_with`, `prepare`, `write_cache` |
| Cache | `dynamic-config/src/cache.rs` | the cache file with its mode marker | `write`, `read` |
| Loader | `dynamic-config/src/loader/`, `layer.rs`, `bindings.rs`, `aliases.rs`, `dotenv.rs`, `discovery.rs` | the layers, the aliases, the bound variables | merge of the layers, alias pass, recovery merge, `explain` |
| Values and units | `dynamic-config/src/value.rs`, `snapshot.rs`, `units.rs` | none | merge, difference of two snapshots, durations and sizes |
| Group | `dynamic-config/src/group.rs` | a lock, the members' `prepare`s | `reload` |
| Writing files | `dynamic-config/src/write.rs` | directory entries and file contents | `save`, `save_new`, `save_encrypted`, `save_dict` |
| File watcher | `dynamic-config/src/watch/`, `builder/watching.rs` | the set of watched keys, a channel, a debounce window, a thread | `spawn_with`, drop, `detach`, the loop |
| Registry of generic types | `dynamic-config/src/registry.rs` | an append-only table behind an `ArcSwap` | `entry` |
| Embedded cell | `dynamic-config-embedded/src/` | the configuration, a wrapping counter, a fixed number of waker slots | `store`, `bump`, `register`, `changed` |
| Stores | `dynamic-config-{consul,etcd,redis,nats,vault,s3,firestore,git}/src/` | what the watch loop has seen: an index, a revision, a version, a tag | `fetch`, `watch`, the reports of a failing watch |
| Credentials | `dynamic-config-store-core/src/credential.rs` and the stores' `auth.rs` | the held credential and its expiry | `get`, `invalidate`, login, renewal, one retry |
| Documents of several keys | `dynamic-config-store-core/src/documents.rs` | none | `merged`, `agreed_format` |
| TLS material | `dynamic-config-store-core/src/tls.rs` and the stores' `tls.rs` | the client that was built | `with_tls`, the first request |
| Git's working directory | `dynamic-config-git/src/working.rs`, `fetch.rs` | a repository on disk, its marker, its packs | open, mark, fetch, compact, read |
| Configuration server | `dynamic-config-server/src/` | sections, open streams, connections | accept, handshake, `stream`, `document`, reload, drain |
| Admission and client | `dynamic-config-server/src/config/`, `auth.rs`, `tls.rs`, `routes/`, `client/` | the configuration it was started with | validation, authentication, the endpoints, a client's `fetch` |
| Python and Node bindings | `dynamic-config-python/src/`, `dynamic-config-node/src/` | staged validations, the published model, a generation | validate, commit, `load`, `replace` |
| Python stores | `dynamic-config-python-remote/src/` | a client per store, the resolved credential, the exception of a failed fetch | `fetch`, `refresh_remote` |
| Node workers and store watches | `dynamic-config-node/src/`, `dynamic-config-node-remote/src/lib.rs` | calls to the event loop, a watch thread | validate, fetch, `spawn`, `stop` |

How they interact. Every path that changes what a program sees ends in
`store_with` of the cell: `init`, a reload by the program, the watcher's thread,
a remote sink's `apply`, a group's commit. Nothing serialises these paths with
each other; only a group serialises its own reloads. `store_with` wakes the
tasks awaiting a change and then calls the hooks on the storing thread. A load
reads the remote slot under its lock; the round trips that fill the slot hold no
lock. A clean load writes the cache, through `write.rs`; a failed `init` reads it.
A store's watch loop delivers through a sink and reports failures through it.
The server is a program that uses the library: a section is a cell with a file
watcher, and a change stream is told of its generations. The bindings validate
in the host language inside the engine's validation hook and publish from its
reload hook.

What is hard here:

- `store_with` is a sequence of separate atomic operations, and two stores may overlap anywhere in it;
- a waker registered between a check and a bump must not be missed, in three separate implementations (`Notify`, `off_thread`, embedded);
- a round trip or a push begins under one source and ends under another, or after `clear`;
- a reload is a load followed by an install, and what it read may be stale when it installs;
- a process dies, or a machine loses power, between two steps of a write, between an install and its cache, or between making and marking a directory that a later start may empty;
- start, failure, drop and restart of a watch interleave with its thread and with editors;
- a store's watch checks one request and reads another, several keys are read one after the other, streams break and are resumed, tokens expire in the middle;
- several callers find one credential refused at the same time;
- a subscriber's number outlives the process that gave it out, and a stream has no end for a shutdown to wait for;
- the model a program reads is validated before the engine installs and published after, with other threads validating in between;
- layers, aliases, variables and documents meet in one tree, in an order that must not depend on how paths are spelled;
- counters meet their limits: failure streaks, fetch counts, evictions, the embedded counter that wraps, stream places, the arithmetic of units.

`PROJECT.json` lists these as hazards, each at its line with the properties that
would catch it. One is known and has no place in the models, because they do not
let a program's own callback call back: a reload hook that reloads the same group
waits for the lock its own thread holds (`group.rs:137`).

## 2. Modules

| Module | What it models | State and actions against the code |
|---|---|---|
| `ConfigCell` | cell and change notification together | one action per atomic operation or critical section of `store_with` (`GetOrInit`, `Swap`, `PublishMeta`, `PublishReason`, `ResetFailures`, `Bump`, `TakeWaiting`, `Wake`, `Dispatch`, `RunHook`), of `record_failure` (`ReadCount`, `CompareExchange`, `PublishFailure`), of registration, and of `poll_with` (`Check`, `Load`, `RegisterWaker`, `Recheck`, `Reload`) |
| `FencedSlot` | abstract specification of the remote slot | an owner, an epoch and a document: a new owner empties the slot, a new epoch empties it, only the present owner may fill it, and a fetched document only in the epoch it was asked for |
| `Remote` | slot, refreshes, sinks, other reloads | one action per critical section; a round trip is the time between `Capture` and `Commit`; a sink's `apply` is `InstallIf`, `Load`, `Store`, `Recheck`, `LoadAgain`, `Restore` |
| `Lifecycle` | init, reload, cache, layers, restarts | `layers` is what each of the ten layers holds; `LoadOk`, `Install`, `Snapshot`, `WriteCache` are the steps of `install` and `reload_with`; `RecoverOk`, `InstallRecovered` the recovery; `Restart` keeps the disk and loses the memory |
| `AtomicWrite` | file writes | `entry`/`content` is what a process sees, `durable`/`stored` what a power loss leaves; one action per system call, its failure, and process death; `filled` remembers which files `save_new` made |
| `ReloadGroup` | group reload | lock, prepare member by member, commit member by member, release |
| `Watch` | registry, handle, debounce loop | `handle` is how far `spawn_with` and the handle have come, `loop` where the thread is, `queue` the channel, `quiet` and `ceiling` the two deadlines in ticks |
| `OffThread` | `off_thread` | the slot, the waker, the guard and a future that may move between tasks |
| `EmbeddedCell` | the `no_std` cell | one action per critical section; interrupts store between any two |
| `Registry` | first use of generic types | the lock-free look-up and the read-copy-update loop |
| `Trees` | values and snapshots | operators: merge of two trees, overlapping paths, difference, what touches a secret |
| `Resolution` | the loader, aliases, `explain` | `LAYERS` in the code's order, each as a figment that may be poisoned or an error; `apply_aliases` as the code's rounds; actions are the program's calls (`Set`, `unset`, `bind`, `add`) and the edits of files, variables, `.env` entries and secrets; `Walk` and `Compose` are the two reads of `explain` |
| `Units` | durations and sizes | `duration_parse`, `bytes_parse`, `checked`, `duration_serialize` at the width `MaxCount` |
| `StoreWatch` | `fetch` and `watch` of all eight stores | `hist` is the store's life; a source is a store, a shape (one key, a list, a prefix) and what its access can do; one set of actions per crate's loop, request by request, with outages, broken streams, expired tokens, `stop`, `detach` and a callback that turns down |
| `Credential` | `Cached` and the logins behind it | the cell under its lock; callers get, obtain, send, drop and try once more |
| `Documents` | several keys into one document | `Merged`, `Folded`, `Blamed`, `AgreedFormat` as operators |
| `Material` | TLS material | what was given, what is on the disk, the client that was kept, what a request went out with |
| `GitWorking` | Git's directory | packs, repository and marker on disk; open, mark, negotiate, receive, read, compact, with a mishap anywhere |
| `Server` | the server's process | connections from handshake to stream, `open_stream`'s load and compare-exchange, `Generations`, the document fetched under a label, reload, drain, restart |
| `Admission` | who gets what | the refusals of a configuration, authentication, every endpoint's answer, the client's verdict, as operators over every small configuration |
| `Bindings` | publishing in Python (with and without the GIL) and Node | `Stage`, `Install`, the two commit paths, candidates, `Replace` |
| `PythonStores` | a refresh through each Python store | the credential handed in, the client that is kept or rebuilt, S3's slot, Git's lock, the kept exception |
| `EventLoop` | Node's workers and watches | calls to the loop with one channel each and a deadline; a watch's thread, `stop` and its join |

The checked instances are in the `MC` modules. `MCRemote` and `MCConfigCell`
instantiate one module each; `MCLifecycle` (with `AtomicWrite`), `MCPrimitives` (group, watcher,
`off_thread`, embedded cell, registry, event loop), `MCStores`, `MCServer`,
`MCCore` and `MCBindings` hold several components that share no state: a variable `part` or `stage` says which
of them a behaviour is about, and the others stay in an initial state. This checks each component
in all its behaviours; it leaves out only products of independent ones.
In `MCConfigCell` the parts are hooks, failures and tasks, each beside the same
stores; they share no state but the stores'.

Eight modules hold the proofs, one for each group of components that a run checks together:
`ConfigCellProofs`, `RemoteProofs`, `FilesProofs` (`Lifecycle`, `AtomicWrite`), `PrimitivesProofs` (group,
watcher, registry, `off_thread`, embedded cell, event loop), `StoresProofs` (credentials, TLS material, Git's
directory, watches), `ServerProofs`, `BindingsProofs`, `CoreProofs` (units, differences, empty variables). The operators marked
*Mutant* in the modules are faulty variants of the definition that follows them;
no specification uses them. `PROJECT.json` says which property each one breaks.

Composition: `ConfigCell` composes the cell with its notifier, because what is to
be shown relates the snapshot to the counter. `Remote` composes the slot with its
sinks, and with loads and installs of the cell abstracted to one step each.
`Lifecycle` composes builder, loader and cache; it takes from `AtomicWrite` that
a cache file changes in one step (`TargetIsWhole`). `Watch`
composes the handle, the thread and the reload closure. `StoreWatch` is the
environment that `Remote` has as `Deliver` and `StreamBreaks`: a watch calls back
with documents and reports failures in any order, which is all that `Remote`
assumes. `Server` uses the cell through the order in which `ConfigCell` publishes
value and generation.

Abstractions that hold for all modules:

- Atomics interleave sequentially. The cell uses acquire/release and sequentially
  consistent operations, and `ArcSwap`; reorderings that the Rust memory model
  allows beyond an interleaving of these steps are not modelled.
- A load reads all its layers in one step, except that `Watch` splits it from the
  install and lets an editor's torn file be read, `ReloadGroup` gives each
  member its own read, and `Resolution` splits `explain` into its two.
- `u64` generations and epochs are naturals, since no run can reach their limit.
  The failure and fetch counters saturate at `CounterMax`; the embedded `u32` is
  a counter modulo `Modulus`; `Units` computes at the width `MaxCount`.
- Values are leaves of a tree with the provider they came from; texts are parsed or not.
- A hook does not store from inside its callback. `cell.rs` documents that this recurses.

## 3. Runs

Each run has a `.cfg` of its own; `tlc -config X.cfg MCModule` repeats it.

| Run | Config, module | Question |
|---|---|---|
| `cell` | `Cell`, `MCConfigCell` | two overlapping stores beside hooks, failure reports or an awaiting task |
| `remote` | `Remote`, `MCRemote` | round trips and deliveries in flight across `set` and `clear` |
| `files` | `Files`, `MCLifecycle` | init, reload and recovery across restarts; writes across deaths and power loss |
| `primitives` | `Primitives`, `MCPrimitives` | group, watcher, `off_thread`, embedded cell, registry, Node's event loop |
| `stores` | `Stores`, `MCStores` | watches of every store over every shape of source, credentials, key order, TLS material, Git's directory |
| `server` | `Server`, `MCServer` | streams, documents, restart and drain; every configuration asked by every caller |
| `core` | `Core`, `MCCore` | what a load resolves to, what `explain` and a difference say, what a unit means |
| `bindings` | `Bindings`, `MCBindings` | publishing under each runtime; refreshes through each Python store |
| `lifecycle_overrides`, `etcd_resume`, `server_resume`, `alias_chain` | `LifecycleOverrides`, `EtcdResume`, `ServerResume`, `AliasChain` | violations: see section 6 |

What the passing runs show:

- `cell`. `HookCallsAreTrue`: every (previous, current) pair a hook sees is one link of
  the chain of served values, and its generation names the install.
  `RegisteredHooksTold`: a hook registered throughout a store is told, also past a hook
  that panics. `FailuresCounted`: racing failure reports and installs lose no failure and
  do not wrap. `TasksFollowChanges`: no wake-up is lost between check and registration, a
  consumed move has a value, and a task that has seen every bump holds the serving snapshot
  unless a store is between swap and bump. `ParkedTaskHearsOfChange` (liveness): a
  parked task behind a change is polled past it.
- `remote`. `ImplementsFencedSlot`: the slot implements `FencedSlot`, so it never holds a document of a
  replaced source nor one fetched before a clear. `StatusBelongsToSource`: its status
  reports only on the present source. `LateDeliveryIsUndone`: a delivery that installed a
  replaced source's document reloads again before it returns.
- `files`. `ServingIsValid`: only what deserializes and validates is served, across crashes
  and recoveries. `MarkedCacheIsRedacted`: a cache file withholds what its mark says, on
  every path. `LoadsRespectPrecedence`: in a load the last layer that sets a key wins it (it says
  nothing of the merge a recovery does, which is `RecoveryKeepsOverrides`, section 6).
  `TargetIsWhole`: under the target's name there is a whole document or nothing, to a reader and
  after a power loss (files that `save_new` fills in place are exempt). `OwnFilesOnly`: nobody
  removes or replaces another's file (one documented race is exempt, section 6).
- `primitives`. `GroupIsAtomic`: with no reload running all members serve what one reload
  installed, and a failed reload installs nothing. `WatchIsExact`: one watcher per key and no key leaked by
  a failed start; a watch at rest has read the last edit; a storm delays a reload by the
  ceiling at most and a neighbour not at all. `OneSlotPerKey`: one slot per type, for
  everybody and for good. `AnswersAreRight`: the task that polled a future last is the one that is
  woken, a future is answered once, and an embedded task that has caught up holds the
  latest configuration. `LoopAnswersAreRight`: a worker uses only the answer to its own call, and a
  watch whose `stop()` was waited for delivers nothing more. `EveryWaitEnds` (liveness):
  an edit is read, a future resolves also when its work panics or never runs, a store on a
  device is heard with more tasks than slots and at the counter's wrap, a lost swap of the registry is
  retried and returns, a worker does not wait for a loop that has gone, a `stop()`
  resolves. `ComesToRest` (liveness): within the slots, the embedded executor idles.
- `stores`. `DeliveriesAreExact`: what a watch hands over is a state the store held at one
  moment, and a newer one each time. `FreshOrSaid` (liveness): once the writes are over the
  program has the latest document, or the store was reported as failing, or the watch was
  refused or stopped. What the program has is what it fetched, until the watch delivers, and the property
  names the case the code leaves open: what was written after the fetch and before the watch's
  first answer (or a stream's subscription), with no write after it, never reaches the program and is reported to
  nobody (`WrittenBeforeTheView`, and `FirstAnswerIsTheCallers` in section 6). `StoppedWatchFallsSilent`: at most one callback after a stop.
  `LossIsRepairedOnce`: the second attempt of a call presents a newer credential, and callers
  that find it gone together log in once. `OrderDecidesOnlyInLists`: the order a store lists
  a prefix in decides nothing, and in a named list the last key wins every leaf.
  `MaterialUsedOrRefused`: a request with TLS trusts the CA and presents the certificate that were
  given. One without TLS goes to an address that asks for none; with material beside such an address
  redis and git refuse and nats speaks TLS all the same, but consul, vault, firestore and s3, which do not look
  at the scheme, and etcd, if its client library lets it pass, send without it (`MaterialIsNeverIgnored`, section 6).
  `CacheIsKept`: a repository that is the program's own is never emptied, one
  of ours stays within its bounds, and a read loads at most `max_bytes`, all its files together.
- `server`. `CeilingHolds`: the ceiling on streams holds and every place comes back.
  `LabelNeverLeads`: no document travels under a later number than its own.
  `SubscribersCatchUp` (liveness): a subscriber that stays connected ends up with what is served, through coalesced
  installs, lost connections and restarts. `ShutdownEnds` (liveness): a drain ends.
  `AnswersFollowGrants`: with any configuration the server starts with, a header means at
  most one client, a client gets what it was granted, and what it was not granted answers
  like what nobody serves. A header of another scheme or with an unknown token means nobody; one that is no text is dropped before it
  is authenticated and counts as none (`UnusableMeansNobody`, section 6).
- `core`. `AliasesOnlyFillGaps` (the aliases stay a set of chains; what a layer above the defaults supplies is left alone, and a chain
  carries a value along whatever the spelling of its paths), `EmptyIsUnset` (an empty variable neither erases nor hides),
  `ExplainedIsLoaded` (the winner of `explain` is what a load returns), `DiffIsExact`
  (every change is named once, with its inverse, and a secret's change is noticed),
  `UnitsAreExact` (a text means exactly what it says or is refused, at every boundary, and
  is read back).
- `bindings`. `PublishingIsExact`: the program reads models of installed trees only, sees no
  validation twice, a caller is answered with its own tree's model, and in Python no install stays unread but
  a watcher's first (`InstallsAreBumped`, section 6).
  `FetchPresentsItsOwn`: a fetch presents the credential it was handed, and its error hides
  it. `KeptExceptionIsLive`: no refresh is handed the exception of one that is over.

Deadlock is not checked in any run: the environment (edits, calls, stores) is
bounded, so every run ends in states with nothing left to do. What must not stop
is stated as a liveness property instead.

### Bounds, and why they suffice

- `cell`: two writers, two owners (one per callback form: the pair, and the
  event), two installs, two reporters, three failures, counters saturating at 2, one task.
  All races in the cell are between two stores or a store and one other actor; the
  second install is the first with a predecessor, the third failure the first
  beyond the limit. Tasks do not affect each other's registration, and `TasksFollowChanges` is
  proved for any number.
- `remote`: two fetchers, two sinks, one other reloader, two `set`s and one
  `clear`, three calls: enough for every pair of round trip and delivery to
  straddle a replacement and a clear, and for a counter to saturate.
- `files`: a plain and a secret key, a file that is good, refused by `validate`
  or unreadable, an environment and an override that set the same keys; three
  changes, three calls on two threads, one restart into any deployment.
  One restart suffices because everything but the cache and the files is lost in it.
  Two writers with two temporary names, so that names collide, and two calls of either kind,
  with death and power loss at every step; the two properties are proved for any number.
- `primitives`: three members of a group (a first, a middle, a last), two threads, two versions, three reloads;
  two calls of `spawn_with` for one key, so that a stopped watch overlaps
  its successor, a quiet period of two ticks, so that an event can fall inside it,
  `Deferral` 2 instead of the code's 4, since what matters is that the ceiling is
  reached while events still arrive, two edits and one foreign event; a future that moves twice
  (three tasks); two embedded tasks on one slot, so that they evict each other, a counter modulo 2 and
  two stores, so that it wraps; two users and two keys of the registry; two workers and two calls, so that a
  late answer meets a second call; two `stop()`s.
- `stores`: two keys (a list or prefix that can be read half), two writes, two
  faults, so that a fault can follow a recovery; `MOST_TOKEN_RECOVERIES` 1 instead of 3; two
  callers of a credential; documents of up to two leaves in every
  overlap, three at a time; PEM files written once after the start; three commits and one mishap
  with `compact_after` 1.
- `server`: two peers on a ceiling of one; at most three edits and present peers
  together; two lives and one loss. Two sections, two clients, two tokens and every
  combination of them for `Admission`, with and without a header that is no text.
- `core`: every sequence of up to three calls and edits, on paths that nest, cross into another section and sort in
  both orders; every pair of trees over four paths; every text of up to two
  components with numbers at the boundaries of a count of 20000 (no terabytes: their factor is beyond TLC's integers, not beyond the proofs).
- `bindings`: two callers and the watcher, three calls, one edit that may be refused; two refreshing
  threads, three refreshes, two rotations of the keys, for every store and every kind of credential; a module holds one store, so replacing a source by one of another store is not covered.

### Fairness

- `cell`: weak fairness of every step of a store once begun (a thread that
  is running keeps running; no step waits for another thread except for a short
  critical section), of a poll that was asked for by a wake-up (the contract of an
  executor) and of each step of a poll. No fairness of starting a store or a handle.
- `primitives`, each for the part that runs. Watch: the thread's loop and the clock. The clock ticks only
  while no watcher thread has something to do, so the bounds are about what the loop
  waits for by choice and not about scheduling. No fairness of the editor.
  `off_thread`: the pool runs or drops the closure in the end (spawning a thread
  that cannot be spawned drops it), and the executor polls what was woken.
  Embedded: a store that has replaced the value goes on to bump and wake, and the
  executor polls what was woken. Registry: threads keep running; a swap is lost only
  to a swap that was won, and the number of keys bounds those. Event loop: a wait ends by its time limit, a blocking
  request ends by the store's, the flag is polled while a future waits, a join
  returns. A loop that answers is not assumed, nor a store's future that ends.
- `stores`: the watch's thread or task takes its next step when it has one. No fairness of the store: an
  outage may last, which is what `FreshOrSaid` makes the loop report.
- `server`: the runtime's timers fire and its tasks run; a client that was told of an
  event reads it and fetches. Nothing makes a peer connect, finish a handshake or ask.

## 4. Theorems

Proved with TLAPS for every number of threads, tasks, writers, members, watches, stores, clients
and every value of the bounds. `PROJECT.json` lists them with the properties of the runs they state.

### Assumptions

Nothing is assumed beyond the named `ASSUME`s of the modules, which TLC evaluates in the runs. They say that
bounds are naturals, that marker values (`Nobody`, `Free`, `NoFile`, `NobodysName`, the runtimes' names)
lie outside the sets they mark, that there is at least one member in a group, and what the inputs are:

- `GitAssumption`: a tree of a commit is a finite list of entries, each with a kind and a size in bytes;
- `TextsAssumption`: what a key holds does not parse, or is a tree whose leaves do not lie inside one another;
- `UnitsAssumption`: a text is a finite list of components, each with a number;
- `ResolutionAssumption`: the paths a call may name are listed once each, and there is one variable name for one path. `prefixed` and `__` make a variable's name
  out of the path, so two names of one path do not occur in the code (`environment.rs`);
- `CredentialAssumption`: the mark of a free lock is no caller.

### The cell and the remote slot

`ConfigCellProofs`. `TypeCorrect` comes first and is used by all others.
`NoLostWakeupCorrect` needs to know where the waker of a parked task can be: still
in the list, or in the hands of a writer that has taken the list and not yet woken
it (`WakeInv`). `ConsumedMoveHasValueCorrect` needs that every bump comes after the
initialisation of the cell (`ValueInv`). `CaughtUpIsFreshCorrect` rests on `FreshInv`:
a task that is settled at the present count and holds another snapshot than the serving one
implies a store between its swap and its bump. Together they are `TasksFollowChangesCorrect`.
`PairsAreLinksCorrect` carries a history of served values, in
which each writer's (previous, own) is a link at its place (`LinkInv`);
`GenerationNamesInstallCorrect` that no two stamped stores share a generation or a
snapshot (`GenerationInv`); the two are `HookCallsAreTrueCorrect`. `FailuresCountedCorrect` needs that a compare-exchange succeeds only
from the count that was read (`FailureInv`). `RegisteredHooksToldCorrect` needs `DispatchInv`: tokens are
never reused, and a hook that was registered when a store began its dispatch and still is, has been called by it or is among
those it has yet to call; registering and dropping hooks keeps that whichever place of the list they touch.

`RemoteProofs`. `DocumentBelongsToSourceCorrect` and `ClearedStaysClearedCorrect` follow
from `FenceInv`: a delivery is stamped with its sink's generation, and the slot's document
with the present source and, if it was fetched, the present epoch.
`FencedSlotImplemented` is the refinement: initial states map to initial states, and
under `FenceInv` every step of `Remote` is a step of `FencedSlot` or leaves the slot alone. `StatusBelongsToSourceCorrect`
adds what a fetcher between answer and record, or a sink between report and count, knows
about its source. `LateDeliveryIsUndoneCorrect` adds that no sink is ahead of the slot and
that a load never reads a document older than its sink.

### Files

`FilesProofs`, on `Lifecycle`. `LifeInv` says that whatever a thread is about to install has been
validated, and that a thread about to write or to recover is one whose deployment may,
across restarts. It leaves open what a merge computes. From it `ServingIsValidCorrect`,
`MarkedCacheIsRedactedCorrect`, `OnlyARecoveringModeRecoversCorrect`.
`LastLayerWins` is about the merge, a recursive function over the layers: for any number of layers and any order,
the last one that sets a key wins it. With `PendingIsBuilt` (a configuration between load and install is the merge of
the layers it was read from; one that was recovered is not covered) it gives `LoadsRespectPrecedenceCorrect`. `TypeCorrect` is the type invariant.

`FilesProofs`, on `AtomicWrite`, for `save` and `save_new` mixed in any way. `WriteInv`: a writer
holds its temporary name from create
to rename or removal, no two calls share a file, a file of a save in the making is not under the
target's name in memory or on disk, what is renamed is whole on the disk, and the files
of `save_new` are the ones in `filled`. From it `TargetWholeCorrect` and `OwnFilesOnlyCorrect`.

### Primitives

`PrimitivesProofs`. Each component is proved by itself and then carried to the suite of `MCPrimitives`,
whose steps are steps of one component and leave the others alone.

- Group, `GroupInv`: who is not idle holds the lock, batches are numbered in
  order, a preparing reload has installed nothing, a committing one has installed exactly
  the members before its position. From it `MembersMoveTogetherCorrect` and
  `FailureMovesNothingCorrect`, together `GroupIsAtomicCorrect`.
- Watcher, `WatchInv`, whose heart is `EditPending`: from the moment the directories
  are watched, an edit the watch has not read has an event in the channel or an open
  window behind it; `WindowTimed` adds that ticks waited and ticks left make up the period.
  From it `OneWatchPerKeyCorrect`, `NoEditMissedCorrect` and `WindowsClose`, together
  `WatchIsExactCorrect`, for any quiet period and any `Deferral`.
- Registry, `TableInv`: a slot that a call has allocated and not yet inserted is in no table and no other call's, no two keys share a slot, and
  as long as the stamp has not moved a thread's copy is the table, or the table with its key in it. From it `OneSlotPerKeyCorrect`.
- `off_thread`, `OffThreadInv`: the guard is armed until the work has answered and what is in the slot is that answer; a future that has not resolved finds
  what was filled; the task that polled last is the one whose waker is left, taken or woken.
- Embedded cell, `EmbeddedInv`: the wrapped counters follow histories that do not wrap, a task that has registered is in a slot or
  about to be woken, one that parked on an old generation is about to be woken, and the slots fill in order, each with another task. `EmbeddedCorrect`, and with `OffThreadCorrect` the
  suite's `AnswersAreRightCorrect`, for any width of the counter.
- Event loop, `LoopInv`: every call has a number of its own, an answer that carries a call's number is no older than the call, and
  a `stop()` that was waited for is final. From it `LoopAnswersAreRightCorrect`.

### Stores

`StoresProofs`.

- Credentials, `CredentialInv`: the lock is held by the caller that obtains, and only for want of a fresh credential; a caller that tries again no longer finds in the cell
  what it was refused with (`RefusedIsGone`); every credential
  issued but a fresh one in the cell was lost to age or to a refusal (`LossesPayForLogins`). From it `LossIsRepairedOnceCorrect`.
- Documents of several keys, no state but the texts: `OrderDecidesOnlyInListsHolds`, for any number of keys. What documents that do not clash have together
  is one tree (`UnionIsUnique`), and folding them makes it, in whatever order (`FoldOfAPrefix`); a clash with the fold is a clash with one of them
  (`UnionClashes`), so the refusal does not depend on the order either. `LastWinsInAFold` is the law of a list, `AgreedFormatIs` says what the names agree on, `SomeoneIsBlamed`
  that the key a refusal names exists.
- TLS material, `MaterialInv`: a client that was kept, and one that spoke, was made of what was given; its lemma `ClientOrRefusal` says that a
  crate makes such a client or none, and `GoesWithTheAddress` that a client that leaves material out is one of a crate and an address the property names. From it `MaterialUsedOrRefusedCorrect`.
- Git's directory. `LoadedIsBounded` is about `read_documents`, a recursive function over a tree's entries that takes each file off one budget: together they never come to more than
  `max_bytes`. `GitInv`: a directory of the program's own is unmarked and never on its way to be emptied or marked (`ForeignIsUnmarked`); one of ours
  is marked but while it is emptied or made, and a transfer is added only to what `compact` left within the bound (`OwnIsBounded`, which exempts a directory that a mishap cut short,
  as the property does). Together `CacheIsKeptCorrect`.
- Watches, `WatchedInv`, for all eight stores at once. `ComparesWithTheLatest`: as long as the program has the latest revision, or has it on its way,
  a polling loop compares with that. `StreamIsAhead`: a stream, and the place it resumes from, is past what was delivered. `LastCallIsLast`: the last call after a stop
  leaves the loop where it looks at the flag. From it
  `StoppedWatchFallsSilentCorrect` and `DeliveriesAreExactCorrect`.

### Server

`ServerProofs`. `ServerInv` has `PlacesAreCounted` (the counter is the number of open streams and within the ceiling), `CellLeads` (no generation is of a document newer than the one in the cell)
and `LabelsAreGenerations` (a label is a generation of this life, and a document fetched under one is no older). From it `CeilingHoldsCorrect` and `LabelNeverLeadsCorrect`. The rest is about operators:
what a validated configuration is, when two clients could be taken for one another, and who a header means once the handlers have dropped it if it is no text; from it
`AnswersFollowGrantsCorrect`, for every roster, token and section.

### Bindings

`BindingsProofs`. `BindingsInv` counts claims: publications, those under way included, are at most the claims and the replacements (`ClaimsAreCounted`); under the GIL a staged model that
was claimed is what the program reads, or it was replaced (`ClaimedIsRead`); only what was installed is on its way to be published (`OnItsWay`). In Python a claim has been read or is about to be, and from
the second install on somebody is on the way to publish if nothing has been (`ReadOrOnItsWay`). From them `PublishingIsExactCorrect`, carried to the suite as `SuitePublishingIsExact`.
`PythonInv` says at each step of a refresh what the client holds, whose credential that is and who holds Git's lock; it gives
`FetchPresentsItsOwnCorrect` and `KeptExceptionIsLiveCorrect`.

### What a load resolves to

`CoreProofs`.

- `UnitsExact`: any text of any length is refused, or is the sum of what its components stand for, at any width. `ComponentIsExact` does one
  component, `ParseIsMeant` the sum.
- `DiffExact`: for any two trees, of any names and depth, what differs is named once, at, inside or above a change, and nothing else; the
  other way round it is named with its inverse. `MovedIsTouched` finds the change of a leaf that moved: the first place on
  its path that is not a table on both sides, or the first step beyond a path that ends in an empty table; `ChangesApart` says that nothing lies below a change.
- `EmptyIsUnsetCorrect`: bound, prefixed and `.env` variables are read, layer by layer, as if the empty ones were not there, after any calls and edits.
- `ExplainedIsLoadedCorrect`. `TogetherAt`: what a load composes at a path is what the last layer with the path says of it, and it is there unless a leaf
  above or inside it displaces it. `PassLeaves` says the same of the alias pass. Together (`SaidIsLoaded`) they compare the row of `explain` with what the load finds there.
  `ExplainInv` carries the first read of an explanation to its second: as long as nothing was changed since, its rows are those of the layers as they are (`LayersFollowSources`).
- `AliasesOnlyFillGapsCorrect`. `Chained`: a rank falls along every alias. `add` keeps that (`AddChains`), because its walk meets everything the aliases lead to: it cannot
  take more steps than there are aliases, by the pigeonhole principle (`LeadsClosed`). `Filled` is the invariant of the pass: what has been filled was a gap, and holds what the
  path before it in the chain holds; the rest is as it was. `PassFills`: a round that fills nothing ends the pass, and one that does fills a new path of at most as
  many as there are aliases; so the rounds the model takes, one an alias, are always enough to leave nothing undone, as the code's loop does.

### Recursive functions

Induction over data is done without the library's induction theorems, whose operator parameter the provers cannot instantiate.
`NatInductionOnSet` speaks of a set of numbers, and follows from the smallest number outside it (`SmallestNat`, from the well-foundedness of `<`).
`RecursionExists`, `RunExists`, `MergeIsRecursive`, `FoldIsRecursive` and `AgreedIsRecursive` say that a function defined by recursion over 1..n exists; what it computes is then proved by that induction.

## 5. Only model-checked

- All liveness properties: the prover does not do fairness.
- The four violations of section 6, and the statements in the table there.
- The instances of `SmallTrees` and `MCUnitTexts` are only samples of what `DiffExact` and `UnitsExact` are proved for.

## 6. Disagreements between code and documentation

Four runs are expected to find a violation; `PROJECT.json` quotes the sentences they refute.

- `lifecycle_overrides` refutes `RecoveryKeepsOverrides`. `recover.rs` merges flags and
  overrides under the profile `spec.key` and then selects `section_profile(spec.key)`, so
  neither applies to a recovered configuration. In the
  counterexample the program starts, writes its cache, dies, finds its file unreadable,
  sets an override, and `init` recovers without it.
- `etcd_resume` refutes `ResumedStreamLostNothing`. A watch whose stream breaks before its
  first event has no revision to resume from, and opens at the store's present; a write
  in between is announced by nothing and, since the recovery worked, reported by nothing.
- `server_resume` refutes `SilentOpeningIsCurrent`. Generations count the installs of one
  process; a subscriber that resumes after a restart with the number the new process
  happens to be at is taken for up to date, and waits with the old document.
- `alias_chain` refutes `ChainsIgnoreTheAlphabet`. In a chain whose middle has a default the end is filled from the
  default or from the first spelling, depending on which alias comes first in the map.

The models hold more statements that documents of the repository make and the
code does not keep. They are defined in the modules and not among the runs; each is
reproduced by the configuration named here, or by one with the values given here and the definition as its INVARIANT (or PROPERTY).

| Definition | Instance | What happens |
|---|---|---|
| `ConfigCell!StatusDescribesServing` | two writers, two installs, nothing else | two overlapping stores end with the snapshot of one and the install time or reason of the other, against `reload.rs:211-214`, until the next install |
| `ConfigCell!FirstInstallHasNoPrevious` | two writers, one event owner, two installs | on a cold cell each racing store swaps out the other's value, so no event has `previous: None`, against `cell.rs:185-187` |
| `ConfigCell!ChangesDeliverOnlyNew` (PROPERTY), `EmbeddedCell!CurrentCountsAsSeen` (PROPERTY) | one writer, one task, two installs | a handle made between swap and bump is handed the snapshot that was current when it was made, against `cell.rs:618-619` and the embedded `asynchronous.rs:180-181` |
| `Remote!RefusedDeliveryDoesNotServe`, `Remote!ReplacementHasLastWord` | one or two sinks, one `set`, one or two calls | the second reload of `apply` may fail, and is ignored, or may overtake the reload of the replacement's own delivery, against `sink.rs:136-146` |
| `Lifecycle!CacheHoldsWhatWorked` | one thread, two changes of the file, `Full` | the cache is written from a second read of the sources, after the install, so it can hold what was never validated, against `cache.rs:1`; a recovery validates again, which is why `ServingIsValid` holds all the same |
| `ReloadGroup!MembersServeOneVersion` | one thread, two members, one edit | an edit between two prepares leaves the group on two versions, against `group.rs:3-9` |
| `Watch!WatchedFileIsServed` | two watches, `Debounce = 1`, two edits | the thread of a dropped watch is not joined: it may install a stale read over its successor's, against `handle.rs:102-104` |
| `Resolution!AliasRowNamesItsSupplier` | `Core.cfg` | `explain` finds the filling alias by declaration order and not by what was supplied, against `aliases.rs:91-92` |
| `StoreWatch!FirstAnswerIsTheCallers` | `WatchBaseline.cfg`, `MCStores` | five watch loops remember their first answer and report nothing of it, since it "is the one the caller already has"; what was written between the caller's fetch and that answer is neither delivered nor reported, against `dynamic-config-vault/src/lib.rs:647` (Consul's `lib.rs:683`, S3's `lib.rs:771`, Firestore's `lib.rs:566`, Git's `lib.rs:582`) |
| `GitWorking!LimitIsPerFile` (PROPERTY) | `GitLimit.cfg`, `MCStores` | `read_blob` takes every file off one budget and refuses the one that is over what is left (`fetch.rs:480`), against "the largest single file", "per file rather than per document" in `dynamic-config-git/src/lib.rs:972-978`; `fetch.rs:379-391` says what the code does |
| `Material!MaterialIsNeverIgnored` | `PlainAddress.cfg`, `MCStores` | beside an `http://` address the clients of Consul, Vault, Firestore and S3 are built with the CA and speak in plain text, against `dynamic-config-store-core/src/tls.rs:27`, by which a silently ignored CA is worse than a program that does not start |
| `Admission!UnusableMeansNobody` | `ServerUnusable.cfg`, `MCServer` | the handlers take the header with `to_str().ok()` (`routes/admit.rs:34-36`, `routes/metrics.rs:56-58`), so one that is no text becomes none and its sender gets what the anonymous client was granted, against `auth.rs:183-188` and `threat-model.md:37` |
| `Bindings!InstallsAreBumped` | `WatchFirst.cfg`, `MCBindings` | a watch may be started before `init` and make the first install, for which the cell fires no hook and which has no caller to publish it: until the next install a Python program reads nothing and `generation` stays, against `config/mod.rs:689` ("bumped once per install") |
| `Bindings!PythonPublishesOnce` | `Bindings.cfg`, Python | when a load stages between validation and commit, both commit paths validate again and one install is published twice, against `inner.rs:177` |

Where the code itself names a limit, the property carries it as an exception and says so in its comment:
`save_new` fills its file in place and cleans up by path (`write.rs:376`); a single Redis key is announced for every event;
an S3 answer without an ETag cannot be told from a change; Git's watch reports no failures; a stream says nothing while its
connection neither works nor breaks; an S3 store shared by two identities signs with the later one's keys (`dynamic-config-python-remote/src/s3.rs:307-311`);
without the GIL Python's second read of the staged model can find another one; a second `stop()` of a Node watch does not wait;
a duration longer than its counter is written as a number that is refused.
Four more exceptions are the ones of the table: `FreshOrSaid` leaves out what was written between a fetch and the watch's first answer,
`MaterialUsedOrRefused` material beside an address without TLS in the crates that do not look at it, `PublishingIsExact` a
watcher's first install, and to `AnswersFollowGrants` a header that is no text is none.

## 7. Running it

```
cd tla
tlc -workers 2 -config Cell.cfg MCConfigCell     # any row of section 3
tlapm ConfigCellProofs.tla                       # any Proofs module
```

The passing runs take between half a minute and three minutes each with two workers; the largest, `cell` and `primitives`, are
the ones with liveness over many parts.

## 8. Plan

1. Done: cell and notifier, remote slot with its abstract specification, lifecycle and
   cache, groups, file writes, watcher, `off_thread`, embedded cell, registry, loader and aliases,
   units, stores with credentials, documents, TLS material and Git, server and admission, bindings and event loop.
2. Done: proofs of every safety property of the passing runs.
3. An abstract specification of a watch (a follower that is told a subsequence of the
   store's history, ending with the last) and each crate's loop as its refinement.
4. `Remote` composed with `StoreWatch` in one behaviour, for one store.

## 9. Not modelled, and why

- Parsing, rendering, formatting, schema, errors, telemetry, logging, audit lines: pure functions or reports that nothing in the code reads back.
- Where a value came from beyond its layer and provider (`loader/origin.rs`).
- `relevance.rs`: which paths are ours is an input of `Watch`, not computed.
- Encryption: calls into a library. An encrypted cache behaves as `Full`; whether a document has a decryptor is an input of `Resolution`.
- Dynamic instances (`dynamic.rs`): a cell, a builder and an optional watch in one value, without state of its own.
- Symbolic links, file modes, and file systems that reorder a synced rename before its data.
- The stores' wire protocols, request building and the parsing of answers: an answer is what the store held, or a failure.
- Panics of a program's validator on the watcher's thread (`debounce.rs:54`), and callbacks that call back into the library.
- The CLI and the macros: a front end without state, and code generation.
- Conversion of values and options between Rust and Python or Node.
