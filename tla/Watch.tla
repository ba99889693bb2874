------------------------------- MODULE Watch --------------------------------
(***************************************************************************)
(* Watching one configuration's files (watch/): the registry that allows one *)
(* watcher per key (handle.rs), the handle that stops it, and the background *)
(* thread that debounces file events and reloads (debounce.rs), with the     *)
(* reload closure of builder/watching.rs.                                    *)
(*                                                                         *)
(* A watch is one call of spawn_with.  The file has a version; an editor     *)
(* replaces it atomically or rewrites it in place, and a reader in between   *)
(* sees a torn file, which fails to load or loads as something nobody wrote  *)
(* (version 0).  Time passes in ticks, and only while no watcher thread has  *)
(* something to do: the bounds are on what the loop waits for by choice.     *)
(***************************************************************************)
EXTENDS Naturals, Sequences

CONSTANTS
    Watches,    \* calls of spawn_with for one key
    Debounce,   \* the quiet period, in ticks
    MaxEdits,   \* bound on the edits of the file
    Deferral,   \* the longest window, in quiet periods (4 in the code)
    MaxNoise    \* bound on the events about other files

ASSUME WatchAssumption ==
    /\ Debounce \in Nat /\ Deferral \in Nat \ {0}
    /\ MaxEdits \in Nat /\ MaxNoise \in Nat

Ceiling == Deferral * Debounce

VARIABLES
    version, torn,      \* the file
    noise,              \* events about other files so far
    started,            \* STARTED has the key
    handle,             \* how far spawn_with and its WatchHandle have come
    queue,              \* the channel from the backend to the thread
    loop,               \* where the background thread is
    quiet, ceiling,     \* ticks left to quiet_until and to the deadline
    got,                \* what the thread's reload has loaded
    serving,            \* the version the configuration serves
    waited, calm,       \* ticks since the window opened, since the last event of ours
    from, seen          \* history: the version when watched, and last read

fileVars == <<version, torn, noise>>
registryVars == <<started, handle, from>>
timerVars == <<quiet, ceiling, waited, calm>>
loadVars == <<got, seen, serving>>
watchVars == <<fileVars, registryVars, queue, loop, timerVars, loadVars>>

\* Spawning, running, and dismantled; the backend exists and feeds the channel
\* in the watching states, and has been dropped in the closed ones.
Watching == {"armed", "live", "detached"}
Closed == {"unwinding", "dropped", "gone"}
Holding == Watching \union {"inserted", "backend", "unwinding", "dropped"}

FileTypeOK == version \in Nat /\ torn \in BOOLEAN /\ noise \in Nat

RegistryTypeOK ==
    /\ started \in BOOLEAN
    /\ handle \in [Watches -> Holding \union {"none", "gone"}]
    /\ from \in [Watches -> Nat]

QueueTypeOK == queue \in [Watches -> Seq({"ours", "other"})]

LoopTypeOK ==
    loop \in [Watches -> {"none", "wait", "collect", "grace", "install", "ended"}]

TimerTypeOK ==
    /\ quiet \in [Watches -> 0..Debounce]
    /\ ceiling \in [Watches -> 0..Ceiling]
    /\ waited \in [Watches -> Nat] /\ calm \in [Watches -> Nat]

LoadTypeOK ==
    /\ got \in [Watches -> Nat] /\ seen \in [Watches -> Nat] /\ serving \in Nat

WatchTypeOK ==
    /\ FileTypeOK /\ RegistryTypeOK /\ QueueTypeOK /\ LoopTypeOK
    /\ TimerTypeOK /\ LoadTypeOK

\* The program has loaded the first version.
WatchInit ==
    /\ version = 1 /\ torn = FALSE /\ noise = 0
    /\ started = FALSE
    /\ handle = [i \in Watches |-> "none"]
    /\ queue = [i \in Watches |-> <<>>]
    /\ loop = [i \in Watches |-> "none"]
    /\ quiet = [i \in Watches |-> 0] /\ ceiling = [i \in Watches |-> 0]
    /\ waited = [i \in Watches |-> 0] /\ calm = [i \in Watches |-> 0]
    /\ got = [i \in Watches |-> 0] /\ seen = [i \in Watches |-> 0]
    /\ serving = 1
    /\ from = [i \in Watches |-> 0]

-----------------------------------------------------------------------------
(* The directory, and the backend that reports on it.                       *)

Notify(event) ==
    queue' = [i \in Watches |-> IF handle[i] \in Watching
                                THEN Append(queue[i], event) ELSE queue[i]]

\* A rename into place.
Replace ==
    /\ ~torn /\ version <= MaxEdits
    /\ version' = version + 1
    /\ Notify("ours")
    /\ UNCHANGED <<torn, noise, registryVars, loop, timerVars, loadVars>>

\* A write in place: the file is torn until the last byte is in.
Truncate ==
    /\ ~torn /\ version <= MaxEdits
    /\ torn' = TRUE
    /\ Notify("ours")
    /\ UNCHANGED <<version, noise, registryVars, loop, timerVars, loadVars>>

Complete ==
    /\ torn
    /\ torn' = FALSE /\ version' = version + 1
    /\ Notify("ours")
    /\ UNCHANGED <<noise, registryVars, loop, timerVars, loadVars>>

\* relevant_path finds none of the event's paths to be one of ours.
Neighbour ==
    /\ noise < MaxNoise
    /\ noise' = noise + 1
    /\ Notify("other")
    /\ UNCHANGED <<version, torn, registryVars, loop, timerVars, loadVars>>

-----------------------------------------------------------------------------
(* spawn_with and WatchHandle.                                              *)

SetHandle(i, h) == handle' = [handle EXCEPT ![i] = h]

\* The key goes in first.  Taken: AlreadyExists, and nothing to undo.
Insert(i) ==
    /\ handle[i] = "none"
    /\ IF started THEN SetHandle(i, "gone") ELSE SetHandle(i, "inserted")
    /\ started' = TRUE
    /\ UNCHANGED <<from, fileVars, queue, loop, timerVars, loadVars>>

CreateBackend(i) ==
    /\ handle[i] = "inserted"
    /\ SetHandle(i, "backend")
    /\ UNCHANGED <<started, from, fileVars, queue, loop, timerVars, loadVars>>

\* watch_directories watched at least one.
WatchDirectories(i) ==
    /\ handle[i] = "backend"
    /\ SetHandle(i, "armed")
    /\ from' = [from EXCEPT ![i] = version]
    /\ UNCHANGED <<started, fileVars, queue, loop, timerVars, loadVars>>

SpawnThread(i) ==
    /\ handle[i] = "armed"
    /\ SetHandle(i, "live")
    /\ loop' = [loop EXCEPT ![i] = "wait"]
    /\ UNCHANGED <<started, from, fileVars, queue, timerVars, loadVars>>

\* The backend, the watches or the thread fail: the backend is dropped, then
\* Registered's drop removes the key.
SpawnFails(i) ==
    /\ handle[i] \in {"inserted", "backend", "armed"}
    /\ SetHandle(i, "unwinding")
    /\ UNCHANGED <<started, from, fileVars, queue, loop, timerVars, loadVars>>

FreeKey(i) == FALSE

Rollback(i) ==
    /\ handle[i] = "unwinding"
    /\ started' = FreeKey(i)
    /\ SetHandle(i, "gone")
    /\ UNCHANGED <<from, fileVars, queue, loop, timerVars, loadVars>>

Detach(i) ==
    /\ handle[i] = "live"
    /\ SetHandle(i, "detached")
    /\ UNCHANGED <<started, from, fileVars, queue, loop, timerVars, loadVars>>

\* WatchHandle::drop, and stop: the backend first, which closes the channel,
\* then the key.  The thread is not joined.
DropBackend(i) ==
    /\ handle[i] = "live"
    /\ SetHandle(i, "dropped")
    /\ UNCHANGED <<started, from, fileVars, queue, loop, timerVars, loadVars>>

Deregister(i) ==
    /\ handle[i] = "dropped"
    /\ started' = FALSE
    /\ SetHandle(i, "gone")
    /\ UNCHANGED <<from, fileVars, queue, loop, timerVars, loadVars>>

-----------------------------------------------------------------------------
(* run and collect_relevant.                                                *)

Least(a, b) == IF a < b THEN a ELSE b

Goto(i, l) == loop' = [loop EXCEPT ![i] = l]

Expired(i) == Least(quiet[i], ceiling[i]) = 0

Hung(i) == queue[i] = <<>> /\ handle[i] \in Closed

\* Phase 1: block until an event of ours opens the window.
Ignore(i) ==
    /\ loop[i] = "wait" /\ queue[i] # <<>> /\ Head(queue[i]) = "other"
    /\ queue' = [queue EXCEPT ![i] = Tail(@)]
    /\ UNCHANGED <<fileVars, registryVars, loop, timerVars, loadVars>>

Open(i) ==
    /\ loop[i] = "wait" /\ queue[i] # <<>> /\ Head(queue[i]) = "ours"
    /\ queue' = [queue EXCEPT ![i] = Tail(@)]
    /\ Goto(i, "collect")
    /\ ceiling' = [ceiling EXCEPT ![i] = Ceiling]
    /\ quiet' = [quiet EXCEPT ![i] = Debounce]
    /\ waited' = [waited EXCEPT ![i] = 0] /\ calm' = [calm EXCEPT ![i] = 0]
    /\ UNCHANGED <<fileVars, registryVars, loadVars>>

\* Only one of ours restarts the quiet period.
Restart(i) == IF Head(queue[i]) = "ours" THEN [quiet EXCEPT ![i] = Debounce] ELSE quiet

\* Phase 2: events before the window closes.
Absorb(i) ==
    /\ loop[i] = "collect" /\ ~Expired(i) /\ queue[i] # <<>>
    /\ queue' = [queue EXCEPT ![i] = Tail(@)]
    /\ quiet' = Restart(i)
    /\ calm' = IF Head(queue[i]) = "ours" THEN [calm EXCEPT ![i] = 0] ELSE calm
    /\ UNCHANGED <<fileVars, registryVars, loop, ceiling, waited, loadVars>>

Close(i) ==
    /\ loop[i] = "collect" /\ Expired(i)
    /\ Goto(i, "grace")
    /\ UNCHANGED <<queue, fileVars, registryVars, timerVars, loadVars>>

\* The channel is empty and its sender gone: the thread ends, and a window
\* that is open is not reloaded for.
Disconnected(i) ==
    /\ loop[i] = "wait" \/ (loop[i] = "collect" /\ ~Expired(i))
    /\ Hung(i)
    /\ Goto(i, "ended")
    /\ UNCHANGED <<queue, fileVars, registryVars, timerVars, loadVars>>

\* After the grace: load.  A torn file may fail, and the snapshot stays.
Read(i) ==
    /\ loop[i] = "grace"
    /\ got' = [got EXCEPT ![i] = IF torn THEN 0 ELSE version]
    /\ seen' = [seen EXCEPT ![i] = IF torn THEN 0 ELSE version]
    /\ Goto(i, "install")
    /\ UNCHANGED <<serving, queue, fileVars, registryVars, timerVars>>

ReadFails(i) ==
    /\ loop[i] = "grace" /\ torn
    /\ Goto(i, "wait")
    /\ UNCHANGED <<queue, fileVars, registryVars, timerVars, loadVars>>

\* Mutant: events that came during the reload are discarded after it.
InstallAndDrain(i) ==
    /\ loop[i] = "install"
    /\ serving' = got[i]
    /\ queue' = [queue EXCEPT ![i] = <<>>]
    /\ Goto(i, "wait")
    /\ UNCHANGED <<got, seen, fileVars, registryVars, timerVars>>

Install(i) ==
    /\ loop[i] = "install"
    /\ serving' = got[i]
    /\ Goto(i, "wait")
    /\ UNCHANGED <<got, seen, queue, fileVars, registryVars, timerVars>>

-----------------------------------------------------------------------------
(* Time.                                                                    *)

Collecting == {i \in Watches : loop[i] = "collect"}

Less(f) == [i \in Watches |-> IF i \in Collecting /\ f[i] > 0 THEN f[i] - 1 ELSE f[i]]

More(f) == [i \in Watches |-> IF i \in Collecting THEN f[i] + 1 ELSE f[i]]

Countdown == Less(ceiling)

Tick ==
    /\ \E i \in Collecting : TRUE
    /\ \A i \in Collecting : ~Expired(i) /\ queue[i] = <<>> /\ ~Hung(i)
    /\ quiet' = Less(quiet)
    /\ ceiling' = Countdown
    /\ waited' = More(waited) /\ calm' = More(calm)
    /\ UNCHANGED <<fileVars, registryVars, queue, loop, loadVars>>

-----------------------------------------------------------------------------
Spawning(i) ==
    \/ Insert(i) \/ CreateBackend(i) \/ WatchDirectories(i) \/ SpawnThread(i)
    \/ SpawnFails(i) \/ Rollback(i)

Handling(i) == Detach(i) \/ DropBackend(i) \/ Deregister(i)

Looping(i) ==
    \/ Ignore(i) \/ Open(i) \/ Absorb(i) \/ Close(i) \/ Disconnected(i)
    \/ Read(i) \/ ReadFails(i) \/ Install(i)

WatchNext ==
    \/ Replace \/ Truncate \/ Complete \/ Neighbour \/ Tick
    \/ \E i \in Watches : Spawning(i) \/ Handling(i) \/ Looping(i)

WatchSpec == WatchInit /\ [][WatchNext]_watchVars

\* Threads are scheduled and time passes.  The program need not drop handles
\* and the editor need not edit.
WatchFairSpec ==
    WatchSpec /\ WF_watchVars(Tick) /\ \A i \in Watches : WF_watchVars(Looping(i))

-----------------------------------------------------------------------------
(* Properties.                                                              *)

\* One watcher per key at any moment, and a key is taken exactly while some
\* call is starting, holding or dismantling one: a failed start leaves nothing
\* behind, a second start does not disturb the first (handle.rs:180-204).
OneWatchPerKey ==
    /\ \A i, j \in Watches :
           handle[i] \in Holding /\ handle[j] \in Holding => i = j
    /\ started <=> \E i \in Watches : handle[i] \in Holding

\* A watch that waits with nothing in its channel has read the file as it is
\* now, if the file was edited since the directories were watched: an edit
\* that lands right after the start, in the middle of a window, or while a
\* reload is running is not missed (handle.rs:145-148).
NoEditMissed ==
    \A i \in Watches :
        handle[i] \in {"live", "detached"} /\ loop[i] = "wait"
        /\ queue[i] = <<>> /\ ~torn /\ version > from[i] => seen[i] = version

\* A storm of our own events delays the reload by Deferral quiet periods at most
\* (debounce.rs:116-120).
StormIsBounded == \A i \in Watches : loop[i] = "collect" => waited[i] <= Ceiling

\* Events about other files do not delay it: the window closes one quiet
\* period after the last event of ours (debounce.rs:154-156).
NoiseDoesNotDelay == \A i \in Watches : loop[i] = "collect" => calm[i] <= Debounce

\* The watch is exact: one watcher to a key and no key leaked, no edit missed,
\* and neither a storm nor a neighbour puts the reload off.
WatchIsExact ==
    OneWatchPerKey /\ NoEditMissed /\ StormIsBounded /\ NoiseDoesNotDelay

\* While its watch is not stopped, an edited file is read in the end, whatever
\* the editor does in between.
Unread(i) == handle[i] \in {"live", "detached"} /\ version > from[i] /\ ~torn
ReadOrMoot(i) == seen[i] = version \/ torn \/ handle[i] \in Closed
EditIsRead == \A i \in Watches : Unread(i) ~> ReadOrMoot(i)

\* "watch(debounce) on the builder reloads the snapshot when a file changes",
\* one watcher per type: with the watch idle and the file whole, the
\* configuration serves the file.
WatchedFileIsServed ==
    \A i \in Watches :
        handle[i] \in {"live", "detached"} /\ loop[i] = "wait"
        /\ queue[i] = <<>> /\ ~torn /\ version > from[i] => serving = version

=============================================================================
