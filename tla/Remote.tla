------------------------------- MODULE Remote -------------------------------
(***************************************************************************)
(* The remote slot of one configuration type (remote/mod.rs) and the        *)
(* fenced door of its watch loops (remote/sink.rs).                         *)
(*                                                                         *)
(* Every method takes the one lock for as long as it touches the state and  *)
(* never across a round trip, so a step is one critical section.  What      *)
(* interleaves is everything between them: refreshes in flight, watch       *)
(* loops delivering, the reloads a delivery runs (load, then install), and  *)
(* the program replacing the source or clearing the document meanwhile.     *)
(*                                                                         *)
(* A source is identified by the generation that `set` gave it.  A document *)
(* is identified by what the fences are about: the source that produced     *)
(* it, the clear epoch in which it was asked for, and whether it was        *)
(* fetched or pushed.  Generations and epochs are u64 and cannot wrap in    *)
(* any run of the program, so they are naturals here.                       *)
(***************************************************************************)
EXTENDS Naturals

CONSTANTS
    Fetchers,    \* threads and tasks that refresh the slot
    Sinks,       \* watch loops, each with the sink it took
    Reloaders,   \* other threads that reload the type (file watch, program)
    Nobody,      \* stands for "not the first reload of a delivery"
    CounterMax,  \* where the status counters saturate
    MaxSets,     \* bound on the calls of set and set_async
    MaxClears,   \* bound on the calls of clear
    MaxCalls     \* bound on the refreshes, deliveries, reports and reloads

ASSUME BoundsAreNaturals ==
    /\ CounterMax \in Nat /\ MaxSets \in Nat
    /\ MaxClears \in Nat /\ MaxCalls \in Nat

ASSUME NobodyIsNoSink == Nobody \notin Sinks

ASSUME ReloadersAreNoSinks == Reloaders \intersect Sinks = {}

VARIABLES
    source,      \* State.source: its kind, or "none"
    fetched,     \* State.fetched
    generation,  \* State.generation
    cleared,     \* State.cleared
    fetches,     \* State.status.fetches
    streak,      \* State.status.consecutive_failures
    fpc,         \* where each fetcher is inside refresh or refresh_async
    fence,       \* the Fence it captured
    spc,         \* where each watch loop is inside apply or failed
    sgen,        \* RemoteSink.generation
    delivery,    \* the document it was asked to apply
    rpc,         \* where each reloader is
    view,        \* the remote document its running load read
    serving,     \* the snapshot of the cell: the remote document it was
                 \* resolved from, the delivery that installed it, and
                 \* whether that source was already replaced by then
    heard,       \* history: the sources that have answered
    refused,     \* history: the sources that have failed to answer
    failedLoads, \* history: the sinks one of whose reloads failed
    calls        \* the calls made so far

slotVars == <<source, fetched, generation, cleared, fetches, streak>>
fetchVars == <<fpc, fence>>
sinkVars == <<spc, sgen, delivery>>
reloadVars == <<rpc, view, serving, failedLoads>>
historyVars == <<heard, refused>>
vars == <<slotVars, fetchVars, sinkVars, reloadVars, historyVars, calls>>

NoDocument == [via |-> "nobody", gen |-> 0, epoch |-> 0]
Document == [via : {"fetch", "push"}, gen : Nat, epoch : Nat]
MaybeDocument == Document \union {NoDocument}
Fence == [generation : Nat, cleared : Nat]

SlotTypeOK ==
    /\ source \in {"none", "blocking", "async"}
    /\ fetched \in MaybeDocument
    /\ generation \in Nat /\ cleared \in Nat
    /\ fetches \in 0..CounterMax /\ streak \in 0..CounterMax

FetchTypeOK ==
    /\ fpc \in [Fetchers -> {"idle", "fetching", "awaiting", "commit",
                             "record", "failed"}]
    /\ fence \in [Fetchers -> Fence]

SinkTypeOK ==
    /\ spc \in [Sinks -> {"untaken", "idle", "failed", "install", "load",
                          "store", "recheck", "reload", "restore"}]
    /\ sgen \in [Sinks -> Nat]
    /\ delivery \in [Sinks -> MaybeDocument]

ReloadTypeOK ==
    /\ rpc \in [Reloaders -> {"idle", "store"}]
    /\ view \in [Sinks \union Reloaders -> MaybeDocument]
    /\ serving \in [doc : MaybeDocument, by : Sinks \union {Nobody},
                    late : BOOLEAN]
    /\ failedLoads \subseteq Sinks

HistoryTypeOK == heard \subseteq Nat /\ refused \subseteq Nat /\ calls \in Nat

TypeOK ==
    SlotTypeOK /\ FetchTypeOK /\ SinkTypeOK /\ ReloadTypeOK /\ HistoryTypeOK

Init ==
    /\ source = "none" /\ fetched = NoDocument
    /\ generation = 0 /\ cleared = 0
    /\ fetches = 0 /\ streak = 0
    /\ fpc = [f \in Fetchers |-> "idle"]
    /\ fence = [f \in Fetchers |-> [generation |-> 0, cleared |-> 0]]
    /\ spc = [s \in Sinks |-> "untaken"]
    /\ sgen = [s \in Sinks |-> 0]
    /\ delivery = [s \in Sinks |-> NoDocument]
    /\ rpc = [r \in Reloaders |-> "idle"]
    /\ view = [p \in Sinks \union Reloaders |-> NoDocument]
    /\ serving = [doc |-> NoDocument, by |-> Nobody, late |-> FALSE]
    /\ heard = {} /\ refused = {} /\ failedLoads = {} /\ calls = 0

\* saturating_add(1)
Saturating(n) == IF n < CounterMax THEN n + 1 ELSE n

-----------------------------------------------------------------------------
(* The program: set, set_async and clear, one critical section each.        *)

Set(kind) ==
    /\ generation < MaxSets
    /\ source' = kind
    /\ fetched' = NoDocument
    /\ fetches' = 0 /\ streak' = 0
    /\ generation' = generation + 1
    /\ UNCHANGED <<cleared, fetchVars, sinkVars, reloadVars, historyVars,
                   calls>>

Clear ==
    /\ cleared < MaxClears
    /\ fetched' = NoDocument
    /\ cleared' = cleared + 1
    /\ UNCHANGED <<source, generation, fetches, streak, fetchVars, sinkVars,
                   reloadVars, historyVars, calls>>

-----------------------------------------------------------------------------
(* refresh and refresh_async.                                               *)

FenceOf == [generation |-> generation, cleared |-> cleared]

Capture(f, pc) ==
    /\ fpc[f] = "idle" /\ calls < MaxCalls
    /\ calls' = calls + 1
    /\ fpc' = [fpc EXCEPT ![f] = pc]
    /\ fence' = [fence EXCEPT ![f] = FenceOf]
    /\ UNCHANGED <<slotVars, sinkVars, reloadVars, historyVars>>

\* refresh: an async source, like no source, is an error that changes nothing.
Refresh(f) == source = "blocking" /\ Capture(f, "fetching")

\* refresh_async takes either kind; a blocking source goes through off_thread.
RefreshAsync(f) == source # "none" /\ Capture(f, "awaiting")

\* Dropping the future of refresh_async at its await: nothing is recorded.
Abandon(f) ==
    /\ fpc[f] = "awaiting"
    /\ fpc' = [fpc EXCEPT ![f] = "idle"]
    /\ UNCHANGED <<slotVars, fence, sinkVars, reloadVars, historyVars, calls>>

\* The store answers, or does not; no lock is held.
Answer(f) ==
    /\ fpc[f] \in {"fetching", "awaiting"}
    /\ fpc' = [fpc EXCEPT ![f] = "commit"]
    /\ heard' = heard \union {fence[f].generation}
    /\ UNCHANGED <<slotVars, fence, sinkVars, reloadVars, refused, calls>>

Fail(f) ==
    /\ fpc[f] \in {"fetching", "awaiting"}
    /\ fpc' = [fpc EXCEPT ![f] = "failed"]
    /\ refused' = refused \union {fence[f].generation}
    /\ UNCHANGED <<slotVars, fence, sinkVars, reloadVars, heard, calls>>

FetchedBy(f) ==
    [via |-> "fetch", gen |-> fence[f].generation, epoch |-> fence[f].cleared]

\* Mutant: the fence compares the source and forgets the epoch.
CommitFencedOnSource(f) ==
    /\ fpc[f] = "commit"
    /\ fpc' = [fpc EXCEPT ![f] = "record"]
    /\ fetched' = IF generation = fence[f].generation
                  THEN FetchedBy(f) ELSE fetched
    /\ UNCHANGED <<source, generation, cleared, fetches, streak, fence,
                   sinkVars, reloadVars, historyVars, calls>>

Commit(f) ==
    /\ fpc[f] = "commit"
    /\ fpc' = [fpc EXCEPT ![f] = "record"]
    /\ fetched' = IF FenceOf = fence[f] THEN FetchedBy(f) ELSE fetched
    /\ UNCHANGED <<source, generation, cleared, fetches, streak, fence,
                   sinkVars, reloadVars, historyVars, calls>>

\* record_fetch and record_fetch_failure, for the source they started under.
CountFetch(g) ==
    IF generation = g
    THEN fetches' = Saturating(fetches) /\ streak' = 0
    ELSE UNCHANGED <<fetches, streak>>

\* Mutant: a failure is charged to whatever source is installed by then.
CountFailureUnfenced(g) == streak' = Saturating(streak) /\ UNCHANGED fetches

CountFailure(g) ==
    /\ streak' = IF generation = g THEN Saturating(streak) ELSE streak
    /\ UNCHANGED fetches

RecordFetch(f) ==
    /\ fpc[f] = "record"
    /\ CountFetch(fence[f].generation)
    /\ fpc' = [fpc EXCEPT ![f] = "idle"]
    /\ UNCHANGED <<source, fetched, generation, cleared, fence, sinkVars,
                   reloadVars, historyVars, calls>>

RecordFetchFailure(f) ==
    /\ fpc[f] = "failed"
    /\ CountFailure(fence[f].generation)
    /\ fpc' = [fpc EXCEPT ![f] = "idle"]
    /\ UNCHANGED <<source, fetched, generation, cleared, fence, sinkVars,
                   reloadVars, historyVars, calls>>

-----------------------------------------------------------------------------
(* The watch loops: remote_sink(), then deliveries and failure reports of   *)
(* the source that was installed when the sink was taken.                   *)

Goto(s, pc) == spc' = [spc EXCEPT ![s] = pc]

TakeSink(s) ==
    /\ spc[s] = "untaken"
    /\ Goto(s, "idle")
    /\ sgen' = [sgen EXCEPT ![s] = generation]
    /\ UNCHANGED <<slotVars, fetchVars, delivery, reloadVars, historyVars,
                   calls>>

\* The store pushes a document, and the loop calls apply with it.
Deliver(s) ==
    /\ spc[s] = "idle" /\ calls < MaxCalls
    /\ calls' = calls + 1
    /\ Goto(s, "install")
    /\ delivery' = [delivery EXCEPT ![s] =
          [via |-> "push", gen |-> sgen[s], epoch |-> cleared]]
    /\ heard' = heard \union {sgen[s]}
    /\ UNCHANGED <<slotVars, fetchVars, sgen, reloadVars, refused>>

\* The stream breaks, and the loop calls failed.
StreamBreaks(s) ==
    /\ spc[s] = "idle" /\ calls < MaxCalls
    /\ calls' = calls + 1
    /\ Goto(s, "failed")
    /\ refused' = refused \union {sgen[s]}
    /\ UNCHANGED <<slotVars, fetchVars, sgen, delivery, reloadVars, heard>>

Failed(s) ==
    /\ spc[s] = "failed"
    /\ CountFailure(sgen[s])
    /\ Goto(s, "idle")
    /\ UNCHANGED <<source, fetched, generation, cleared, fetchVars, sgen,
                   delivery, reloadVars, historyVars, calls>>

InstallIf(s) ==
    /\ spc[s] = "install" /\ sgen[s] = generation
    /\ fetched' = delivery[s]
    /\ CountFetch(sgen[s])
    /\ Goto(s, "load")
    /\ UNCHANGED <<source, generation, cleared, fetchVars, sgen, delivery,
                   reloadVars, historyVars, calls>>

InstallRefused(s) ==
    /\ spc[s] = "install" /\ sgen[s] # generation
    /\ Goto(s, "idle")
    /\ UNCHANGED <<slotVars, fetchVars, sgen, delivery, reloadVars,
                   historyVars, calls>>

\* A load asks document() whether the layer is active and again to merge it;
\* what it gets is what one read at one of the two moments would give.
Read(p) == view' = [view EXCEPT ![p] = fetched]

\* An install serves what the load resolved.
Serve(p, by) ==
    serving' = [doc |-> view[p], by |-> by,
                late |-> view[p] # NoDocument /\ view[p].gen # generation]

Load(s) ==
    /\ spc[s] = "load"
    /\ Read(s)
    /\ Goto(s, "store")
    /\ UNCHANGED <<slotVars, fetchVars, sgen, delivery, rpc, serving,
                   failedLoads, historyVars, calls>>

Store(s) ==
    /\ spc[s] = "store"
    /\ Serve(s, s)
    /\ Goto(s, "recheck")
    /\ UNCHANGED <<slotVars, fetchVars, sgen, delivery, rpc, view,
                   failedLoads, historyVars, calls>>

\* The load or its validation fails: the previous snapshot keeps serving.
LoadFails(s) ==
    /\ spc[s] = "store"
    /\ Goto(s, "recheck")
    /\ failedLoads' = failedLoads \union {s}
    /\ UNCHANGED <<slotVars, fetchVars, sgen, delivery, rpc, view, serving,
                   historyVars, calls>>

\* Mutant: apply trusts the check that install_if made.
NoRecheck(s) ==
    /\ spc[s] = "recheck"
    /\ Goto(s, "idle")
    /\ UNCHANGED <<slotVars, fetchVars, sgen, delivery, reloadVars,
                   historyVars, calls>>

\* The generation is checked again after the reload.
Recheck(s) ==
    /\ spc[s] = "recheck"
    /\ Goto(s, IF generation # sgen[s] THEN "reload" ELSE "idle")
    /\ UNCHANGED <<slotVars, fetchVars, sgen, delivery, reloadVars,
                   historyVars, calls>>

LoadAgain(s) ==
    /\ spc[s] = "reload"
    /\ Read(s)
    /\ Goto(s, "restore")
    /\ UNCHANGED <<slotVars, fetchVars, sgen, delivery, rpc, serving,
                   failedLoads, historyVars, calls>>

Restore(s) ==
    /\ spc[s] = "restore"
    /\ Serve(s, Nobody)
    /\ Goto(s, "idle")
    /\ UNCHANGED <<slotVars, fetchVars, sgen, delivery, rpc, view, failedLoads,
                   historyVars, calls>>

\* `let _ = (self.reload)()`: the second failure is ignored.
RestoreFails(s) ==
    /\ spc[s] = "restore"
    /\ Goto(s, "idle")
    /\ failedLoads' = failedLoads \union {s}
    /\ UNCHANGED <<slotVars, fetchVars, sgen, delivery, rpc, view, serving,
                   historyVars, calls>>

-----------------------------------------------------------------------------
(* Any other reload of the type: reload_with from a file watch or the       *)
(* program.  A load that fails installs nothing.                            *)

BeginReload(r) ==
    /\ rpc[r] = "idle" /\ calls < MaxCalls
    /\ calls' = calls + 1
    /\ Read(r)
    /\ rpc' = [rpc EXCEPT ![r] = "store"]
    /\ UNCHANGED <<slotVars, fetchVars, sinkVars, serving, failedLoads,
                   historyVars>>

EndReload(r) ==
    /\ rpc[r] = "store"
    /\ rpc' = [rpc EXCEPT ![r] = "idle"]
    /\ Serve(r, Nobody) \/ UNCHANGED serving
    /\ UNCHANGED <<slotVars, fetchVars, sinkVars, view, failedLoads,
                   historyVars, calls>>

FetchNext(f) ==
    \/ Refresh(f) \/ RefreshAsync(f) \/ Abandon(f) \/ Answer(f) \/ Fail(f)
    \/ Commit(f) \/ RecordFetch(f) \/ RecordFetchFailure(f)

SinkNext(s) ==
    \/ TakeSink(s) \/ Deliver(s) \/ StreamBreaks(s) \/ Failed(s)
    \/ InstallIf(s) \/ InstallRefused(s) \/ Load(s) \/ Store(s)
    \/ LoadFails(s) \/ Recheck(s) \/ LoadAgain(s) \/ Restore(s)
    \/ RestoreFails(s)

Next ==
    \/ \E kind \in {"blocking", "async"} : Set(kind)
    \/ Clear
    \/ \E f \in Fetchers : FetchNext(f)
    \/ \E s \in Sinks : SinkNext(s)
    \/ \E r \in Reloaders : BeginReload(r) \/ EndReload(r)

Spec == Init /\ [][Next]_vars

-----------------------------------------------------------------------------
(* Properties.                                                              *)

\* The slot only ever holds a document of the source now installed, however
\* a fetch or a delivery of an earlier source straddles set (mod.rs:140-144,
\* commit and install_if).
DocumentBelongsToSource ==
    fetched # NoDocument => fetched.gen = generation

\* A document fetched by a round trip that began before clear does not come
\* back after it (mod.rs, clear and commit).
ClearedStaysCleared ==
    fetched.via = "fetch" => fetched.epoch = cleared

\* The status never reports on a store that nothing has spoken to: a count
\* of fetches means this source answered, a failure streak means that this
\* source failed to (record_fetch and record_fetch_failure are fenced).
StatusBelongsToSource ==
    /\ fetches > 0 => generation \in heard
    /\ streak > 0 => generation \in refused

\* If the reload of a delivery installed a document whose source had already
\* been replaced, that delivery has still to reload again, unless its second
\* reload failed (apply checks the generation again after the reload).
LateDeliveryIsUndone ==
    serving.late /\ serving.by # Nobody =>
        \/ spc[serving.by] \in {"recheck", "reload", "restore"}
        \/ serving.by \in failedLoads

\* "the replacement's state was restored": once apply has refused a delivery
\* that was replaced during its reload, what that delivery installed does
\* not serve.
RefusedDeliveryDoesNotServe ==
    serving.late /\ serving.by # Nobody => spc[serving.by] # "idle"

\* "so the replacement's state has the last word": with every reload done and
\* none of them failed, a document pushed by the present source is served.
ReplacementHasLastWord ==
    /\ \A s \in Sinks : spc[s] \in {"untaken", "idle"}
    /\ failedLoads = {}
    /\ fetched.via = "push"
    => serving.doc = fetched

\* The slot behaves as FencedSlot: the source's identity, the epoch and the
\* document change together, and no document of another owner gets in.
Slot == INSTANCE FencedSlot
            WITH owner <- generation, epoch <- cleared, doc <- fetched

ImplementsFencedSlot == Slot!Spec

=============================================================================
