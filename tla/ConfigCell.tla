----------------------------- MODULE ConfigCell -----------------------------
(***************************************************************************)
(* The cell that serves one configuration type: cell.rs, and the change    *)
(* notification of asynchronous.rs that every store drives.                *)
(*                                                                         *)
(* Nothing serialises two stores.  store_with is a sequence of separate    *)
(* atomic operations, so it is modelled one operation per step, and the    *)
(* steps of every thread interleave: threads that store, threads that      *)
(* record a failed reload, owners that register and drop hooks, and async  *)
(* tasks that await Changes.                                               *)
(*                                                                         *)
(* A snapshot is an Arc, and only its identity matters (Arc::ptr_eq), so   *)
(* it is the number of the store that allocated it.  The reason of an      *)
(* install and its loaded_at are identified with the same number.          *)
(***************************************************************************)
EXTENDS Naturals, Sequences

CONSTANTS
    Writers,      \* threads that call store_with
    Reporters,    \* threads that call record_failure
    Owners,       \* code that registers a hook and may drop its guard
    EventOwners,  \* the owners whose hook is the event form
    Tasks,        \* async tasks, each with one Changes handle and one waker
    MaxInstalls,  \* bound on the calls of store_with
    MaxFailures,  \* bound on the calls of record_failure
    CounterMax    \* u32::MAX, where consecutive_failures saturates

ASSUME BoundsAreNaturals ==
    MaxInstalls \in Nat /\ MaxFailures \in Nat /\ CounterMax \in Nat

ASSUME EventOwnersAreOwners == EventOwners \subseteq Owners

VARIABLES
    inner,      \* the ArcSwap in its OnceLock: a snapshot, or None
    meta,       \* SnapshotMeta: the generation and whose loaded_at it is
    lastReason, \* the install whose reason was published last, or None
    failures,   \* consecutive_failures
    hooks,      \* the registered hooks, in order of registration
    nextToken,  \* next_token
    generation, \* Notify.generation
    waiting,    \* Notify.waiting: the wakers parked there
    arcs,       \* snapshots allocated so far
    wpc,        \* where each writer is inside store_with
    value,      \* its `value`
    previous,   \* its `previous`
    stamp,      \* its `installed`: the generation its rcu allocated
    waking,     \* wakers its bump has taken and not woken yet
    todo,       \* hooks its dispatch has still to call
    owed,       \* history: the hooks registered when its store began
    rpc,        \* where each reporter is inside record_failure
    count,      \* its `count`
    reports,    \* calls of record_failure so far
    opc,        \* what each owner has done with its hook
    token,      \* the token it was handed
    tpc,        \* where each task is inside poll
    seen,       \* Changes.seen
    woken,      \* its waker was called since the poll began
    got,        \* the snapshot the task last read
    chain,      \* history: the values `inner` has held, oldest first
    streak,     \* history: failures counted since the last reset
    told        \* history: the calls hooks received

cellVars == <<inner, meta, lastReason, failures>>
hookVars == <<hooks, nextToken, opc, token>>
writerVars == <<arcs, wpc, value, previous, stamp, waking, todo, owed>>
reporterVars == <<rpc, count, reports>>
taskVars == <<tpc, seen, woken, got>>
vars == <<cellVars, hookVars, generation, waiting, writerVars, reporterVars,
          taskVars, chain, streak, told>>

None == 0
Snapshots == 1..MaxInstalls
Hook == [token : Nat, form : {"Pair", "Event"}]

WriterPc == {"idle", "init", "swap", "meta", "reason", "reset", "bump",
             "take", "wake", "dispatch", "hooks"}
TaskPc == {"new", "current", "idle", "check", "load", "register", "recheck",
           "reload", "parked"}

CellTypeOK ==
    /\ inner \in Nat
    /\ meta \in [generation : Nat, loadedAt : Nat]
    /\ lastReason \in Nat
    /\ failures \in Nat

HooksTypeOK ==
    /\ hooks \in Seq(Hook)
    /\ nextToken \in Nat
    /\ opc \in [Owners -> {"none", "token", "held", "dropped"}]
    /\ token \in [Owners -> Nat]

NotifyTypeOK ==
    /\ generation \in Nat
    /\ waiting \in SUBSET Tasks

WritersTypeOK ==
    /\ arcs \in Nat
    /\ wpc \in [Writers -> WriterPc]
    /\ value \in [Writers -> Nat]
    /\ previous \in [Writers -> Nat]
    /\ stamp \in [Writers -> Nat]
    /\ waking \in [Writers -> SUBSET Tasks]
    /\ todo \in [Writers -> Seq(Hook)]
    /\ owed \in [Writers -> Seq(Hook)]

ReportersTypeOK ==
    /\ rpc \in [Reporters -> {"idle", "cas", "publish"}]
    /\ count \in [Reporters -> Nat]
    /\ reports \in Nat

TasksTypeOK ==
    /\ tpc \in [Tasks -> TaskPc]
    /\ seen \in [Tasks -> Nat]
    /\ woken \in [Tasks -> BOOLEAN]
    /\ got \in [Tasks -> Nat]

HistoryTypeOK ==
    /\ chain \in Seq(Nat)
    /\ streak \in Nat
    /\ told \in SUBSET [token : Nat, previous : Nat, current : Nat, generation : Nat]

\* Every variable has its type.
TypeOK ==
    /\ CellTypeOK
    /\ HooksTypeOK
    /\ NotifyTypeOK
    /\ WritersTypeOK
    /\ ReportersTypeOK
    /\ TasksTypeOK
    /\ HistoryTypeOK

-----------------------------------------------------------------------------
Init ==
    /\ inner = None
    /\ meta = [generation |-> 0, loadedAt |-> None]
    /\ lastReason = None
    /\ failures = 0
    /\ hooks = <<>>
    /\ nextToken = 0
    /\ generation = 0
    /\ waiting = {}
    /\ arcs = 0
    /\ wpc = [w \in Writers |-> "idle"]
    /\ value = [w \in Writers |-> None]
    /\ previous = [w \in Writers |-> None]
    /\ stamp = [w \in Writers |-> 0]
    /\ waking = [w \in Writers |-> {}]
    /\ todo = [w \in Writers |-> <<>>]
    /\ owed = [w \in Writers |-> <<>>]
    /\ rpc = [r \in Reporters |-> "idle"]
    /\ count = [r \in Reporters |-> 0]
    /\ reports = 0
    /\ opc = [o \in Owners |-> "none"]
    /\ token = [o \in Owners |-> 0]
    /\ tpc = [k \in Tasks |-> "new"]
    /\ seen = [k \in Tasks |-> 0]
    /\ woken = [k \in Tasks |-> FALSE]
    /\ got = [k \in Tasks |-> None]
    /\ chain = <<>>
    /\ streak = 0
    /\ told = {}

-----------------------------------------------------------------------------
(* store_with, one atomic operation per step.                              *)

WriterGoes(w, from, to) ==
    /\ wpc[w] = from
    /\ wpc' = [wpc EXCEPT ![w] = to]

\* Arc::new: the snapshot of this call.
BeginStore(w) ==
    /\ arcs < MaxInstalls
    /\ WriterGoes(w, "idle", "init")
    /\ arcs' = arcs + 1
    /\ value' = [value EXCEPT ![w] = arcs + 1]
    /\ owed' = [owed EXCEPT ![w] = hooks]
    /\ UNCHANGED <<cellVars, hookVars, generation, waiting, previous, stamp,
                   waking, todo, reporterVars, taskVars, chain, streak, told>>

\* OnceLock::get_or_init: the first thread here installs its own value.
GetOrInit(w) ==
    /\ WriterGoes(w, "init", "swap")
    /\ IF inner = None
         THEN inner' = value[w] /\ chain' = Append(chain, value[w])
         ELSE UNCHANGED <<inner, chain>>
    /\ UNCHANGED <<meta, lastReason, failures, hookVars, generation, waiting,
                   arcs, value, previous, stamp, waking, todo, owed, reporterVars,
                   taskVars, streak, told>>

\* ArcSwap::swap: this call's value serves, whoever initialised the slot.
Swap(w) ==
    /\ WriterGoes(w, "swap", "meta")
    /\ previous' = [previous EXCEPT ![w] = inner]
    /\ inner' = value[w]
    /\ chain' = IF inner = value[w] THEN chain ELSE Append(chain, value[w])
    /\ UNCHANGED <<meta, lastReason, failures, hookVars, generation, waiting,
                   arcs, value, stamp, waking, todo, owed, reporterVars, taskVars,
                   streak, told>>

\* The number is allocated by the compare-and-swap that publishes it.
NextMeta(w) == [generation |-> meta.generation + 1, loadedAt |-> value[w]]

PublishMeta(w) ==
    /\ WriterGoes(w, "meta", "reason")
    /\ meta' = NextMeta(w)
    /\ stamp' = [stamp EXCEPT ![w] = NextMeta(w).generation]
    /\ UNCHANGED <<inner, lastReason, failures, hookVars, generation, waiting,
                   arcs, value, previous, waking, todo, owed, reporterVars, taskVars,
                   chain, streak, told>>

PublishReason(w) ==
    /\ WriterGoes(w, "reason", "reset")
    /\ lastReason' = value[w]
    /\ UNCHANGED <<inner, meta, failures, hookVars, generation, waiting, arcs,
                   value, previous, stamp, waking, todo, owed, reporterVars,
                   taskVars, chain, streak, told>>

ResetFailures(w) ==
    /\ WriterGoes(w, "reset", "bump")
    /\ failures' = 0
    /\ streak' = 0
    /\ UNCHANGED <<inner, meta, lastReason, hookVars, generation, waiting,
                   arcs, value, previous, stamp, waking, todo, owed, reporterVars,
                   taskVars, chain, told>>

\* Notify::bump, its fetch_add ...
Bump(w) ==
    /\ WriterGoes(w, "bump", "take")
    /\ generation' = generation + 1
    /\ UNCHANGED <<cellVars, hookVars, waiting, arcs, value, previous, stamp,
                   waking, todo, owed, reporterVars, taskVars, chain, streak, told>>

\* Mutant: the list is cleared and its wakers dropped.
DropWaiting(w) ==
    /\ WriterGoes(w, "take", "wake")
    /\ waiting' = {}
    /\ UNCHANGED <<cellVars, hookVars, generation, arcs, value, previous,
                   stamp, waking, todo, owed, reporterVars, taskVars, chain,
                   streak, told>>

\* ... the list taken under the lock ...
TakeWaiting(w) ==
    /\ WriterGoes(w, "take", "wake")
    /\ waking' = [waking EXCEPT ![w] = waiting]
    /\ waiting' = {}
    /\ UNCHANGED <<cellVars, hookVars, generation, arcs, value, previous,
                   stamp, todo, owed, reporterVars, taskVars, chain, streak, told>>

\* ... and each waker called outside it.
Wake(w) ==
    /\ wpc[w] = "wake"
    /\ \E k \in waking[w] :
         /\ waking' = [waking EXCEPT ![w] = @ \ {k}]
         /\ woken' = [woken EXCEPT ![k] = TRUE]
    /\ UNCHANGED <<cellVars, hookVars, generation, waiting, arcs, wpc, value,
                   previous, stamp, todo, owed, reporterVars, tpc, seen, got, chain,
                   streak, told>>

\* Mutant: the previous snapshot read again instead of kept from the swap.
PreviousReadAgain(w) == IF inner = value[w] THEN None ELSE inner

\* The first install has no previous: get_or_init installed this very Arc.
PreviousOf(w) == IF previous[w] = value[w] THEN None ELSE previous[w]

WakeDone(w) ==
    /\ waking[w] = {}
    /\ WriterGoes(w, "wake", "dispatch")
    /\ previous' = [previous EXCEPT ![w] = PreviousOf(w)]
    /\ UNCHANGED <<cellVars, hookVars, generation, waiting, arcs, value,
                   stamp, waking, todo, owed, reporterVars, taskVars, chain, streak,
                   told>>

\* dispatch works on a snapshot of the hook list.
Dispatch(w) ==
    /\ WriterGoes(w, "dispatch", "hooks")
    /\ todo' = [todo EXCEPT ![w] = hooks]
    /\ UNCHANGED <<cellVars, hookVars, generation, waiting, arcs, value,
                   previous, stamp, waking, owed, reporterVars, taskVars,
                   chain,
                   streak, told>>

\* A pair hook has nowhere to put "there was none"; an event hook has.
Fires(w, hook) == hook.form = "Event" \/ previous[w] # None

Call(w, hook) == [token |-> hook.token, previous |-> previous[w],
                  current |-> value[w], generation |-> stamp[w]]

\* Mutant: a panic unwinds out of the loop.
PanicStopsDispatch(w, panicked) == IF panicked THEN <<>> ELSE Tail(todo[w])

\* catch_unwind: a hook that panics is skipped and the rest still run.
AfterHook(w, panicked) == Tail(todo[w])

RunHook(w) ==
    /\ wpc[w] = "hooks"
    /\ todo[w] # <<>>
    /\ told' = IF Fires(w, Head(todo[w]))
                 THEN told \union {Call(w, Head(todo[w]))}
                 ELSE told
    /\ \E panicked \in BOOLEAN :
         todo' = [todo EXCEPT ![w] = AfterHook(w, panicked)]
    /\ UNCHANGED <<cellVars, hookVars, generation, waiting, arcs, wpc, value,
                   previous, stamp, waking, owed, reporterVars, taskVars,
                   chain,
                   streak>>

EndStore(w) ==
    /\ todo[w] = <<>>
    /\ WriterGoes(w, "hooks", "idle")
    /\ value' = [value EXCEPT ![w] = None]
    /\ previous' = [previous EXCEPT ![w] = None]
    /\ stamp' = [stamp EXCEPT ![w] = 0]
    /\ owed' = [owed EXCEPT ![w] = <<>>]
    /\ UNCHANGED <<cellVars, hookVars, generation, waiting, arcs, waking,
                   todo, reporterVars, taskVars, chain, streak, told>>

-----------------------------------------------------------------------------
(* record_failure: a load and a compare-exchange loop, then the record.    *)

AfterCount(n) == IF n < CounterMax THEN "cas" ELSE "publish"

ReadCount(r) ==
    /\ rpc[r] = "idle"
    /\ reports < MaxFailures
    /\ reports' = reports + 1
    /\ count' = [count EXCEPT ![r] = failures]
    /\ rpc' = [rpc EXCEPT ![r] = AfterCount(failures)]
    /\ streak' = IF failures < CounterMax THEN streak ELSE streak + 1
    /\ UNCHANGED <<cellVars, hookVars, generation, waiting, writerVars,
                   taskVars, chain, told>>

\* Mutant: a plain store of the incremented count.
StoreCount(r) ==
    /\ rpc[r] = "cas"
    /\ failures' = count[r] + 1
    /\ rpc' = [rpc EXCEPT ![r] = "publish"]
    /\ streak' = streak + 1
    /\ UNCHANGED <<inner, meta, lastReason, hookVars, generation, waiting,
                   writerVars, count, reports, taskVars, chain, told>>

CompareExchange(r) ==
    /\ rpc[r] = "cas"
    /\ IF failures = count[r]
         THEN /\ failures' = count[r] + 1
              /\ rpc' = [rpc EXCEPT ![r] = "publish"]
              /\ streak' = streak + 1
              /\ UNCHANGED count
         ELSE /\ count' = [count EXCEPT ![r] = failures]
              /\ rpc' = [rpc EXCEPT ![r] = AfterCount(failures)]
              /\ streak' = IF failures < CounterMax THEN streak ELSE streak + 1
              /\ UNCHANGED failures
    /\ UNCHANGED <<inner, meta, lastReason, hookVars, generation, waiting,
                   writerVars, reports, taskVars, chain, told>>

\* last_failure: what it holds is history nothing here reads back.
PublishFailure(r) ==
    /\ rpc[r] = "publish"
    /\ rpc' = [rpc EXCEPT ![r] = "idle"]
    /\ count' = [count EXCEPT ![r] = 0]
    /\ UNCHANGED <<cellVars, hookVars, generation, waiting, writerVars,
                   reports, taskVars, chain, streak, told>>

-----------------------------------------------------------------------------
(* register and unregister: a token, then a copy of the list swapped in.   *)

AllocateToken(o) ==
    /\ opc[o] = "none"
    /\ opc' = [opc EXCEPT ![o] = "token"]
    /\ token' = [token EXCEPT ![o] = nextToken]
    /\ nextToken' = nextToken + 1
    /\ UNCHANGED <<cellVars, hooks, generation, waiting, writerVars,
                   reporterVars, taskVars, chain, streak, told>>

Form(o) == IF o \in EventOwners THEN "Event" ELSE "Pair"

Register(o) ==
    /\ opc[o] = "token"
    /\ opc' = [opc EXCEPT ![o] = "held"]
    /\ hooks' = Append(hooks, [token |-> token[o], form |-> Form(o)])
    /\ UNCHANGED <<cellVars, nextToken, token, generation, waiting,
                   writerVars, reporterVars, taskVars, chain, streak, told>>

WithoutIndex(s, i) == SubSeq(s, 1, i - 1) \o SubSeq(s, i + 1, Len(s))

\* HookGuard::drop: every hook but the one with this token is copied over.
Unregister(o) ==
    /\ opc[o] = "held"
    /\ opc' = [opc EXCEPT ![o] = "dropped"]
    /\ \E i \in 1..Len(hooks) :
         hooks[i].token = token[o] /\ hooks' = WithoutIndex(hooks, i)
    /\ UNCHANGED <<cellVars, nextToken, token, generation, waiting,
                   writerVars, reporterVars, taskVars, chain, streak, told>>

-----------------------------------------------------------------------------
(* Changes: an awaiting task.                                              *)

TaskGoes(k, from, to) ==
    /\ tpc[k] = from
    /\ tpc' = [tpc EXCEPT ![k] = to]

\* changes(): what is current now counts as seen ...
Subscribe(k) ==
    /\ TaskGoes(k, "new", "current")
    /\ seen' = [seen EXCEPT ![k] = generation]
    /\ UNCHANGED <<cellVars, hookVars, generation, waiting, writerVars,
                   reporterVars, woken, got, chain, streak, told>>

\* ... and the task reads the value it starts from with load().
ReadCurrent(k) ==
    /\ TaskGoes(k, "current", "idle")
    /\ got' = [got EXCEPT ![k] = inner]
    /\ UNCHANGED <<cellVars, hookVars, generation, waiting, writerVars,
                   reporterVars, seen, woken, chain, streak, told>>

\* changed().await: the executor polls; a parked task only once woken.
Poll(k) ==
    /\ \/ TaskGoes(k, "idle", "check")
       \/ TaskGoes(k, "parked", "check") /\ woken[k]
    /\ woken' = [woken EXCEPT ![k] = FALSE]
    /\ UNCHANGED <<cellVars, hookVars, generation, waiting, writerVars,
                   reporterVars, seen, got, chain, streak, told>>

\* attempt: the generation first; a move is consumed before the value loads.
Attempt(k, from, moved, same) ==
    /\ tpc[k] = from
    /\ tpc' = [tpc EXCEPT ![k] = IF generation = seen[k] THEN same ELSE moved]
    /\ seen' = [seen EXCEPT ![k] = generation]
    /\ UNCHANGED <<cellVars, hookVars, generation, waiting, writerVars,
                   reporterVars, woken, got, chain, streak, told>>

LoadFor(k, from, onNone) ==
    /\ TaskGoes(k, from, IF inner = None THEN onNone ELSE "idle")
    /\ got' = [got EXCEPT ![k] = inner]
    /\ UNCHANGED <<cellVars, hookVars, generation, waiting, writerVars,
                   reporterVars, seen, woken, chain, streak, told>>

Check(k) == Attempt(k, "check", "load", "register")
Load(k) == LoadFor(k, "load", "register")

\* Notify::register: a waker already in the list is not pushed twice.
RegisterWaker(k) ==
    /\ TaskGoes(k, "register", "recheck")
    /\ waiting' = waiting \union {k}
    /\ UNCHANGED <<cellVars, hookVars, generation, writerVars, reporterVars,
                   seen, woken, got, chain, streak, told>>

\* Mutant: registered, then pending without the second check.
ParkUnchecked(k) ==
    /\ TaskGoes(k, "recheck", "parked")
    /\ UNCHANGED <<cellVars, hookVars, generation, waiting, writerVars,
                   reporterVars, seen, woken, got, chain, streak, told>>

Recheck(k) == Attempt(k, "recheck", "reload", "parked")
Reload(k) == LoadFor(k, "reload", "parked")

\* A pending changed() dropped by its caller, as select! does.
Cancel(k) ==
    /\ TaskGoes(k, "parked", "idle")
    /\ UNCHANGED <<cellVars, hookVars, generation, waiting, writerVars,
                   reporterVars, seen, woken, got, chain, streak, told>>

-----------------------------------------------------------------------------
StoreStep(w) ==
    \/ GetOrInit(w) \/ Swap(w) \/ PublishMeta(w) \/ PublishReason(w)
    \/ ResetFailures(w) \/ Bump(w) \/ TakeWaiting(w) \/ Wake(w)
    \/ WakeDone(w) \/ Dispatch(w) \/ RunHook(w) \/ EndStore(w)

PollStep(k) ==
    \/ Check(k) \/ Load(k) \/ RegisterWaker(k) \/ Recheck(k) \/ Reload(k)

Next ==
    \/ \E w \in Writers : BeginStore(w) \/ StoreStep(w)
    \/ \E r \in Reporters : ReadCount(r) \/ CompareExchange(r) \/ PublishFailure(r)
    \/ \E o \in Owners : AllocateToken(o) \/ Register(o) \/ Unregister(o)
    \/ \E k \in Tasks :
         \/ Subscribe(k) \/ ReadCurrent(k) \/ Poll(k) \/ PollStep(k)
         \/ Cancel(k)

Spec == Init /\ [][Next]_vars

\* A thread inside a store keeps running, and an executor polls what is woken.
FairSpec ==
    /\ Spec
    /\ \A w \in Writers : WF_vars(StoreStep(w))
    /\ \A k \in Tasks : WF_vars(Poll(k)) /\ WF_vars(PollStep(k))

-----------------------------------------------------------------------------
(* Properties.                                                             *)

\* A store that may have changed `inner` and has not bumped yet.
InFlight(w) == wpc[w] \in {"swap", "meta", "reason", "reset", "bump"}

Quiet == \A w \in Writers : wpc[w] = "idle"

\* A task that has observed every bump holds the serving snapshot, unless a
\* store is still between its swap and its bump: Changes hands out the latest
\* configuration and never leaves a handle caught up on a superseded one.
CaughtUpIsFresh ==
    \A k \in Tasks :
      /\ tpc[k] \in {"idle", "check", "register", "recheck", "parked"}
      /\ seen[k] = generation
      /\ \A w \in Writers : ~InFlight(w)
      => got[k] = inner

\* The check-register-check of poll_with: a task left pending behind a bump it
\* has not seen still has that bump's wake-up coming.
NoLostWakeup ==
    \A k \in Tasks :
      tpc[k] = "parked" /\ ~woken[k] /\ seen[k] # generation =>
        \E w \in Writers :
          (wpc[w] = "take" /\ k \in waiting) \/ k \in waking[w]

\* attempt consumes a move of the generation before it loads; the value it
\* then loads exists, so no change is consumed for nothing.
ConsumedMoveHasValue ==
    \A k \in Tasks : tpc[k] \in {"load", "reload"} => inner # None

\* A task is told of every change, finds a value, and is left with the latest.
TasksFollowChanges == NoLostWakeup /\ ConsumedMoveHasValue /\ CaughtUpIsFresh

\* on_reload: every (previous, current) a hook is called with is one link of
\* the chain of values the cell served, however the stores overlapped.
PairsAreLinks ==
    \A c \in told : c.previous # None =>
      \E i \in 1..(Len(chain) - 1) :
        chain[i] = c.previous /\ chain[i + 1] = c.current

\* Two installs are never told apart by the same generation, nor one install
\* reported to two hooks under two.
GenerationNamesInstall ==
    \A c, d \in told : c.generation = d.generation <=> c.current = d.current

\* What a hook is called with is true: its pair is a link of the chain, and its
\* generation the install's.
HookCallsAreTrue == PairsAreLinks /\ GenerationNamesInstall

\* meta: the generation an observer sees never goes backwards, even when two
\* stores overlap.
GenerationNeverBackwards ==
    [][meta'.generation >= meta.generation]_vars

\* dispatch: a hook registered before a store began, and still registered when
\* it ends, was called by that store, whatever the other hooks did.
RegisteredHooksTold ==
    \A w \in Writers : wpc[w] = "hooks" /\ todo[w] = <<>> =>
      \A i \in 1..Len(owed[w]) :
        (\E j \in 1..Len(hooks) : hooks[j] = owed[w][i])
          /\ Fires(w, owed[w][i])
        => Call(w, owed[w][i]) \in told

\* record_failure: no failure is lost and none survives a reset; the counter is
\* the streak since the last install, stuck at its limit rather than wrapped.
FailuresCounted ==
    failures = IF streak < CounterMax THEN streak ELSE CounterMax

\* Every change reaches a waiting task: a task parked behind a bump is polled.
ParkedTaskHearsOfChange ==
    \A k \in Tasks :
      (tpc[k] = "parked" /\ seen[k] # generation) ~> (seen[k] = generation)

-----------------------------------------------------------------------------
(* What the documentation says and overlapping stores break.               *)

\* ConfigStatus: once no store runs, loaded_at is when, and last_reason is why,
\* the serving snapshot was installed.
StatusDescribesServing ==
    Quiet => meta.loadedAt = inner /\ lastReason = inner

\* on_reload_with: a hook that was told of every install was told of the first
\* one with `previous: None`.
FirstInstallHasNoPrevious ==
    Quiet /\ arcs > 0 =>
      \A o \in Owners :
        (\A v \in 1..arcs : \E c \in told : c.token = token[o] /\ c.current = v)
        => \E c \in told : c.token = token[o] /\ c.previous = None

\* changes(): the snapshot current at the call counts as already seen.
ChangesDeliverOnlyNew ==
    [][\A k \in Tasks :
         tpc[k] \in {"load", "reload"} /\ tpc'[k] = "idle" => got'[k] # got[k]]_vars

=============================================================================
