---------------------------- MODULE EmbeddedCell ----------------------------
(***************************************************************************)
(* The no_std cell (dynamic-config-embedded: cell.rs, asynchronous.rs): one   *)
(* configuration, a wrapping generation counter, and a fixed number of waker  *)
(* slots, each access a critical section.  Tasks and interrupt handlers       *)
(* interleave between sections.  A task beyond the slots evicts the occupant  *)
(* of the first slot, which is woken and not dropped.                         *)
(*                                                                         *)
(* The executor, external here, polls a task that has been woken, and lets    *)
(* one poll finish before it starts another of the same task.                 *)
(***************************************************************************)
EXTENDS Naturals, FiniteSets

CONSTANTS
    Tasks,      \* tasks awaiting changes
    Storers,    \* contexts that store: tasks, interrupt handlers
    Nobody,     \* an empty slot
    WAITERS,    \* waker slots, at least one
    Modulus,    \* the generation counter wraps here (2^32 in the code)
    EvictionLimit,  \* the eviction counter saturates here (2^32 - 1 in the code)
    MaxStores   \* bound on the stores

ASSUME EmbeddedAssumption ==
    /\ WAITERS \in Nat \ {0} /\ Modulus \in Nat \ {0, 1} /\ MaxStores \in Nat
    /\ EvictionLimit \in Nat \ {0} /\ Nobody \notin Tasks

WakerSlots == 1..WAITERS

VARIABLES
    value,        \* the number of the store whose configuration is in the cell
    generation,   \* State.generation
    evictions,    \* State.evictions
    waiting,      \* State.waiting
    storer,       \* where each storing context is
    waking,       \* the wakers it has yet to wake
    task,         \* where each task is
    seenGeneration,         \* Changes.seen
    evicted,      \* the waker a registration has displaced and not woken yet
    woken,        \* tasks the executor has to poll
    stores,       \* stores begun
    bumps,        \* history: bumps so far
    seenAt,       \* history: bumps when the handle last moved
    told          \* history: the store whose configuration it last resolved with

notifyVars == <<generation, evictions, waiting>>
storerVars == <<storer, waking, stores, bumps>>
handleVars == <<seenGeneration, seenAt, told>>
embeddedVars == <<value, notifyVars, storerVars, task, handleVars, evicted, woken>>

EmbeddedTypeOK ==
    /\ value \in 0..MaxStores
    /\ generation \in 0..(Modulus - 1)
    /\ evictions \in 0..EvictionLimit
    /\ waiting \in [WakerSlots -> Tasks \union {Nobody}]
    /\ storer \in [Storers -> {"idle", "bump", "wake"}]
    /\ waking \in [Storers -> SUBSET Tasks]
    /\ task \in [Tasks -> {"none", "out", "polled", "got", "registered", "rechecked",
                        "parked"}]
    /\ seenGeneration \in [Tasks -> 0..(Modulus - 1)]
    /\ evicted \in [Tasks -> Tasks \union {Nobody}]
    /\ woken \subseteq Tasks
    /\ stores \in 0..MaxStores /\ bumps \in 0..MaxStores
    /\ seenAt \in [Tasks -> 0..MaxStores] /\ told \in [Tasks -> 0..MaxStores]

EmbeddedInit ==
    /\ value = 0 /\ generation = 0 /\ evictions = 0
    /\ waiting = [s \in WakerSlots |-> Nobody]
    /\ storer = [c \in Storers |-> "idle"]
    /\ waking = [c \in Storers |-> {}]
    /\ task = [t \in Tasks |-> "none"]
    /\ seenGeneration = [t \in Tasks |-> 0]
    /\ evicted = [t \in Tasks |-> Nobody]
    /\ woken = {}
    /\ stores = 0 /\ bumps = 0
    /\ seenAt = [t \in Tasks |-> 0] /\ told = [t \in Tasks |-> 0]

-----------------------------------------------------------------------------
(* ConfigCell::store, and apply once the document has parsed and validated.  *)

Overwrite(c) ==
    /\ storer[c] = "idle" /\ stores < MaxStores
    /\ stores' = stores + 1
    /\ value' = stores + 1
    /\ storer' = [storer EXCEPT ![c] = "bump"]
    /\ UNCHANGED <<notifyVars, waking, bumps, task, handleVars, evicted, woken>>

Wrapped == (generation + 1) % Modulus

Waiters == {waiting[s] : s \in WakerSlots} \ {Nobody}

\* Notify::bump: one critical section moves the counter and empties the slots.
Bump(c) ==
    /\ storer[c] = "bump"
    /\ generation' = Wrapped
    /\ bumps' = bumps + 1
    /\ waking' = [waking EXCEPT ![c] = Waiters]
    /\ waiting' = [s \in WakerSlots |-> Nobody]
    /\ storer' = [storer EXCEPT ![c] = "wake"]
    /\ UNCHANGED <<value, evictions, stores, task, handleVars, evicted, woken>>

\* Outside the section, one waker after another.
Wake(c) ==
    /\ storer[c] = "wake"
    /\ \E t \in waking[c] :
           /\ woken' = woken \union {t}
           /\ waking' = [waking EXCEPT ![c] = @ \ {t}]
    /\ UNCHANGED <<value, notifyVars, storer, stores, bumps, task, handleVars, evicted>>

WakeDone(c) ==
    /\ storer[c] = "wake" /\ waking[c] = {}
    /\ storer' = [storer EXCEPT ![c] = "idle"]
    /\ UNCHANGED <<value, notifyVars, waking, stores, bumps, task, handleVars, evicted, woken>>

-----------------------------------------------------------------------------
(* Changes::new and Changed::poll.                                          *)

TaskTo(t, l) == task' = [task EXCEPT ![t] = l]

\* What is current counts as seen.
Subscribe(t) ==
    /\ task[t] = "none"
    /\ seenGeneration' = [seenGeneration EXCEPT ![t] = generation]
    /\ seenAt' = [seenAt EXCEPT ![t] = bumps]
    /\ told' = [told EXCEPT ![t] = value]
    /\ woken' = woken \union {t}
    /\ TaskTo(t, "out")
    /\ UNCHANGED <<value, notifyVars, storerVars, evicted>>

Moved(t) == generation # seenGeneration[t]

\* take, up to the value: one section reads the counter.
Consume(t) ==
    /\ seenGeneration' = [seenGeneration EXCEPT ![t] = generation]
    /\ seenAt' = [seenAt EXCEPT ![t] = bumps]
    /\ TaskTo(t, "got")
    /\ UNCHANGED told

Poll(t) ==
    /\ task[t] \in {"out", "parked"} /\ t \in woken
    /\ woken' = woken \ {t}
    /\ IF Moved(t) THEN Consume(t) ELSE TaskTo(t, "polled") /\ UNCHANGED handleVars
    /\ UNCHANGED <<value, notifyVars, storerVars, evicted>>

\* take, the value: another section.  The task goes on to await again.
Get(t) ==
    /\ task[t] = "got"
    /\ told' = [told EXCEPT ![t] = value]
    /\ TaskTo(t, "out")
    /\ woken' = woken \union {t}
    /\ UNCHANGED <<value, notifyVars, storerVars, seenGeneration, seenAt, evicted>>

\* The scan: its own waker, or an empty slot, whichever comes first.
Candidates(t) == {s \in WakerSlots : waiting[s] \in {t, Nobody}}

First(S) == CHOOSE s \in S : \A r \in S : s <= r

Occupant(t) == waiting[1]

\* Mutant: registration looks for an empty slot only.
EmptyOnly(t) == {s \in WakerSlots : waiting[s] = Nobody}

Usable(t) == Candidates(t)

\* Notify::register, in one section.
Register(t) ==
    /\ task[t] = "polled"
    /\ IF Usable(t) # {}
       THEN /\ waiting' = [waiting EXCEPT ![First(Usable(t))] = t]
            /\ evicted' = [evicted EXCEPT ![t] = Nobody]
            /\ UNCHANGED evictions
       ELSE /\ waiting' = [waiting EXCEPT ![1] = t]
            /\ evicted' = [evicted EXCEPT ![t] = Occupant(t)]
            /\ evictions' = IF evictions < EvictionLimit THEN evictions + 1 ELSE evictions
    /\ TaskTo(t, "registered")
    /\ UNCHANGED <<value, generation, storerVars, handleVars, woken>>

\* The displaced waker is woken outside the section.
WakeEvicted(t) ==
    /\ task[t] = "registered"
    /\ woken' = woken \union ({evicted[t]} \ {Nobody})
    /\ evicted' = [evicted EXCEPT ![t] = Nobody]
    /\ TaskTo(t, "rechecked")
    /\ UNCHANGED <<value, notifyVars, storerVars, handleVars>>

\* Mutant: what the second look found is thrown away.
RecheckDiscards(t) ==
    /\ task[t] = "rechecked"
    /\ seenGeneration' = [seenGeneration EXCEPT ![t] = generation]
    /\ seenAt' = [seenAt EXCEPT ![t] = bumps]
    /\ TaskTo(t, "parked")
    /\ UNCHANGED <<told, value, notifyVars, storerVars, evicted, woken>>

Recheck(t) ==
    /\ task[t] = "rechecked"
    /\ IF Moved(t) THEN Consume(t) ELSE TaskTo(t, "parked") /\ UNCHANGED handleVars
    /\ UNCHANGED <<value, notifyVars, storerVars, evicted, woken>>

Storing(c) == Overwrite(c) \/ Bump(c) \/ Wake(c) \/ WakeDone(c)

Polling(t) == Poll(t) \/ Get(t) \/ Register(t) \/ WakeEvicted(t) \/ Recheck(t)

EmbeddedNext ==
    \/ \E c \in Storers : Storing(c)
    \/ \E t \in Tasks : Subscribe(t) \/ Polling(t)

EmbeddedSpec == EmbeddedInit /\ [][EmbeddedNext]_embeddedVars

\* A store that has begun finishes, and the executor polls what was woken.
EmbeddedFairSpec ==
    /\ EmbeddedSpec
    /\ \A c \in Storers : WF_embeddedVars(Bump(c) \/ Wake(c) \/ WakeDone(c))
    /\ \A t \in Tasks : WF_embeddedVars(Polling(t))

-----------------------------------------------------------------------------
(* Properties.                                                              *)

\* Bumps that went by since the handle moved, unless exactly a full turn of
\* the counter did: that case is documented (embedded asynchronous.rs:102-107).
Behind(t) == (bumps - seenAt[t]) % Modulus # 0

BeingWoken(t) ==
    \/ t \in woken
    \/ \E c \in Storers : t \in waking[c]
    \/ \E u \in Tasks : evicted[u] = t

\* No task is forgotten, with any number of tasks on any number of slots: a
\* parked one is in a slot or about to be woken, and about to be woken if a
\* store went by (embedded asynchronous.rs:139-147).
NobodyForgotten ==
    \A t \in Tasks : task[t] = "parked" =>
        /\ BeingWoken(t) \/ \E s \in WakerSlots : waiting[s] = t
        /\ Behind(t) => BeingWoken(t)

\* The tasks that hold a Changes.
Subscribed == {t \in Tasks : task[t] # "none"}

\* Evictions mean that there are more waiting tasks than slots: while the
\* tasks fit there is never one (embedded asynchronous.rs:29-32).
EvictionsMeanTooFewSlots == evictions > 0 => Cardinality(Subscribed) > WAITERS

\* Between stores, a task that has caught up with the counter was handed the
\* configuration in the cell, not one that has been superseded
\* (embedded asynchronous.rs:195-200).
CaughtUpHasLatest ==
    \A t \in Tasks :
        task[t] \notin {"none", "got"} /\ seenAt[t] = bumps
        /\ (\A c \in Storers : storer[c] # "bump") => told[t] = value

\* A task that waits while a store goes by resolves in the end, even with more
\* tasks than slots.
Unheard(t) == task[t] = "parked" /\ Behind(t)
Heard(t) == task[t] = "got" \/ ~Behind(t)
StoreIsHeard == \A t \in Tasks : Unheard(t) ~> Heard(t)

\* Unless more tasks wait than there are slots, the device comes to rest once
\* nobody stores any more (embedded asynchronous.rs:24-32 tells what happens
\* beyond them).
ComesToRest ==
    \/ <>(Cardinality(Subscribed) > WAITERS)
    \/ <>[](\A t \in Tasks : task[t] \in {"none", "parked"} /\ t \notin woken)

\* "The configuration current when this was created counts as already seen,
\* so the first changed waits for the next one".
CurrentCountsAsSeen ==
    [][\A t \in Tasks : task[t] = "got" /\ task'[t] = "out" => told'[t] # told[t]]_embeddedVars

=============================================================================
