----------------------------- MODULE OffThread ------------------------------
(***************************************************************************)
(* off_thread (asynchronous.rs): blocking work handed to a thread or a pool, *)
(* and the future that waits for its result.  The closure owns a guard whose *)
(* drop fills the slot with a Backend error, so that work that panics, that  *)
(* never starts because no thread could be spawned, or that a pool drops on   *)
(* shutdown still answers.                                                   *)
(*                                                                         *)
(* One call.  Each lock of the slot is a step.  The future may move between  *)
(* tasks: whoever polled last is who has to be woken.  The executor, external *)
(* here, polls a task that has been woken, and may poll without a reason.     *)
(***************************************************************************)
EXTENDS Naturals

CONSTANTS
    Pollers,    \* tasks that drive the future, one at a time
    NoTask    \* no waker registered, or no task

ASSUME OffThreadAssumption == NoTask \notin Pollers

VARIABLES
    result,     \* Slot.value
    waker,     \* Slot.waker
    work,      \* where the closure is
    guarded,   \* Guard.slot is Some
    answer,    \* what fill is called with
    taken,     \* the waker fill has taken and not woken yet
    future,    \* where the awaiting future is
    owner,     \* the task that polled last
    roused,     \* tasks the executor has to poll
    outcome,   \* what the caller got
    fills      \* history: fills of the slot so far

workVars == <<work, guarded, answer, taken, fills>>
futureVars == <<future, owner, outcome>>
offThreadVars == <<result, waker, workVars, futureVars, roused>>

Results == {"ok", "err", "backend"}

OffThreadTypeOK ==
    /\ result \in Results \union {"none"}
    /\ waker \in Pollers \union {NoTask}
    /\ work \in {"queued", "running", "filling", "taking", "waking", "done"}
    /\ guarded \in BOOLEAN
    /\ answer \in Results \union {"none"}
    /\ taken \in Pollers \union {NoTask}
    /\ future \in {"new", "polled", "registered", "pending", "ready", "cancelled"}
    /\ owner \in Pollers \union {NoTask}
    /\ roused \subseteq Pollers
    /\ outcome \in IF future = "ready" THEN Results ELSE {"none"}
    /\ fills \in Nat

\* off_thread up to the hand-over: the closure exists, and the guard in it.
OffThreadInit ==
    /\ result = "none" /\ waker = NoTask
    /\ work = "queued" /\ guarded = TRUE
    /\ answer = "none" /\ taken = NoTask
    /\ future = "new" /\ owner = NoTask
    /\ \E t \in Pollers : roused = {t}
    /\ outcome = "none" /\ fills = 0

-----------------------------------------------------------------------------
(* The closure.                                                             *)

Run ==
    /\ work = "queued"
    /\ work' = "running"
    /\ UNCHANGED <<result, waker, guarded, answer, taken, fills, futureVars, roused>>

\* work() returned; the guard is disarmed and the slot filled.
Return ==
    /\ work = "running"
    /\ guarded' = FALSE
    /\ answer' \in {"ok", "err"}
    /\ work' = "filling"
    /\ UNCHANGED <<result, waker, taken, fills, futureVars, roused>>

\* Mutant: the guard is made by the closure's body, so a closure that never
\* ran has none.
GuardOnlyWhenRun ==
    /\ work \in {"queued", "running"}
    /\ IF work = "running" THEN work' = "filling" ELSE work' = "done"
    /\ guarded' = FALSE
    /\ answer' = "backend"
    /\ UNCHANGED <<result, waker, taken, fills, futureVars, roused>>

\* The closure is dropped before it ran, or work() panicked: dropping the
\* guard fills the slot.
DropGuard ==
    /\ work \in {"queued", "running"} /\ guarded
    /\ guarded' = FALSE
    /\ answer' = "backend"
    /\ work' = "filling"
    /\ UNCHANGED <<result, waker, taken, fills, futureVars, roused>>

\* Slot::fill: the value, then the waker, then the wake.
FillValue ==
    /\ work = "filling"
    /\ result' = answer
    /\ fills' = fills + 1
    /\ work' = "taking"
    /\ UNCHANGED <<waker, guarded, answer, taken, futureVars, roused>>

TakeWaker ==
    /\ work = "taking"
    /\ taken' = waker
    /\ waker' = NoTask
    /\ work' = "waking"
    /\ UNCHANGED <<result, guarded, answer, fills, futureVars, roused>>

WakeOwner ==
    /\ work = "waking"
    /\ roused' = roused \union ({taken} \ {NoTask})
    /\ taken' = NoTask
    /\ work' = "done"
    /\ UNCHANGED <<result, waker, guarded, answer, fills, futureVars>>

-----------------------------------------------------------------------------
(* Awaiting::poll.                                                          *)

\* Slot::take.
Take ==
    /\ future' = "ready"
    /\ outcome' = result
    /\ result' = "none"

\* First look.
PollFuture(t) ==
    /\ future \in {"new", "pending"}
    /\ owner' = t
    /\ roused' = roused \ {t}
    /\ IF result # "none"
       THEN Take
       ELSE future' = "polled" /\ UNCHANGED <<result, outcome>>
    /\ UNCHANGED <<waker, workVars>>

\* The executor polls what was woken.
PollWoken(t) == t \in roused /\ PollFuture(t)

\* The future moved to another task, or a sibling in the same task was woken.
PollUnasked(t) == t \notin roused /\ PollFuture(t)

LeaveWaker ==
    /\ future = "polled"
    /\ waker' = owner
    /\ future' = "registered"
    /\ UNCHANGED <<result, workVars, owner, outcome, roused>>

\* Second look.
SecondLook ==
    /\ future = "registered"
    /\ IF result # "none"
       THEN Take
       ELSE future' = "pending" /\ UNCHANGED <<result, outcome>>
    /\ UNCHANGED <<waker, workVars, owner, roused>>

\* The caller drops the future between polls.
Cancel ==
    /\ future \in {"new", "pending"}
    /\ future' = "cancelled"
    /\ UNCHANGED <<result, waker, workVars, owner, outcome, roused>>

Working == Run \/ Return \/ DropGuard \/ FillValue \/ TakeWaker \/ WakeOwner

PollingFuture == (\E t \in Pollers : PollWoken(t)) \/ LeaveWaker \/ SecondLook

OffThreadNext == Working \/ PollingFuture \/ (\E t \in Pollers : PollUnasked(t)) \/ Cancel

OffThreadSpec == OffThreadInit /\ [][OffThreadNext]_offThreadVars

\* The pool runs or drops what it was given, and threads go on; the executor
\* polls what was woken and finishes a poll it began.
OffThreadFairSpec == OffThreadSpec /\ WF_offThreadVars(Working) /\ WF_offThreadVars(PollingFuture)

-----------------------------------------------------------------------------
(* Properties.                                                              *)

\* A parked future whose work has finished is not forgotten: the task that
\* polled it last has been woken, or the waker the closure is about to take
\* or to wake is that task's (asynchronous.rs:436-456).
NoLostWakeup ==
    future = "pending" /\ (work \in {"waking", "done"} \/ result # "none") =>
        \/ owner \in roused
        \/ work = "taking" /\ waker = owner
        \/ work = "waking" /\ taken = owner

\* The slot is filled once: a guard that was disarmed does not answer over
\* the result, and the caller gets what the work answered
\* (asynchronous.rs:404-407).
AnsweredOnce == fills <= 1 /\ (future = "ready" => outcome = answer)

\* The caller hears: a future that is not cancelled resolves, with the result
\* or with the Backend error, even when the work panics or never runs
\* (asynchronous.rs:315-318).
Resolved == future \in {"ready", "cancelled"}
CallerHears == <>Resolved

=============================================================================
