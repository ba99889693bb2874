---------------------------- MODULE MCPrimitives ----------------------------
(***************************************************************************)
(* The concurrent building blocks, one to a behaviour: the reload group, the *)
(* file watcher, the work off the executor, the embedded cell, the registry, *)
(* and Node's workers and watches.  The ones that do not run are at rest.    *)
(***************************************************************************)
EXTENDS ReloadGroup, Watch, OffThread, EmbeddedCell, Registry,
        EventLoop

\* Who waits has one name in every part.
ASSUME WaitersAssumption == Watches = Tasks /\ Users = Tasks /\ Workers = Tasks

VARIABLE part

suiteVars ==
    <<part, groupVars, watchVars, offThreadVars, embeddedVars, tableVars, loopVars>>

\* Work whose caller has gone.
OffThreadRests ==
    /\ result = "none" /\ waker = NoTask
    /\ work = "done" /\ guarded = FALSE
    /\ answer = "none" /\ taken = NoTask
    /\ future = "cancelled" /\ owner = NoTask
    /\ roused = {} /\ outcome = "none" /\ fills = 0

SuiteInit ==
    /\ part \in {"group", "watch", "off thread", "embedded", "registry",
                "workers", "node watch"}
    /\ GroupInit /\ WatchInit /\ EmbeddedInit /\ TableInit /\ LoopInit
    /\ IF part = "off thread" THEN OffThreadInit ELSE OffThreadRests
    /\ part # "registry" => key = [t \in Users |-> CHOOSE k \in Keys : TRUE]

SuiteNext ==
    \/ /\ part = "group" /\ GroupNext
       /\ UNCHANGED <<part, watchVars, offThreadVars, embeddedVars, tableVars, loopVars>>
    \/ /\ part = "watch" /\ WatchNext
       /\ UNCHANGED <<part, groupVars, offThreadVars, embeddedVars, tableVars, loopVars>>
    \/ /\ part = "off thread" /\ OffThreadNext
       /\ UNCHANGED <<part, groupVars, watchVars, embeddedVars, tableVars, loopVars>>
    \/ /\ part = "embedded" /\ EmbeddedNext
       /\ UNCHANGED <<part, groupVars, watchVars, offThreadVars, tableVars, loopVars>>
    \/ /\ part = "registry" /\ TableNext
       /\ UNCHANGED <<part, groupVars, watchVars, offThreadVars, embeddedVars, loopVars>>
    \/ /\ part = "workers" /\ WorkersNext
       /\ UNCHANGED <<part, groupVars, watchVars, offThreadVars, embeddedVars, tableVars>>
    \/ /\ part = "node watch" /\ WatchesNext
       /\ UNCHANGED <<part, groupVars, watchVars, offThreadVars, embeddedVars, tableVars>>

\* The fairness of the part that runs (WatchFairSpec, OffThreadFairSpec,
\* EmbeddedFairSpec, TableFairSpec and LoopFairness).
SuiteFairness ==
    /\ WF_watchVars(part = "watch" /\ Tick)
    /\ \A i \in Watches : WF_watchVars(part = "watch" /\ Looping(i))
    /\ WF_offThreadVars(part = "off thread" /\ Working)
    /\ WF_offThreadVars(part = "off thread" /\ PollingFuture)
    /\ \A c \in Storers :
           WF_embeddedVars(part = "embedded" /\ (Bump(c) \/ Wake(c) \/ WakeDone(c)))
    /\ \A t \in Tasks : WF_embeddedVars(part = "embedded" /\ Polling(t))
    /\ \A t \in Users : WF_tableVars(part = "registry" /\ UserNext(t))
    /\ \A w \in Workers : WF_loopVars(part = "workers" /\ (Receive(w) \/ GiveUp(w)))
    /\ WF_loopVars(part = "node watch" /\ WatchThread)
    /\ WF_loopVars(part = "node watch" /\ DropFuture)
    /\ \A k \in Stops : WF_loopVars(part = "node watch" /\ Join(k))

SuiteSpec == SuiteInit /\ [][SuiteNext]_suiteVars /\ SuiteFairness

-----------------------------------------------------------------------------
\* What x waits for in the part that runs, and when it need not wait any more.
Waits(x) ==
    \/ part = "watch" /\ Unread(x)
    \/ part = "off thread" /\ ~Resolved
    \/ part = "embedded" /\ Unheard(x)
    \/ part = "registry" /\ stage[x] # "idle"
    \/ part = "workers" /\ Doing(x, "wait")
    \/ part = "node watch" /\ Stopping

Served(x) ==
    \/ part = "watch" /\ ReadOrMoot(x)
    \/ part = "off thread" /\ Resolved
    \/ part = "embedded" /\ Heard(x)
    \/ part = "registry" /\ stage[x] = "idle"
    \/ part = "workers" /\ ~Doing(x, "wait")
    \/ part = "node watch" /\ ~Stopping

\* Every wait ends.  An edited file is read while its watch is not stopped,
\* whatever the editor does in between; a future that is not cancelled
\* resolves even when its work panics or never runs (asynchronous.rs:315-318);
\* a task on a device hears of a store even when there are more tasks than
\* slots (embedded asynchronous.rs:139-147); a call of entry that loses the
\* swap tries again on the table that won and returns (registry.rs:141-151);
\* a Node worker does not wait for ever for a loop that has gone away
\* (validate.rs:31-36), and a stop() that waits for its watch resolves, with the
\* store in the middle of a request or its future never ending.
EveryWaitEnds == \A x \in Tasks : Waits(x) ~> Served(x)

\* The right waiter is woken, and holds what is right: the task that polled a
\* future last is the one that is woken, the future is filled once and resolves
\* with the work's answer (asynchronous.rs:404-407, :436-456), and a task that
\* has caught up with the device's counter was handed the configuration in the
\* cell (embedded asynchronous.rs:195-200).
AnswersAreRight == NoLostWakeup /\ AnsweredOnce /\ CaughtUpHasLatest

\* A worker uses the answer to its own call only, and a watch whose stop() was
\* waited for has delivered its last document.
LoopAnswersAreRight == AnswersAreOwnAndFresh /\ StopIsFinal

=============================================================================
