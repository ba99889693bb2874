----------------------------- MODULE EventLoop ------------------------------
(***************************************************************************)
(* Node: worker threads that need an answer from JavaScript, and the store   *)
(* watches that deliver to it (dynamic-config-node validate.rs, remote.rs;   *)
(* dynamic-config-node-remote lib.rs).                                      *)
(*                                                                         *)
(* Only the loop's thread may run JavaScript.  A worker that validates a    *)
(* tree, asks a source written in JavaScript or mints a credential queues a  *)
(* call, waits on a channel of that call for PATIENCE, and gives up.  The    *)
(* loop may be slow, and may go away with calls in its queue.               *)
(*                                                                         *)
(* A watch runs on a thread of its own; stop() returns a promise that       *)
(* resolves when the thread has ended.                                      *)
(***************************************************************************)
EXTENDS Naturals, Sequences

CONSTANTS Workers,         \* libuv's pool, the engine's watcher
          MaxAsks,         \* bound: jobs of the workers
          MaxMoves,        \* bound: changes of what JavaScript would answer
          MaxDeliveries,   \* bound: documents a watch delivers
          Stops            \* calls of stop()

ASSUME EventLoopAssumption == {MaxAsks, MaxMoves, MaxDeliveries} \subseteq Nat

VARIABLES alive,     \* the loop has not gone away
          asked,     \* the calls queued to it
          world,     \* what JavaScript would answer now: a token, a document
          worker,    \* what each worker is doing
          channel,   \* the answers sent to each worker, each to one call
          jobs,      \* jobs begun
          watch,     \* the watch's thread and handle
          promise,   \* what became of each stop()
          sent       \* documents the watch has handed to the loop

workerVars == <<asked, world, worker, channel, jobs>>
nodeWatchVars == <<watch, promise, sent>>
loopVars == <<alive, workerVars, nodeWatchVars>>

-----------------------------------------------------------------------------
(* The stores: where the client is built, the credentials it takes and how   *)
(* it is watched.                                                           *)

NodeConsul == [tokens |-> {"none", "fixed", "function"}, watched |-> "loop"]
NodeVault == [tokens |-> {"none", "fixed", "function"}, watched |-> "no"]
NodeFirestore == [tokens |-> {"none", "fixed", "function"}, watched |-> "no"]
NodeRedis == [tokens |-> {"none"}, watched |-> "loop"]
\* Driven on a runtime of their own.
NodeEtcd == [tokens |-> {"none", "fixed"}, watched |-> "future"]
NodeNats == [tokens |-> {"none"}, watched |-> "future"]
NodeS3 == [tokens |-> {"none"}, watched |-> "no"]
\* Built on the loop's thread, before the worker has it.
NodeGit == [tokens |-> {"none", "fixed"}, watched |-> "no"]

NodeStores == {NodeConsul, NodeVault, NodeFirestore, NodeRedis, NodeEtcd, NodeNats,
               NodeS3, NodeGit}

\* What a worker does that a store, the validator or a JavaScript source needs.
Jobs == {[what |-> "fetch", token |-> k] : k \in UNION {s.tokens : s \in NodeStores}}
            \union {[what |-> "validate", token |-> "none"],
                    [what |-> "source", token |-> "none"]}

AsksTheLoop(job) == job.what # "fetch" \/ job.token = "function"

-----------------------------------------------------------------------------
(* Workers.                                                                 *)

Unemployed == [pc |-> "idle", job |-> [what |-> "fetch", token |-> "none"],
               ask |-> 0, since |-> 0, got |-> [ask |-> 0, world |-> 0]]

NoNodeWatch == [pc |-> "none", kind |-> "loop", stop |-> FALSE, held |-> TRUE]

LoopInit ==
    /\ alive = TRUE /\ asked = <<>> /\ world = 0
    /\ worker = [w \in Workers |-> Unemployed]
    /\ channel = [w \in Workers |-> {}]
    /\ jobs = 0
    /\ watch = NoNodeWatch
    /\ promise = [k \in Stops |-> "none"]
    /\ sent = 0

Doing(w, pc) == worker[w].pc = pc
Now(w, r) == worker' = [worker EXCEPT ![w] = r]
Then(w, pc) == Now(w, IF pc = "idle" THEN Unemployed
                      ELSE [worker[w] EXCEPT !.pc = pc])

WorldMoves ==
    /\ world < MaxMoves
    /\ world' = world + 1
    /\ UNCHANGED <<alive, asked, worker, channel, jobs, nodeWatchVars>>

\* The process is exiting: the queue is not run any more.
LoopGone ==
    /\ alive /\ alive' = FALSE
    /\ UNCHANGED <<workerVars, nodeWatchVars>>

Employ(w) ==
    /\ Doing(w, "idle") /\ jobs < MaxAsks
    /\ jobs' = jobs + 1
    /\ \E job \in Jobs :
           Now(w, [Unemployed EXCEPT !.pc = IF AsksTheLoop(job) THEN "ask" ELSE "use",
                                     !.job = job, !.ask = jobs + 1, !.since = world])
    /\ UNCHANGED <<alive, asked, world, channel, nodeWatchVars>>

\* call_with_return_value: the call and its channel.
Ask(w) ==
    /\ Doing(w, "ask")
    /\ IF alive
       THEN asked' = Append(asked, [worker |-> w, ask |-> worker[w].ask])
            /\ Then(w, "wait")
       ELSE Then(w, "idle") /\ UNCHANGED asked
    /\ UNCHANGED <<alive, world, channel, jobs, nodeWatchVars>>

\* The loop runs a call and sends what it returned or threw.  Nobody may be
\* waiting any more.
Answer ==
    /\ alive /\ asked # <<>>
    /\ asked' = Tail(asked)
    /\ LET call == Head(asked)
       IN channel' = [channel EXCEPT ![call.worker] =
                          @ \union {[ask |-> call.ask, world |-> world]}]
    /\ UNCHANGED <<alive, world, worker, jobs, nodeWatchVars>>

\* Mutant: one channel for each worker.
OwnOrEarlier(w) == channel[w]

\* A channel is one call's.
Own(w) == {a \in channel[w] : a.ask = worker[w].ask}

\* recv_timeout with an answer: a value, or what was thrown.  A thrown error is
\* the job's, and no fixed token is tried instead.
Receive(w) ==
    /\ Doing(w, "wait")
    /\ \E a \in Own(w) :
           /\ \/ Now(w, [worker[w] EXCEPT !.pc = "use", !.got = a])
              \/ Then(w, "idle")
           /\ channel' = [channel EXCEPT ![w] = @ \ {a}]
    /\ UNCHANGED <<alive, asked, world, jobs, nodeWatchVars>>

\* recv_timeout without one: PATIENCE is over, or the call was dropped with the
\* loop.  The channel is dropped; a late answer finds nobody.
GiveUp(w) ==
    /\ Doing(w, "wait") /\ Own(w) = {}
    /\ Then(w, "idle")
    /\ UNCHANGED <<alive, asked, world, channel, jobs, nodeWatchVars>>

\* The validated tree goes on to its install, the document to the slot, the
\* token to the store that is now built and read.
Use(w) ==
    /\ Doing(w, "use")
    /\ Then(w, "idle")
    /\ UNCHANGED <<alive, asked, world, channel, jobs, nodeWatchVars>>

-----------------------------------------------------------------------------
(* The watch.                                                               *)

ThreadAt(pc) == watch' = [watch EXCEPT !.pc = pc]

\* Watching::spawn and spawn_async.
SpawnWatch ==
    /\ watch.pc = "none"
    /\ \E s \in NodeStores :
           s.watched # "no" /\ watch' = [watch EXCEPT !.pc = "begin", !.kind = s.watched]
    /\ UNCHANGED <<alive, workerVars, promise, sent>>

\* A credential is minted, a client built, a runtime started: once, before the
\* first request.  An error ends the watch, and is handed to the loop.
BeginWatch ==
    /\ watch.pc = "begin"
    /\ \E pc \in {"turn", "ended"} : ThreadAt(pc)
    /\ UNCHANGED <<alive, workerVars, promise, sent>>

\* The blocking loop looks at the flag before each request.
NextRequest ==
    /\ watch.pc = "turn"
    /\ ThreadAt(IF watch.kind = "loop" /\ watch.stop THEN "ended" ELSE "request")
    /\ UNCHANGED <<alive, workerVars, promise, sent>>

\* A request ends with news, without, or for good.
RequestEnds ==
    /\ watch.pc = "request"
    /\ \E pc \in {"turn", "ended"} \union (IF sent < MaxDeliveries THEN {"deliver"} ELSE {}) :
           ThreadAt(pc)
    /\ UNCHANGED <<alive, workerVars, promise, sent>>

Deliver ==
    /\ watch.pc = "deliver"
    /\ sent' = sent + 1
    /\ ThreadAt("turn")
    /\ UNCHANGED <<alive, workerVars, promise>>

\* The select polls the flag while the future waits, and drops it.
DropFuture ==
    /\ watch.kind = "future" /\ watch.stop
    /\ watch.pc \in {"begin", "turn", "request"}
    /\ ThreadAt("ended")
    /\ UNCHANGED <<alive, workerVars, promise, sent>>

\* stop(): the first call has the thread to wait for.  A second one resolves at
\* once, whether or not the thread has ended.
Stop(k) ==
    /\ watch.pc # "none" /\ promise[k] = "none"
    /\ watch' = [watch EXCEPT !.stop = TRUE, !.held = FALSE]
    /\ promise' = [promise EXCEPT ![k] = IF watch.held THEN "joining" ELSE "nothing"]
    /\ UNCHANGED <<alive, workerVars, sent>>

\* Stopping: the join, on a worker.
Join(k) ==
    /\ promise[k] = "joining" /\ watch.pc = "ended"
    /\ promise' = [promise EXCEPT ![k] = "joined"]
    /\ UNCHANGED <<alive, workerVars, watch, sent>>

WorkerNext(w) == Employ(w) \/ Ask(w) \/ Receive(w) \/ GiveUp(w) \/ Use(w)

\* The two halves share nothing but the loop.
WorkersNext ==
    \/ WorldMoves \/ LoopGone \/ Answer
    \/ \E w \in Workers : WorkerNext(w)

WatchesNext ==
    \/ LoopGone
    \/ SpawnWatch \/ BeginWatch \/ NextRequest \/ RequestEnds \/ Deliver \/ DropFuture
    \/ \E k \in Stops : Stop(k) \/ Join(k)

\* A blocking request ends, by the store's time limit; a future may wait for ever.
WatchThread ==
    \/ watch.kind = "loop" /\ (BeginWatch \/ RequestEnds)
    \/ NextRequest \/ Deliver

\* A wait ends when its time is over, the flag is polled while a future waits,
\* and a join returns.
LoopFairness ==
    /\ \A w \in Workers : WF_loopVars(Receive(w) \/ GiveUp(w))
    /\ WF_loopVars(WatchThread)
    /\ WF_loopVars(DropFuture)
    /\ \A k \in Stops : WF_loopVars(Join(k))

-----------------------------------------------------------------------------
(* Properties.                                                              *)

\* An answer is used by the call it was given to, and is not older than it: the
\* late answer to a call that gave up reaches no later call, so no tree is
\* installed with another's verdict and no fetch carries a token from before it
\* began (validate.rs:124-128, node-remote lib.rs:340-344).
AnswersAreOwnAndFresh ==
    \A w \in Workers :
        Doing(w, "use") /\ AsksTheLoop(worker[w].job) =>
            /\ worker[w].got.ask = worker[w].ask
            /\ worker[w].got.world >= worker[w].since

\* A watch whose stop() has been waited for has delivered its last document
\* (node-remote lib.rs:586-594); only the first stop() waits.
StopIsFinal == (\E k \in Stops : promise[k] = "joined") => watch.pc = "ended"

\* A stop() waits for the thread.
Stopping == \E k \in Stops : promise[k] = "joining"

\* No worker waits for ever for a loop that has gone away, and a stop() that
\* waits resolves, with the store in the middle of a request or its future
\* never ending.
WaitsEnd ==
    /\ \A w \in Workers : Doing(w, "wait") ~> ~Doing(w, "wait")
    /\ Stopping ~> ~Stopping

=============================================================================
