------------------------------ MODULE Bindings ------------------------------
(***************************************************************************)
(* The Python and Node.js bindings: how a tree that the engine installed    *)
(* becomes the model that the program reads.                                *)
(*                                                                         *)
(* The engine's validation hook calls the program's validator and stages    *)
(* the model; after the install the engine's reload hook and, for init and  *)
(* reload, the caller itself each commit the installed tree, and whichever  *)
(* is first publishes.  Callers, a candidate load among them, and the       *)
(* watcher overlap: the engine holds no lock from a read to its install.    *)
(*                                                                         *)
(* Python keeps one staged model, and code between two calls into Python    *)
(* runs under the GIL; without the GIL (the module is declared free of it)  *)
(* it does not.  Node keeps up to STAGED models and its workers are         *)
(* threads.                                                                 *)
(***************************************************************************)
EXTENDS Integers, Sequences, FiniteSets

CONSTANTS Runtimes,    \* of {"python", "free-threaded", "node"}
          Callers,     \* threads that call the configuration
          Watcher,     \* the watcher's thread
          STAGED,      \* 4 in the Node binding
          MaxEdits,    \* bound: edits of the sources
          MaxCalls     \* bound: loads of all the threads together

Threads == Callers \union {Watcher}

ASSUME BindingsAssumption ==
    /\ Runtimes \subseteq {"python", "free-threaded", "node"}
    /\ Watcher \notin Callers
    /\ {STAGED, MaxEdits, MaxCalls} \subseteq Nat

VARIABLES runtime,
          edit,            \* the sources' edits so far: what a load reads
          bad,             \* the edits that the validator refuses
          installs,        \* the trees the engine has installed, in order
          staged,          \* validations waiting to be published
          next_sequence, last_committed,
          cache,           \* the published model's tree, 0 for none
          generation,
          replaced,        \* models published by replace()
          thread,          \* what each thread is doing
          calls            \* loads so far

stagingVars == <<staged, next_sequence, last_committed>>
publishedVars == <<cache, generation, replaced>>
bindingVars == <<runtime, edit, bad, installs, stagingVars, publishedVars,
                 thread, calls>>

Node == runtime = "node"
Gil == runtime = "python"

NoModel == 0
\* A model that replace() published is no tree of the engine's.
Handmade == -1

AtRest == [pc |-> "idle", what |-> "", tree |-> 0, answer |-> NoModel,
           commits |-> ""]

BindingsInit ==
    /\ runtime \in Runtimes
    /\ edit = 1
    /\ bad \in {{}, {2}}
    /\ installs = <<>>
    /\ staged = <<>> /\ next_sequence = 0 /\ last_committed = 0
    /\ cache = NoModel /\ generation = 0 /\ replaced = 0
    /\ thread = [t \in Threads |-> AtRest]
    /\ calls = 0

At(t, pc) == thread[t].pc = pc
To(t, pc) ==
    thread' = [thread EXCEPT ![t] = IF pc = "idle" THEN AtRest
                                    ELSE [@ EXCEPT !.pc = pc]]
Answers(t, tree) ==
    thread' = [thread EXCEPT ![t] = [AtRest EXCEPT !.answer = tree]]

Edit ==
    /\ edit <= MaxEdits
    /\ edit' = edit + 1
    /\ UNCHANGED <<runtime, bad, installs, stagingVars, publishedVars, thread>>

\* init, reload, load and refresh-free watching: the engine resolves the
\* sources.  A program may watch before anything was installed.
Call(t, what) ==
    /\ At(t, "idle") /\ calls < MaxCalls
    /\ (what = "watch") = (t = Watcher)
    /\ thread' = [thread EXCEPT ![t] =
                     [@ EXCEPT !.pc = "validate", !.what = what,
                               !.tree = edit, !.answer = NoModel]]
    /\ calls' = calls + 1
    /\ UNCHANGED <<runtime, edit, bad, installs, stagingVars, publishedVars>>

-----------------------------------------------------------------------------
(* Staging.                                                                 *)

Validated(tree) == [sequence |-> next_sequence + 1, tree |-> tree]

\* Inner::validate in Python: the newest validation is the staged one.
StageInPython(tree) ==
    /\ next_sequence' = next_sequence + 1
    /\ staged' = <<Validated(tree)>>

\* Inner::validate in Node: validations queue up, the oldest is dropped.
StageInNode(tree) ==
    LET queued == Append(staged, Validated(tree))
    IN  /\ next_sequence' = next_sequence + 1
        /\ staged' = IF Len(queued) > STAGED THEN Tail(queued) ELSE queued

\* In Node a candidate's validation is the load's own answer.
Stage(t) ==
    CASE ~Node -> StageInPython(thread[t].tree)
      [] Node /\ thread[t].what = "load" ->
            UNCHANGED <<staged, next_sequence>>
      [] Node /\ thread[t].what # "load" -> StageInNode(thread[t].tree)

\* The validation hook: the program's validator takes the tree, and the
\* model is staged, or refuses it; in Node an answer that takes too long is
\* a refusal.
Validate(t) ==
    /\ At(t, "validate")
    /\ \/ /\ thread[t].tree \notin bad
          /\ Stage(t)
          /\ To(t, IF thread[t].what = "load" THEN "candidate" ELSE "install")
       \/ /\ thread[t].tree \in bad \/ Node
          /\ To(t, "idle")
          /\ UNCHANGED <<staged, next_sequence>>
    /\ UNCHANGED <<runtime, edit, bad, installs, last_committed, publishedVars>>

\* The engine installs the tree and runs its reload hooks, for every
\* install but the first.  Behind the watcher's there is no caller that
\* would publish the first one.
Install(t) ==
    /\ At(t, "install")
    /\ installs' = Append(installs, thread[t].tree)
    /\ CASE installs # <<>> ->
                thread' = [thread EXCEPT ![t].pc = "commit",
                                         ![t].commits = "hook"]
         [] installs = <<>> /\ thread[t].what # "watch" -> To(t, "publish")
         [] installs = <<>> /\ thread[t].what = "watch" -> To(t, "idle")
    /\ UNCHANGED <<runtime, edit, bad, stagingVars, publishedVars>>

\* publish_current: what the engine has now is committed.
PublishCurrent(t) ==
    /\ At(t, "publish")
    /\ thread' = [thread EXCEPT ![t].pc = "commit",
                                ![t].tree = installs[Len(installs)],
                                ![t].commits = "caller"]
    /\ UNCHANGED <<runtime, edit, bad, installs, stagingVars, publishedVars>>

\* Where a thread goes when its commit is over.
Done(t) ==
    IF thread[t].commits = "hook" /\ thread[t].what # "watch"
    THEN "publish" ELSE "idle"

-----------------------------------------------------------------------------
(* Python.                                                                  *)

Pending == staged[1]

\* Mutant: whatever is staged is published.
CommitWhateverIsStaged(t) ==
    /\ ~Node /\ At(t, "commit")
    /\ IF last_committed >= Pending.sequence
       THEN To(t, Done(t)) /\ UNCHANGED <<last_committed, publishedVars>>
       ELSE /\ last_committed' = Pending.sequence
            /\ cache' = Pending.tree
            /\ generation' = generation + 1
            /\ To(t, Done(t))
            /\ UNCHANGED replaced
    /\ UNCHANGED <<runtime, edit, bad, installs, staged, next_sequence>>

\* commit: the staged model is claimed if it is this tree's, and published
\* unless it already was; another one's is left alone and the tree is
\* validated once more.
CommitInPython(t) ==
    /\ ~Node /\ At(t, "commit")
    /\ CASE staged # <<>> /\ Pending.tree = thread[t].tree
              /\ last_committed >= Pending.sequence ->
                To(t, Done(t)) /\ UNCHANGED <<last_committed, publishedVars>>
         [] staged # <<>> /\ Pending.tree = thread[t].tree
              /\ last_committed < Pending.sequence ->
                /\ last_committed' = Pending.sequence
                /\ IF Gil
                   THEN /\ cache' = Pending.tree
                        /\ generation' = generation + 1
                        /\ To(t, Done(t))
                   ELSE /\ thread' = [thread EXCEPT ![t].pc = "write",
                                               ![t].answer = Pending.tree]
                        /\ UNCHANGED <<cache, generation>>
                /\ UNCHANGED replaced
         [] OTHER ->
                /\ To(t, "revalidate")
                /\ UNCHANGED <<last_committed, publishedVars>>
    /\ UNCHANGED <<runtime, edit, bad, installs, staged, next_sequence>>

\* The validator again; what is staged afterwards is published.  Under the
\* GIL that is what was just staged.
Revalidate(t) ==
    /\ ~Node /\ At(t, "revalidate")
    /\ StageInPython(thread[t].tree)
    /\ IF Gil
       THEN /\ last_committed' = next_sequence'
            /\ cache' = thread[t].tree
            /\ generation' = generation + 1
            /\ To(t, Done(t))
       ELSE /\ To(t, "reread")
            /\ UNCHANGED <<last_committed, cache, generation>>
    /\ UNCHANGED <<runtime, edit, bad, installs, replaced>>

Reread(t) ==
    /\ ~Node /\ ~Gil /\ At(t, "reread")
    /\ last_committed' = IF Pending.sequence > last_committed
                         THEN Pending.sequence ELSE last_committed
    /\ thread' = [thread EXCEPT ![t].pc = "write", ![t].answer = Pending.tree]
    /\ UNCHANGED <<runtime, edit, bad, installs, staged, next_sequence,
                   publishedVars>>

\* load: the staged model if it is this tree's, or the tree validated again.
CandidateInPython(t) ==
    /\ ~Node /\ At(t, "candidate")
    /\ IF Pending.tree = thread[t].tree
       THEN /\ Answers(t, Pending.tree)
            /\ UNCHANGED <<staged, next_sequence>>
       ELSE /\ StageInPython(thread[t].tree)
            /\ IF Gil
               THEN Answers(t, thread[t].tree)
               ELSE To(t, "answer")
    /\ UNCHANGED <<runtime, edit, bad, installs, last_committed, publishedVars>>

\* Without the GIL, somebody else may have staged a model by now.
AnswerStaged(t) ==
    /\ ~Node /\ ~Gil /\ At(t, "answer")
    /\ Answers(t, Pending.tree)
    /\ UNCHANGED <<runtime, edit, bad, installs, stagingVars, publishedVars>>

\* replace: a model that nothing loaded.
Replace(t) ==
    /\ At(t, "idle") /\ t \in Callers
    /\ replaced < 1
    /\ cache' = Handmade
    /\ generation' = generation + 1
    /\ replaced' = replaced + 1
    /\ UNCHANGED <<runtime, edit, bad, installs, stagingVars, thread>>

-----------------------------------------------------------------------------
(* Node.                                                                    *)

\* take_staged: the oldest validation of the tree is taken out.
take_staged(tree) ==
    LET found == {i \in 1..Len(staged) : staged[i].tree = tree}
    IN  IF found = {} THEN 0
        ELSE CHOOSE i \in found : \A j \in found : i <= j

Without(seq, i) == SubSeq(seq, 1, i - 1) \o SubSeq(seq, i + 1, Len(seq))

\* commit: a tree without a validation was published by the other path, and
\* so was one whose validation is not newer than the last one claimed.
CommitInNode(t) ==
    LET i == take_staged(thread[t].tree)
    IN  /\ Node /\ At(t, "commit")
        /\ IF i = 0
           THEN To(t, Done(t)) /\ UNCHANGED <<staged, last_committed>>
           ELSE /\ staged' = Without(staged, i)
                /\ IF last_committed >= staged[i].sequence
                   THEN To(t, Done(t)) /\ UNCHANGED last_committed
                   ELSE /\ last_committed' = staged[i].sequence
                        /\ thread' = [thread EXCEPT ![t].pc = "write",
                                              ![t].answer = staged[i].tree]
        /\ UNCHANGED <<runtime, edit, bad, installs, next_sequence,
                       publishedVars>>

\* The candidate a worker validated for itself.
CandidateInNode(t) ==
    /\ Node /\ At(t, "candidate")
    /\ Answers(t, thread[t].tree)
    /\ UNCHANGED <<runtime, edit, bad, installs, stagingVars, publishedVars>>

\* The published model, and then the generation, where no GIL holds the two
\* together.
WriteCache(t) ==
    /\ At(t, "write")
    /\ cache' = thread[t].answer
    /\ To(t, "bump")
    /\ UNCHANGED <<runtime, edit, bad, installs, stagingVars, generation,
                   replaced>>

Bump(t) ==
    /\ At(t, "bump")
    /\ generation' = generation + 1
    /\ To(t, Done(t))
    /\ UNCHANGED <<runtime, edit, bad, installs, stagingVars, cache, replaced>>

-----------------------------------------------------------------------------
ThreadNext(t) ==
    \/ Validate(t) \/ Install(t) \/ PublishCurrent(t)
    \/ CommitInPython(t) \/ Revalidate(t) \/ Reread(t)
    \/ CandidateInPython(t) \/ AnswerStaged(t) \/ Replace(t)
    \/ CommitInNode(t) \/ CandidateInNode(t) \/ WriteCache(t) \/ Bump(t)

BindingsNext ==
    \/ \E t \in Threads, what \in {"reload", "load", "watch"} : Call(t, what)
    \/ Edit /\ UNCHANGED calls
    \/ (\E t \in Threads : ThreadNext(t)) /\ UNCHANGED calls

BindingsSpec == BindingsInit /\ [][BindingsNext]_bindingVars

-----------------------------------------------------------------------------
\* What the program reads is the model of a tree that the engine installed,
\* or one the program made: never a candidate's, never a refused tree's.
\* (Without the GIL Python's second read of the staged model can find a
\* candidate's.)
PublishedWasInstalled ==
    runtime # "free-threaded" =>
        cache \in {NoModel, Handmade}
                  \union {installs[i] : i \in 1..Len(installs)}

\* A validation is published at most once, though the engine's hook and the
\* caller both commit what was installed: the program sees no more
\* generations than there were validations and replaced models.  (Without
\* the GIL the second read of the staged model can find one that is
\* already published.)
ValidationPublishedOnce ==
    runtime # "free-threaded" => generation <= next_sequence + replaced

\* Under the GIL, when reload returns, the model the program reads is the
\* one of what the engine had, whatever other threads staged meanwhile; and
\* in either runtime load answers with the model of what it read itself.
AnswersAreTheirOwn ==
    [][\A t \in Threads :
          /\ (Gil /\ At(t, "commit") /\ thread[t].commits = "caller"
              /\ thread'[t].pc = "idle") =>
                 cache' \in {thread[t].tree, Handmade}
          /\ (Gil /\ At(t, "revalidate") /\ thread'[t].pc = "idle") =>
                 cache' = thread[t].tree
          /\ (runtime # "free-threaded" /\ At(t, "candidate")
              /\ thread'[t].pc = "idle") =>
                 thread'[t].answer = thread[t].tree]_bindingVars

\* In Python nothing but a watcher's first install stays unread: when no call
\* is under way and the program has no model, there was that one at most.
LaterInstallsArePublished ==
    (~Node /\ cache = NoModel /\ \A t \in Threads : At(t, "idle")) =>
        Len(installs) <= 1

\* The model the program reads follows the engine: installed trees only, each
\* validation once, every caller answered with its own, and no install but
\* the first kept from the program.
PublishingIsExact ==
    /\ [](PublishedWasInstalled /\ ValidationPublishedOnce
          /\ LaterInstallsArePublished)
    /\ AnswersAreTheirOwn

\* dynamic-config-python/src/config/mod.rs: the generation is "bumped once
\* per install".  Refuted: the first install, when it is the watcher's, runs
\* no hook and has no caller, and bumps nothing.
InstallsAreBumped ==
    (runtime = "python" /\ \A t \in Threads : At(t, "idle")) =>
        (installs # <<>> => generation > 0)

\* dynamic-config-python/src/config/inner.rs:177: "Publishes the model that
\* belongs to `tree` - once per install."
PythonPublishesOnce ==
    runtime = "python" => generation <= Len(installs) + replaced
=============================================================================
