--------------------------- MODULE BindingsProofs ---------------------------
(***************************************************************************)
(* Proofs about the language bindings: what the program reads of what the  *)
(* engine installed, and what the stores of Python present, for any number *)
(* of threads, edits, rotations and refreshes.                             *)
(***************************************************************************)
EXTENDS MCBindings, FiniteSetTheorems, WellFoundedInduction, TLAPS

(* Publishing.  A validation is published once because the claims are counted: *)
(* every generation but the ones on their way has a claim of its own.          *)

\* What a thread of the program is doing.
ThreadRecords ==
    [pc : {"idle", "validate", "install", "publish", "commit", "revalidate", "reread",
           "candidate", "answer", "write", "bump"},
     what : {"", "reload", "load", "watch"}, tree : Int, answer : Int,
     commits : {"", "hook", "caller"}]

\* A validation that waits to be published.
Validations == [sequence : Nat, tree : Int]

\* What the engine installed.
InstalledTrees == {installs[i] : i \in 1..Len(installs)}

\* What binding and threads hold.
BindingShape ==
    /\ runtime \in {"python", "free-threaded", "node"}
    /\ edit \in Nat
    /\ installs \in Seq(Int)
    /\ staged \in Seq(Validations)
    /\ next_sequence \in Nat /\ last_committed \in Nat
    /\ cache \in Int /\ generation \in Nat /\ replaced \in Nat
    /\ thread \in [Threads -> ThreadRecords]

\* Where a thread is between its install and its return.
AfterInstall == {"publish", "commit", "revalidate", "reread", "write", "bump"}

\* Only what was installed is on its way to be published.
OnItsWay(t) ==
    /\ thread[t].pc \in AfterInstall => installs # <<>>
    /\ At(t, "commit") \/ At(t, "revalidate") => thread[t].tree \in InstalledTrees
    /\ At(t, "write") /\ runtime # "free-threaded" => thread[t].answer \in InstalledTrees
    /\ At(t, "write") \/ At(t, "bump") => ~Gil
    /\ (~Node /\ thread[t].pc \in {"candidate", "reread", "answer"}) => staged # <<>>

\* Who has claimed a validation and not counted it yet.
Publishing == {t \in Threads : thread[t].pc \in {"write", "bump"}}

\* A claim takes a sequence number above all the claimed ones, and none is
\* above the last one given out.
ClaimsAreCounted ==
    /\ \A i \in 1..Len(staged) : staged[i].sequence <= next_sequence
    /\ last_committed <= next_sequence
    /\ runtime # "free-threaded" =>
           /\ IsFiniteSet(Publishing)
           /\ generation + Cardinality(Publishing) <= last_committed + replaced

\* Under the GIL the staged model, once claimed, is what the program reads,
\* or it replaced it.
ClaimedIsRead ==
    (Gil /\ staged # <<>> /\ last_committed >= Pending.sequence) =>
        cache \in {Pending.tree, Handmade}

\* The inductive invariant of publishing.
BindingsInv ==
    /\ BindingShape /\ ClaimsAreCounted /\ ClaimedIsRead
    /\ \A t \in Threads : OnItsWay(t)
    /\ PublishedWasInstalled

\* Nothing installed, nothing published.
LEMMA BindingsInitInv == BindingsInit => BindingsInv
<1> SUFFICES ASSUME BindingsInit PROVE BindingsInv
  OBVIOUS
<1>1. AtRest \in ThreadRecords
  BY DEF AtRest, ThreadRecords, NoModel
<1>2. BindingShape
  BY <1>1, BindingsAssumption DEF BindingsInit, BindingShape, NoModel
<1>3. Publishing = {}
  BY DEF BindingsInit, Publishing, AtRest
<1>4. ClaimsAreCounted
  BY <1>3, FS_EmptySet DEF BindingsInit, ClaimsAreCounted
<1>5. ClaimedIsRead /\ PublishedWasInstalled /\ \A t \in Threads : OnItsWay(t)
  BY DEF BindingsInit, ClaimedIsRead, PublishedWasInstalled, OnItsWay, At, AtRest, AfterInstall
<1>. QED BY <1>2, <1>4, <1>5 DEF BindingsInv

\* The arithmetic of the count.
LEMMA CountKept ==
  ASSUME NEW g \in Nat, NEW h \in Nat, NEW l \in Nat, NEW m \in Nat, NEW r \in Nat, NEW q \in Nat,
         NEW n \in Nat, h + (l + r) <= g + (m + q), g + n <= l + r
  PROVE  h + n <= m + q
OBVIOUS

\* The count stays behind when no claim is added.
LEMMA CountStays ==
  ASSUME generation \in Nat, last_committed \in Nat, replaced \in Nat,
         generation' \in Nat, last_committed' \in Nat, replaced' \in Nat, NEW n \in Nat,
         generation + n <= last_committed + replaced,
         generation' + (last_committed + replaced) <= generation + (last_committed' + replaced')
  PROVE  generation' + n <= last_committed' + replaced'
<1>1. PICK g \in Nat, l \in Nat, r \in Nat : g = generation /\ l = last_committed /\ r = replaced
  OBVIOUS
<1>2. PICK h \in Nat, m \in Nat, q \in Nat : h = generation' /\ m = last_committed' /\ q = replaced'
  OBVIOUS
<1>3. h + (l + r) <= g + (m + q) /\ g + n <= l + r
  BY <1>1, <1>2
<1>4. h + n <= m + q
  BY <1>3, CountKept
<1>. QED BY <1>2, <1>4

USE DEF AfterInstall

\* One thread moves on, from thread[t] to r.
LEMMA OneThreadInv ==
  ASSUME BindingsInv, NEW t \in Threads, NEW r \in ThreadRecords,
         thread' = [thread EXCEPT ![t] = r], BindingShape', ClaimedIsRead',
         runtime' = runtime,
         \/ installs' = installs
         \/ \E tree \in Int : installs' = Append(installs, tree),
         r.pc \in AfterInstall => installs' # <<>>,
         r.pc \in {"commit", "revalidate"} => r.tree \in InstalledTrees',
         r.pc = "write" /\ runtime # "free-threaded" => r.answer \in InstalledTrees',
         r.pc \in {"write", "bump"} => ~Gil,
         ~Node /\ (staged # <<>> \/ r.pc \in {"candidate", "reread", "answer"}) => staged' # <<>>,
         runtime # "free-threaded" =>
            cache' = cache \/ cache' \in {Handmade} \union InstalledTrees',
         \A i \in 1..Len(staged') : staged'[i].sequence <= next_sequence',
         last_committed' <= next_sequence', last_committed' >= last_committed, replaced' >= replaced,
         runtime # "free-threaded" =>
            \/ /\ r.pc \in {"write", "bump"} <=> thread[t].pc \in {"write", "bump"}
               /\ generation' + (last_committed + replaced) <= generation + (last_committed' + replaced')
            \/ /\ r.pc \in {"write", "bump"} /\ thread[t].pc \notin {"write", "bump"}
               /\ generation' = generation /\ last_committed' > last_committed
            \/ /\ r.pc \notin {"write", "bump"} /\ thread[t].pc \in {"write", "bump"}
               /\ generation' = generation + 1
  PROVE  BindingsInv'
<1>0. thread'[t] = r /\ \A u \in Threads \ {t} : thread'[u] = thread[u]
  BY DEF BindingsInv, BindingShape
<1>1. InstalledTrees \subseteq InstalledTrees' /\ (installs # <<>> => installs' # <<>>)
  <2>1. CASE installs' = installs
    BY <2>1 DEF InstalledTrees
  <2>2. ASSUME NEW tree \in Int, installs' = Append(installs, tree)
        PROVE  InstalledTrees \subseteq InstalledTrees' /\ installs' # <<>>
    <3>1. /\ installs \in Seq(Int) /\ Len(installs') = Len(installs) + 1 /\ Len(installs) \in Nat
          /\ \A i \in 1..Len(installs) : installs'[i] = installs[i]
      BY <2>2 DEF BindingsInv, BindingShape
    <3>2. \A i \in 1..Len(installs) : i \in 1..Len(installs')
      BY <3>1
    <3>3. installs' # <<>>
      BY <3>1
    <3>. QED BY <3>1, <3>2, <3>3 DEF InstalledTrees
  <2>. QED BY <2>1, <2>2
<1>2. \A u \in Threads : OnItsWay(u)'
  <2>1. OnItsWay(t)'
    BY <1>0 DEF OnItsWay, At, Gil, Node
  <2>2. ASSUME NEW u \in Threads \ {t} PROVE OnItsWay(u)'
    BY <1>0, <1>1 DEF BindingsInv, OnItsWay, At, Gil, Node
  <2>. QED BY <2>1, <2>2
<1>3. PublishedWasInstalled'
  BY <1>1 DEF BindingsInv, PublishedWasInstalled, InstalledTrees
<1>4. ClaimsAreCounted'
  <2>1. CASE runtime = "free-threaded"
    BY <2>1 DEF ClaimsAreCounted
  <2>2. CASE runtime # "free-threaded"
    <3>1. /\ IsFiniteSet(Publishing) /\ Cardinality(Publishing) \in Nat
          /\ generation + Cardinality(Publishing) <= last_committed + replaced
      BY <2>2, FS_CardinalityType DEF BindingsInv, ClaimsAreCounted
    <3>2. /\ generation \in Nat /\ last_committed \in Nat /\ replaced \in Nat
          /\ generation' \in Nat /\ last_committed' \in Nat /\ replaced' \in Nat
      BY DEF BindingsInv, BindingShape
    <3>3. CASE /\ r.pc \in {"write", "bump"} <=> thread[t].pc \in {"write", "bump"}
               /\ generation' + (last_committed + replaced) <= generation + (last_committed' + replaced')
      <4>1. Publishing' = Publishing
        BY <1>0, <3>3 DEF Publishing
      <4>2. generation' + Cardinality(Publishing) <= last_committed' + replaced'
        <5>1. PICK n \in Nat : n = Cardinality(Publishing)
          BY <3>1
        <5>2. generation + n <= last_committed + replaced
          BY <3>1, <5>1
        <5>3. generation' + (last_committed + replaced) <= generation + (last_committed' + replaced')
          BY <3>3
        <5>4. generation' + n <= last_committed' + replaced'
          BY <3>2, <5>2, <5>3, CountStays
        <5>. QED BY <5>1, <5>4
      <4>. QED BY <2>2, <3>1, <4>1, <4>2 DEF ClaimsAreCounted
    <3>4. CASE /\ r.pc \in {"write", "bump"} /\ thread[t].pc \notin {"write", "bump"}
               /\ generation' = generation /\ last_committed' > last_committed
      <4>1. Publishing' = Publishing \cup {t} /\ t \notin Publishing
        BY <1>0, <3>4 DEF Publishing
      <4>2. IsFiniteSet(Publishing') /\ Cardinality(Publishing') = Cardinality(Publishing) + 1
        BY <3>1, <4>1, FS_AddElement
      <4>3. generation' + Cardinality(Publishing') <= last_committed' + replaced'
        BY <3>1, <3>2, <3>4, <4>2
      <4>. QED BY <2>2, <4>2, <4>3 DEF ClaimsAreCounted
    <3>5. CASE /\ r.pc \notin {"write", "bump"} /\ thread[t].pc \in {"write", "bump"}
               /\ generation' = generation + 1
      <4>1. Publishing' = Publishing \ {t} /\ t \in Publishing
        BY <1>0, <3>5 DEF Publishing
      <4>2. IsFiniteSet(Publishing') /\ Cardinality(Publishing') = Cardinality(Publishing) - 1
        BY <3>1, <4>1, FS_RemoveElement
      <4>3. generation' + Cardinality(Publishing') <= last_committed' + replaced'
        BY <3>1, <3>2, <3>5, <4>2
      <4>. QED BY <2>2, <4>2, <4>3 DEF ClaimsAreCounted
    <3>. QED BY <2>2, <3>3, <3>4, <3>5
  <2>. QED BY <2>1, <2>2
<1>. QED BY <1>2, <1>3, <1>4 DEF BindingsInv

\* What is known of a thread about to move.
LEMMA ThreadFacts ==
  ASSUME BindingsInv, NEW t \in Threads
  PROVE  /\ thread[t] \in ThreadRecords /\ thread \in [Threads -> ThreadRecords] /\ OnItsWay(t)
         /\ edit \in Nat /\ installs \in Seq(Int) /\ staged \in Seq(Validations)
         /\ next_sequence \in Nat /\ last_committed \in Nat /\ last_committed <= next_sequence
         /\ cache \in Int /\ generation \in Nat /\ replaced \in Nat
         /\ \A i \in 1..Len(staged) :
                staged[i].sequence \in Nat /\ staged[i].tree \in Int /\ staged[i].sequence <= next_sequence
<1>1. /\ thread[t] \in ThreadRecords /\ thread \in [Threads -> ThreadRecords] /\ OnItsWay(t)
      /\ edit \in Nat /\ installs \in Seq(Int) /\ staged \in Seq(Validations)
      /\ next_sequence \in Nat /\ last_committed \in Nat /\ last_committed <= next_sequence
      /\ cache \in Int /\ generation \in Nat /\ replaced \in Nat
  BY DEF BindingsInv, BindingShape, ClaimsAreCounted
<1>2. ASSUME NEW i \in 1..Len(staged)
      PROVE  staged[i].sequence \in Nat /\ staged[i].tree \in Int /\ staged[i].sequence <= next_sequence
  <2>1. staged[i] \in Validations
    BY <1>1
  <2>. QED BY <2>1 DEF BindingsInv, ClaimsAreCounted, Validations
<1>. QED BY <1>1, <1>2

\* The records a thread becomes.
LEMMA ThreadMoves ==
  ASSUME BindingsInv, NEW t \in Threads,
         NEW pc \in {"idle", "publish", "install", "candidate", "revalidate", "reread", "answer", "bump"},
         To(t, pc)
  PROVE  \E r \in ThreadRecords :
            /\ thread' = [thread EXCEPT ![t] = r] /\ r.pc = pc
            /\ pc # "idle" => r.tree = thread[t].tree
<1>. DEFINE r == IF pc = "idle" THEN AtRest ELSE [thread[t] EXCEPT !.pc = pc]
<1>1. thread' = [thread EXCEPT ![t] = r]
  BY DEF To
<1>2. r \in ThreadRecords /\ r.pc = pc /\ (pc # "idle" => r.tree = thread[t].tree)
  <2>1. thread[t] \in ThreadRecords
    BY ThreadFacts
  <2>2. CASE pc = "idle"
    BY <2>2 DEF AtRest, ThreadRecords, NoModel
  <2>3. CASE pc # "idle"
    BY <2>1, <2>3 DEF ThreadRecords
  <2>. QED BY <2>2, <2>3
<1>. HIDE DEF r
<1>. QED BY <1>1, <1>2

\* A step that neither installs, claims nor publishes; what is staged may
\* change, and then it is not claimed.
LEMMA QuietInv ==
  ASSUME BindingsInv, NEW t \in Threads, NEW r \in ThreadRecords,
         thread' = [thread EXCEPT ![t] = r],
         UNCHANGED <<runtime, edit, installs, last_committed, publishedVars>>,
         staged' \in Seq(Validations), next_sequence' \in Nat, next_sequence <= next_sequence',
         \A i \in 1..Len(staged') : staged'[i].sequence <= next_sequence',
         \/ staged' = staged
         \/ ~Gil
         \/ staged'[1].sequence > last_committed,
         thread[t].pc \notin {"write", "bump"}, r.pc \notin {"write", "bump"},
         r.pc \in AfterInstall => installs # <<>>,
         r.pc \in {"commit", "revalidate"} => r.tree \in InstalledTrees,
         ~Node /\ (staged # <<>> \/ r.pc \in {"candidate", "reread", "answer"}) => staged' # <<>>
  PROVE  BindingsInv'
<1>0. UNCHANGED <<cache, generation, replaced, InstalledTrees>>
  BY DEF publishedVars, InstalledTrees
<1>1. BindingShape'
  BY <1>0, ThreadFacts DEF BindingsInv, BindingShape
<1>2. ClaimedIsRead'
  <2>1. CASE staged' = staged
    BY <1>0, <2>1 DEF BindingsInv, ClaimedIsRead, Gil, Pending
  <2>2. CASE ~Gil
    BY <2>2 DEF ClaimedIsRead, Gil
  <2>3. CASE staged'[1].sequence > last_committed /\ staged' # <<>>
    <3>1. 1 \in 1..Len(staged')
      BY <2>3
    <3>2. staged'[1] \in Validations
      BY <3>1
    <3>3. staged'[1].sequence \in Nat
      BY <3>2 DEF Validations
    <3>. QED BY <2>3, <3>3, ThreadFacts DEF ClaimedIsRead, Pending
  <2>4. CASE staged' = <<>>
    BY <2>4 DEF ClaimedIsRead
  <2>. QED BY <2>1, <2>2, <2>3, <2>4
<1>4. /\ last_committed' = last_committed /\ replaced' = replaced /\ generation' = generation
      /\ generation \in Nat /\ last_committed \in Nat /\ replaced \in Nat
  BY <1>0, ThreadFacts DEF publishedVars
<1>5. PICK g \in Nat, l \in Nat, q \in Nat : g = generation /\ l = last_committed /\ q = replaced
  BY <1>4
<1>6. g + (l + q) <= g + (l + q) /\ l >= l /\ q >= q
  OBVIOUS
<1>7. last_committed' <= next_sequence'
  BY <1>4, ThreadFacts
<1>3. /\ last_committed' <= next_sequence' /\ last_committed' >= last_committed
      /\ replaced' >= replaced
      /\ generation' + (last_committed + replaced) <= generation + (last_committed' + replaced')
  <2>1. last_committed' = l /\ replaced' = q /\ generation' = g
    BY <1>4, <1>5
  <2>. QED BY <1>5, <1>6, <1>7, <2>1
<1>. QED BY <1>0, <1>1, <1>2, <1>3, OneThreadInv

\* A step that only moves the thread.
LEMMA MoveInv ==
  ASSUME BindingsInv, NEW t \in Threads, NEW r \in ThreadRecords,
         thread' = [thread EXCEPT ![t] = r],
         UNCHANGED <<runtime, edit, installs, staged, next_sequence, last_committed, publishedVars>>,
         thread[t].pc \notin {"write", "bump"}, r.pc \notin {"write", "bump"},
         r.pc \in AfterInstall => installs # <<>>,
         r.pc \in {"commit", "revalidate"} => r.tree \in InstalledTrees,
         r.pc \in {"candidate", "reread", "answer"} => Node \/ staged # <<>>
  PROVE  BindingsInv'
<1>1. /\ staged' \in Seq(Validations) /\ next_sequence' \in Nat /\ next_sequence <= next_sequence'
      /\ \A i \in 1..Len(staged') : staged'[i].sequence <= next_sequence'
  BY ThreadFacts
<1>. QED BY <1>1, QuietInv

\* StageInPython and StageInNode.
LEMMA StagingInv ==
  ASSUME BindingsInv, NEW t \in Threads, NEW tree \in Int, StageInPython(tree) \/ StageInNode(tree)
  PROVE  /\ staged' \in Seq(Validations) /\ next_sequence' \in Nat /\ next_sequence <= next_sequence'
         /\ \A i \in 1..Len(staged') : staged'[i].sequence <= next_sequence'
         /\ StageInPython(tree) => staged'[1].sequence > last_committed /\ staged' # <<>>
<1>. DEFINE v == Validated(tree)
<1>0. v \in Validations /\ v.sequence = next_sequence + 1
  BY ThreadFacts DEF Validated, Validations
<1>1. CASE StageInPython(tree)
  <2>1. next_sequence' = next_sequence + 1 /\ staged' = <<v>>
    BY <1>1 DEF StageInPython
  <2>. HIDE DEF v
  <2>2. staged' \in Seq(Validations) /\ Len(staged') = 1 /\ staged'[1] = v
    BY <1>0, <2>1
  <2>. QED BY <1>0, <2>1, <2>2, ThreadFacts
<1>2. CASE StageInNode(tree) /\ ~StageInPython(tree)
  <2>. DEFINE q == Append(staged, v)
  <2>1. next_sequence' = next_sequence + 1 /\ (staged' = q \/ (staged' = Tail(q)))
    BY <1>2 DEF StageInNode
  <2>. HIDE DEF v
  <2>2. /\ q \in Seq(Validations) /\ Len(q) = Len(staged) + 1 /\ Len(staged) \in Nat
        /\ \A i \in 1..Len(staged) : q[i] = staged[i] /\ q[Len(staged) + 1] = v
        /\ q[Len(staged) + 1] = v
    BY <1>0, ThreadFacts
  <2>. HIDE DEF q
  <2>3. ASSUME NEW i \in 1..Len(q) PROVE q[i].sequence <= next_sequence'
    <3>1. CASE i \in 1..Len(staged)
      <4>1. q[i] = staged[i] /\ staged[i].sequence \in Nat /\ staged[i].sequence <= next_sequence
        BY <2>2, <3>1, ThreadFacts
      <4>. QED BY <2>1, <4>1, ThreadFacts
    <3>2. CASE i = Len(staged) + 1
      BY <1>0, <2>1, <2>2, <3>2, ThreadFacts
    <3>. QED BY <2>2, <3>1, <3>2
  <2>4. CASE staged' = q
    BY <1>2, <2>1, <2>2, <2>3, <2>4, ThreadFacts
  <2>5. CASE staged' = Tail(q)
    <3>1. /\ Tail(q) \in Seq(Validations) /\ Len(Tail(q)) = Len(staged)
          /\ \A i \in 1..Len(staged) : Tail(q)[i] = q[i + 1] /\ i + 1 \in 1..Len(q)
      BY <2>2
    <3>. QED BY <1>2, <2>1, <2>2, <2>3, <2>5, <3>1, ThreadFacts
  <2>. QED BY <2>1, <2>4, <2>5
<1>. QED BY <1>1, <1>2

\* A call begins.
LEMMA CallInv ==
  ASSUME BindingsInv, NEW t \in Threads, NEW what \in {"reload", "load", "watch"}, Call(t, what)
  PROVE  BindingsInv'
<1>. DEFINE r == [thread[t] EXCEPT !.pc = "validate", !.what = what, !.tree = edit, !.answer = NoModel]
<1>1. r \in ThreadRecords /\ r.pc = "validate"
  <2>1. thread[t] \in ThreadRecords /\ edit \in Int /\ NoModel \in Int
    BY ThreadFacts DEF NoModel
  <2>2. what \in {"", "reload", "load", "watch"}
    OBVIOUS
  <2>. QED BY <2>1, <2>2 DEF ThreadRecords
<1>2. /\ thread' = [thread EXCEPT ![t] = r] /\ thread[t].pc = "idle"
      /\ UNCHANGED <<runtime, edit, installs, stagingVars, publishedVars>>
  BY DEF Call, At
<1>. HIDE DEF r
<1>3. UNCHANGED <<staged, next_sequence, last_committed>>
  BY <1>2 DEF stagingVars
<1>. QED BY <1>1, <1>2, <1>3, MoveInv

\* The engine asks for a validation, and it is staged.
LEMMA ValidateInv == ASSUME BindingsInv, NEW t \in Threads, Validate(t) PROVE BindingsInv'
<1>0. /\ thread[t].pc = "validate" /\ thread[t].tree \in Int
      /\ UNCHANGED <<runtime, edit, installs, last_committed, publishedVars>>
  BY ThreadFacts DEF Validate, At, ThreadRecords
<1>1. PICK pc \in {"idle", "candidate", "install"} :
        To(t, pc) /\ IF pc = "idle" THEN UNCHANGED <<staged, next_sequence>> ELSE Stage(t)
  BY DEF Validate
<1>2. PICK r \in ThreadRecords : thread' = [thread EXCEPT ![t] = r] /\ r.pc = pc
  BY <1>1, ThreadMoves
<1>3. CASE UNCHANGED <<staged, next_sequence>> /\ (pc = "idle" \/ Node)
  BY <1>0, <1>2, <1>3, MoveInv
<1>4. CASE StageInPython(thread[t].tree)
  BY <1>0, <1>2, <1>4, StagingInv, QuietInv
<1>5. CASE StageInNode(thread[t].tree) /\ Node
  BY <1>0, <1>2, <1>5, StagingInv, QuietInv DEF Node, Gil
<1>6. CASE pc # "idle"
  <2>1. Stage(t)
    BY <1>1, <1>6
  <2>2. \/ UNCHANGED <<staged, next_sequence>> /\ Node
        \/ StageInPython(thread[t].tree)
        \/ StageInNode(thread[t].tree) /\ Node
    BY <2>1 DEF Stage, StageInPython, StageInNode
  <2>. QED BY <1>3, <1>4, <1>5, <2>2
<1>. QED BY <1>1, <1>3, <1>6

\* The engine installs what was validated.
LEMMA InstallInv == ASSUME BindingsInv, NEW t \in Threads, Install(t) PROVE BindingsInv'
<1>. DEFINE tree == thread[t].tree
<1>0. /\ thread[t].pc = "install" /\ tree \in Int /\ installs' = Append(installs, tree)
      /\ UNCHANGED <<runtime, edit, stagingVars, publishedVars>>
  BY ThreadFacts DEF Install, At, ThreadRecords
<1>1. UNCHANGED <<staged, next_sequence, last_committed, cache, generation, replaced>>
  BY <1>0 DEF stagingVars, publishedVars
<1>2. PICK r \in ThreadRecords : /\ thread' = [thread EXCEPT ![t] = r]
                                 /\ r.pc \in {"idle", "publish", "commit"}
                                 /\ r.pc = "commit" => r.tree = tree
  <2>1. CASE To(t, "publish") \/ To(t, "idle")
    BY <2>1, ThreadMoves
  <2>2. CASE thread' = [thread EXCEPT ![t].pc = "commit", ![t].commits = "hook"]
    <3>. DEFINE r == [thread[t] EXCEPT !.pc = "commit", !.commits = "hook"]
    <3>1. r \in ThreadRecords /\ r.pc = "commit" /\ r.tree = tree
      BY ThreadFacts DEF ThreadRecords
    <3>2. thread' = [thread EXCEPT ![t] = r]
      BY <2>2
    <3>. HIDE DEF r, tree
    <3>. QED BY <3>1, <3>2
  <2>. QED BY <2>1, <2>2 DEF Install
<1>. HIDE DEF tree
<1>3. installs' \in Seq(Int) /\ installs' # <<>> /\ tree \in InstalledTrees'
  <2>1. /\ installs' \in Seq(Int) /\ Len(installs') = Len(installs) + 1 /\ Len(installs) \in Nat
        /\ installs'[Len(installs')] = tree
    BY <1>0, ThreadFacts
  <2>2. Len(installs') \in 1..Len(installs')
    BY <2>1
  <2>3. installs' # <<>>
    BY <2>1
  <2>. QED BY <2>1, <2>2, <2>3 DEF InstalledTrees
<1>4. BindingShape' /\ ClaimedIsRead'
  BY <1>0, <1>1, <1>2, <1>3, ThreadFacts DEF BindingsInv, BindingShape, ClaimedIsRead, Gil, Pending
<1>5. /\ last_committed' <= next_sequence' /\ last_committed' >= last_committed
      /\ replaced' >= replaced
      /\ generation' + (last_committed + replaced) <= generation + (last_committed' + replaced')
      /\ \A i \in 1..Len(staged') : staged'[i].sequence <= next_sequence'
  BY <1>1, ThreadFacts
<1>. QED BY <1>0, <1>1, <1>2, <1>3, <1>4, <1>5, OneThreadInv

\* The first install publishes the current tree.
LEMMA PublishCurrentInv == ASSUME BindingsInv, NEW t \in Threads, PublishCurrent(t) PROVE BindingsInv'
<1>. DEFINE tree == installs[Len(installs)]
            r == [thread[t] EXCEPT !.pc = "commit", !.tree = tree, !.commits = "caller"]
<1>0. /\ thread[t].pc = "publish" /\ thread' = [thread EXCEPT ![t] = r]
      /\ UNCHANGED <<runtime, edit, installs, staged, next_sequence, last_committed, publishedVars>>
  BY DEF PublishCurrent, At, stagingVars
<1>1. tree \in InstalledTrees /\ tree \in Int
  <2>1. installs # <<>> /\ installs \in Seq(Int)
    BY <1>0, ThreadFacts DEF OnItsWay, At
  <2>2. Len(installs) \in 1..Len(installs)
    BY <2>1
  <2>. QED BY <2>1, <2>2 DEF InstalledTrees
<1>. HIDE DEF tree
<1>2. r \in ThreadRecords /\ r.pc = "commit" /\ r.tree = tree
  BY <1>1, ThreadFacts DEF ThreadRecords
<1>. HIDE DEF r
<1>3. installs # <<>>
  BY <1>0, ThreadFacts DEF OnItsWay
<1>. QED BY <1>0, <1>1, <1>2, <1>3, MoveInv

\* Where a thread goes after its commit: what was installed is still there.
LEMMA DoneMoves ==
  ASSUME BindingsInv, NEW t \in Threads, To(t, Done(t)), thread[t].tree \in InstalledTrees \/ installs # <<>>
  PROVE  \E r \in ThreadRecords : /\ thread' = [thread EXCEPT ![t] = r]
                                  /\ r.pc \in {"publish", "idle"}
                                  /\ r.pc = "publish" => installs # <<>>
<1>1. Done(t) \in {"publish", "idle"}
  BY DEF Done
<1>2. installs # <<>>
  BY ThreadFacts DEF InstalledTrees
<1>. QED BY <1>1, <1>2, ThreadMoves

\* Under the GIL a claim, the model and its generation are one step.
LEMMA ClaimInv ==
  ASSUME BindingsInv, NEW t \in Threads, NEW r \in ThreadRecords, NEW tree \in InstalledTrees, NEW seq \in Nat,
         thread' = [thread EXCEPT ![t] = r],
         thread[t].pc \in {"commit", "revalidate"}, r.pc \in {"publish", "idle"},
         r.pc = "publish" => installs # <<>>,
         UNCHANGED <<runtime, edit, installs, replaced>>,
         last_committed' = seq, seq > last_committed, seq <= next_sequence',
         cache' = tree, generation' = generation + 1,
         staged' \in Seq(Validations), next_sequence' \in Nat,
         \A i \in 1..Len(staged') : staged'[i].sequence <= next_sequence',
         staged'[1].tree = tree, staged' # <<>>
  PROVE  BindingsInv'
<1>1. tree \in Int /\ InstalledTrees' = InstalledTrees
  BY ThreadFacts DEF InstalledTrees
<1>2. BindingShape'
  BY <1>1, ThreadFacts DEF BindingsInv, BindingShape
<1>3. ClaimedIsRead'
  BY DEF ClaimedIsRead, Pending
<1>4. last_committed' <= next_sequence' /\ last_committed' >= last_committed /\ replaced' >= replaced
  BY ThreadFacts
<1>5. generation' + (last_committed + replaced) <= generation + (last_committed' + replaced')
  <2>1. generation \in Nat /\ last_committed \in Nat /\ replaced \in Nat /\ replaced' = replaced
    BY ThreadFacts
  <2>. QED BY <2>1
<1>. QED BY <1>1, <1>2, <1>3, <1>4, <1>5, OneThreadInv

\* Without it a claim only takes the model along.
LEMMA TakesAlongInv ==
  ASSUME BindingsInv, NEW t \in Threads, NEW tree \in Int, NEW seq \in Nat,
         thread' = [thread EXCEPT ![t].pc = "write", ![t].answer = tree],
         ~Gil, thread[t].pc \in {"commit", "reread"},
         runtime # "free-threaded" => tree \in InstalledTrees /\ seq > last_committed,
         UNCHANGED <<runtime, edit, installs, next_sequence, publishedVars>>,
         last_committed' = seq, seq >= last_committed, seq <= next_sequence,
         staged' \in Seq(Validations), Node \/ staged' = staged,
         \A i \in 1..Len(staged') : staged'[i].sequence <= next_sequence
  PROVE  BindingsInv'
<1>. DEFINE r == [thread[t] EXCEPT !.pc = "write", !.answer = tree]
<1>0. UNCHANGED <<cache, generation, replaced, InstalledTrees>>
  BY DEF publishedVars, InstalledTrees
<1>1. r \in ThreadRecords /\ r.pc = "write" /\ r.answer = tree
  BY ThreadFacts DEF ThreadRecords
<1>2. thread' = [thread EXCEPT ![t] = r]
  OBVIOUS
<1>. HIDE DEF r
<1>3. BindingShape'
  BY <1>0, <1>1, <1>2, ThreadFacts DEF BindingsInv, BindingShape
<1>4. ClaimedIsRead'
  BY DEF ClaimedIsRead, Gil
<1>5. /\ last_committed' <= next_sequence' /\ last_committed' >= last_committed
      /\ replaced' >= replaced /\ installs' # <<>>
  BY <1>0, ThreadFacts DEF OnItsWay
<1>. QED BY <1>0, <1>1, <1>2, <1>3, <1>4, <1>5, OneThreadInv

\* commit in Python: claim what was staged, or validate again.
LEMMA CommitInPythonInv == ASSUME BindingsInv, NEW t \in Threads, CommitInPython(t) PROVE BindingsInv'
<1>0. /\ ~Node /\ thread[t].pc = "commit" /\ thread[t].tree \in InstalledTrees /\ thread[t].tree \in Int
      /\ installs # <<>>
      /\ UNCHANGED <<runtime, edit, installs, staged, next_sequence>>
  BY ThreadFacts DEF CommitInPython, At, OnItsWay, ThreadRecords
<1>. DEFINE Mine == staged # <<>> /\ Pending.tree = thread[t].tree
            Claimed == last_committed >= Pending.sequence
<1>a. Mine => Pending.sequence \in Nat /\ Pending.sequence <= next_sequence
  <2>1. staged # <<>> => 1 \in 1..Len(staged)
    BY ThreadFacts
  <2>. QED BY <2>1, ThreadFacts DEF Pending
<1>1. CASE Mine /\ Claimed
  <2>1. To(t, Done(t)) /\ UNCHANGED <<last_committed, publishedVars>>
    BY <1>1, <1>a, ThreadFacts DEF CommitInPython
  <2>2. PICK r \in ThreadRecords : /\ thread' = [thread EXCEPT ![t] = r]
                                   /\ r.pc \in {"publish", "idle"} /\ (r.pc = "publish" => installs # <<>>)
    BY <1>0, <2>1, DoneMoves
  <2>. QED BY <1>0, <2>1, <2>2, MoveInv
<1>2. CASE Mine /\ ~Claimed
  <2>. DEFINE seq == Pending.sequence
  <2>0. /\ Pending.tree = thread[t].tree /\ seq \in Nat /\ seq > last_committed /\ seq <= next_sequence
    BY <1>2, <1>a, ThreadFacts
  <2>1. Mine /\ last_committed < Pending.sequence
    BY <1>2, <2>0
  <2>2. /\ last_committed' = seq
        /\ IF Gil THEN cache' = Pending.tree /\ generation' = generation + 1 /\ To(t, Done(t))
           ELSE /\ thread' = [thread EXCEPT ![t].pc = "write", ![t].answer = Pending.tree]
                /\ UNCHANGED <<cache, generation>>
        /\ UNCHANGED replaced
    BY <1>2, <2>1 DEF CommitInPython
  <2>. HIDE DEF seq
  <2>3. CASE Gil
    <3>1. PICK r \in ThreadRecords : /\ thread' = [thread EXCEPT ![t] = r]
                                     /\ r.pc \in {"publish", "idle"} /\ (r.pc = "publish" => installs # <<>>)
      BY <1>0, <2>2, <2>3, DoneMoves
    <3>2. /\ staged' \in Seq(Validations) /\ next_sequence' \in Nat /\ seq <= next_sequence'
          /\ \A i \in 1..Len(staged') : staged'[i].sequence <= next_sequence'
          /\ staged'[1].tree = thread[t].tree /\ staged' # <<>>
      BY <1>0, <1>2, <2>0, ThreadFacts DEF Pending
    <3>3. cache' = thread[t].tree /\ generation' = generation + 1
      BY <2>0, <2>2, <2>3
    <3>. QED BY <1>0, <2>0, <2>2, <3>1, <3>2, <3>3, ClaimInv
  <2>4. CASE ~Gil
    <3>1. thread' = [thread EXCEPT ![t].pc = "write", ![t].answer = thread[t].tree]
      BY <2>0, <2>2, <2>4
    <3>2. UNCHANGED publishedVars
      BY <2>2, <2>4 DEF publishedVars
    <3>3. /\ staged' \in Seq(Validations) /\ seq >= last_committed
          /\ \A i \in 1..Len(staged') : staged'[i].sequence <= next_sequence
      BY <1>0, <2>0, ThreadFacts
    <3>. QED BY <1>0, <2>0, <2>2, <2>4, <3>1, <3>2, <3>3, TakesAlongInv
  <2>. QED BY <2>3, <2>4
<1>3. CASE ~Mine
  <2>1. To(t, "revalidate") /\ UNCHANGED <<last_committed, publishedVars>>
    BY <1>3 DEF CommitInPython
  <2>2. PICK r \in ThreadRecords : /\ thread' = [thread EXCEPT ![t] = r]
                                   /\ r.pc = "revalidate" /\ r.tree = thread[t].tree
    BY <2>1, ThreadMoves
  <2>. QED BY <1>0, <2>1, <2>2, MoveInv
<1>. QED BY <1>1, <1>2, <1>3

\* A tree nobody staged is validated again.
LEMMA RevalidateInv == ASSUME BindingsInv, NEW t \in Threads, Revalidate(t) PROVE BindingsInv'
<1>0. /\ ~Node /\ thread[t].pc = "revalidate" /\ thread[t].tree \in InstalledTrees /\ thread[t].tree \in Int
      /\ installs # <<>>
      /\ UNCHANGED <<runtime, edit, installs, replaced>> /\ StageInPython(thread[t].tree)
  BY ThreadFacts DEF Revalidate, At, OnItsWay, ThreadRecords
<1>1. CASE Gil
  <2>1. /\ last_committed' = next_sequence' /\ cache' = thread[t].tree /\ generation' = generation + 1
        /\ To(t, Done(t))
    BY <1>1 DEF Revalidate
  <2>2. PICK r \in ThreadRecords : /\ thread' = [thread EXCEPT ![t] = r]
                                   /\ r.pc \in {"publish", "idle"} /\ (r.pc = "publish" => installs # <<>>)
    BY <1>0, <2>1, DoneMoves
  <2>3. next_sequence' = next_sequence + 1 /\ staged'[1].tree = thread[t].tree
    BY <1>0 DEF StageInPython, Validated
  <2>4. next_sequence' \in Nat /\ next_sequence' > last_committed /\ next_sequence' <= next_sequence'
    BY <2>3, ThreadFacts
  <2>. QED BY <1>0, <2>1, <2>2, <2>3, <2>4, StagingInv, ClaimInv
<1>2. CASE ~Gil
  <2>1. To(t, "reread") /\ UNCHANGED <<last_committed, publishedVars>>
    BY <1>0, <1>2 DEF Revalidate, publishedVars
  <2>2. PICK r \in ThreadRecords : thread' = [thread EXCEPT ![t] = r] /\ r.pc = "reread"
    BY <2>1, ThreadMoves
  <2>. QED BY <1>0, <2>1, <2>2, StagingInv, QuietInv
<1>. QED BY <1>1, <1>2

\* A watch publishes what is pending.
LEMMA RereadInv == ASSUME BindingsInv, NEW t \in Threads, Reread(t) PROVE BindingsInv'
<1>. DEFINE tree == Pending.tree
            seq == IF Pending.sequence > last_committed THEN Pending.sequence ELSE last_committed
<1>0. /\ ~Node /\ ~Gil /\ thread[t].pc = "reread" /\ staged # <<>> /\ last_committed' = seq
      /\ thread' = [thread EXCEPT ![t].pc = "write", ![t].answer = tree]
      /\ UNCHANGED <<runtime, edit, installs, staged, next_sequence, publishedVars>>
  BY ThreadFacts DEF Reread, At, OnItsWay
<1>1. runtime = "free-threaded"
  BY <1>0 DEF BindingsInv, BindingShape, Node, Gil
<1>2. Pending.sequence \in Nat /\ Pending.sequence <= next_sequence /\ Pending.tree \in Int
  <2>1. 1 \in 1..Len(staged)
    BY <1>0, ThreadFacts
  <2>. QED BY <2>1, ThreadFacts DEF Pending
<1>3. seq \in Nat /\ seq >= last_committed /\ seq <= next_sequence /\ tree \in Int
  BY <1>2, ThreadFacts
<1>. HIDE DEF seq, tree
<1>4. staged' \in Seq(Validations) /\ \A i \in 1..Len(staged') : staged'[i].sequence <= next_sequence
  BY <1>0, ThreadFacts
<1>. QED BY <1>0, <1>1, <1>3, <1>4, TakesAlongInv

\* A load's answer.
LEMMA AnswerRecord ==
  ASSUME BindingsInv, NEW t \in Threads, NEW tree \in Int, Answers(t, tree)
  PROVE  \E r \in ThreadRecords : thread' = [thread EXCEPT ![t] = r] /\ r.pc = "idle" /\ r.answer = tree
<1>. DEFINE r == [AtRest EXCEPT !.answer = tree]
<1>0. AtRest \in ThreadRecords /\ AtRest.pc = "idle"
  BY DEF AtRest, ThreadRecords, NoModel
<1>1. r \in ThreadRecords /\ r.pc = "idle" /\ r.answer = tree
  BY <1>0 DEF ThreadRecords
<1>2. thread' = [thread EXCEPT ![t] = r]
  BY DEF Answers
<1>. HIDE DEF r
<1>. QED BY <1>1, <1>2

\* A load that does not install.
LEMMA CandidateInv ==
  ASSUME BindingsInv, NEW t \in Threads, CandidateInPython(t) \/ AnswerStaged(t) \/ CandidateInNode(t)
  PROVE  BindingsInv'
<1>0. /\ thread[t].pc \in {"candidate", "answer"} /\ thread[t].tree \in Int
      /\ UNCHANGED <<runtime, edit, installs, last_committed, publishedVars>>
  BY ThreadFacts DEF CandidateInPython, AnswerStaged, CandidateInNode, At, ThreadRecords, stagingVars
<1>1. ASSUME NEW tree \in Int, Answers(t, tree), UNCHANGED <<staged, next_sequence>>
      PROVE  BindingsInv'
  <2>1. PICK r \in ThreadRecords : thread' = [thread EXCEPT ![t] = r] /\ r.pc = "idle"
    BY <1>1, AnswerRecord
  <2>. QED BY <1>0, <1>1, <2>1, MoveInv
<1>2. ~Node => Pending.tree \in Int
  <2>1. ~Node => 1 \in 1..Len(staged)
    BY <1>0, ThreadFacts DEF OnItsWay
  <2>. QED BY <2>1, ThreadFacts DEF Pending
<1>3. CASE CandidateInNode(t)
  BY <1>0, <1>1, <1>3 DEF CandidateInNode, stagingVars
<1>4. CASE AnswerStaged(t)
  BY <1>0, <1>1, <1>2, <1>4 DEF AnswerStaged, stagingVars
<1>5. CASE CandidateInPython(t)
  <2>1. CASE Pending.tree = thread[t].tree
    BY <1>0, <1>1, <1>2, <1>5, <2>1 DEF CandidateInPython
  <2>2. CASE Pending.tree # thread[t].tree
    <3>1. StageInPython(thread[t].tree) /\ (Answers(t, thread[t].tree) \/ To(t, "answer"))
      BY <1>5, <2>2 DEF CandidateInPython
    <3>2. PICK r \in ThreadRecords : thread' = [thread EXCEPT ![t] = r] /\ r.pc \in {"idle", "answer"}
      BY <1>0, <3>1, AnswerRecord, ThreadMoves
    <3>. QED BY <1>0, <3>1, <3>2, StagingInv, QuietInv
  <2>. QED BY <2>1, <2>2
<1>. QED BY <1>3, <1>4, <1>5

\* replace, the write of the model and the count of its generation.
LEMMA WriteInv ==
  ASSUME BindingsInv, NEW t \in Threads, Replace(t) \/ WriteCache(t) \/ Bump(t)
  PROVE  BindingsInv'
<1>0. /\ UNCHANGED <<runtime, edit, installs, staged, next_sequence, last_committed, InstalledTrees>>
      /\ thread[t].answer \in Int
      /\ \A i \in 1..Len(staged') : staged'[i].sequence <= next_sequence'
      /\ last_committed' <= next_sequence' /\ last_committed' >= last_committed
      /\ ~Node /\ staged # <<>> => staged' # <<>>
  <2>1. UNCHANGED <<runtime, edit, installs, staged, next_sequence, last_committed>>
    BY DEF Replace, WriteCache, Bump, stagingVars
  <2>2. thread[t].answer \in Int
    BY ThreadFacts DEF ThreadRecords
  <2>3. \A i \in 1..Len(staged') : staged'[i].sequence <= next_sequence'
    BY <2>1, ThreadFacts
  <2>. QED BY <2>1, <2>2, <2>3, ThreadFacts DEF InstalledTrees
<1>1. CASE Replace(t)
  <2>1. /\ thread' = thread /\ cache' = Handmade /\ generation' = generation + 1 /\ replaced' = replaced + 1
        /\ thread[t].pc = "idle"
    BY <1>1 DEF Replace, At
  <2>2. BindingShape'
    BY <1>0, <2>1, ThreadFacts DEF BindingsInv, BindingShape, Handmade
  <2>3. ClaimedIsRead'
    BY <2>1 DEF ClaimedIsRead
  <2>4. thread' = [thread EXCEPT ![t] = thread[t]] /\ thread[t] \in ThreadRecords
    BY <2>1, ThreadFacts
  <2>5. /\ replaced' >= replaced
        /\ generation' + (last_committed + replaced) <= generation + (last_committed' + replaced')
    BY <1>0, <2>1, ThreadFacts
  <2>. QED BY <1>0, <2>1, <2>2, <2>3, <2>4, <2>5, OneThreadInv
<1>2. CASE WriteCache(t)
  <2>1. /\ cache' = thread[t].answer /\ UNCHANGED <<generation, replaced>> /\ thread[t].pc = "write"
        /\ To(t, "bump")
    BY <1>2 DEF WriteCache, At
  <2>2. PICK r \in ThreadRecords : thread' = [thread EXCEPT ![t] = r] /\ r.pc = "bump"
    BY <2>1, ThreadMoves
  <2>3. ~Gil /\ (runtime # "free-threaded" => cache' \in InstalledTrees') /\ installs' # <<>>
    BY <1>0, <2>1, ThreadFacts DEF OnItsWay, At
  <2>4. BindingShape'
    BY <1>0, <2>1, <2>2, ThreadFacts DEF BindingsInv, BindingShape
  <2>5. ClaimedIsRead'
    BY <1>0, <2>3 DEF ClaimedIsRead, Gil
  <2>6. /\ replaced' >= replaced
        /\ generation' + (last_committed + replaced) <= generation + (last_committed' + replaced')
    BY <1>0, <2>1, ThreadFacts
  <2>. QED BY <1>0, <2>1, <2>2, <2>3, <2>4, <2>5, <2>6, OneThreadInv
<1>3. CASE Bump(t)
  <2>1. /\ generation' = generation + 1 /\ UNCHANGED <<cache, replaced>> /\ thread[t].pc = "bump"
        /\ To(t, Done(t))
    BY <1>3 DEF Bump, At
  <2>2. ~Gil
    BY <2>1, ThreadFacts DEF OnItsWay, At
  <2>3. Done(t) \in {"publish", "idle"}
    BY DEF Done
  <2>4. PICK r \in ThreadRecords : thread' = [thread EXCEPT ![t] = r] /\ r.pc \in {"publish", "idle"}
    BY <2>1, <2>3, ThreadMoves
  <2>5. BindingShape'
    BY <1>0, <2>1, <2>4, ThreadFacts DEF BindingsInv, BindingShape
  <2>6. ClaimedIsRead'
    BY <1>0, <2>2 DEF ClaimedIsRead, Gil
  <2>7. installs' # <<>> /\ replaced' >= replaced
    BY <1>0, <2>1, ThreadFacts DEF OnItsWay, At
  <2>. QED BY <1>0, <2>1, <2>4, <2>5, <2>6, <2>7, ThreadFacts, OneThreadInv
<1>. QED BY <1>1, <1>2, <1>3

\* A set of numbers has a smallest one.
LEMMA SmallestNat ==
  ASSUME NEW T \in SUBSET Nat, T # {}
  PROVE  \E m \in T : \A n \in T : m <= n
<1>. DEFINE R == {ss \in Nat \X Nat : ss[1] < ss[2]}
<1>1. IsWellFoundedOn(R, Nat)
  BY NatLessThanWellFounded DEF OpToRel
<1>2. \A m, n \in T : <<n, m>> \in R <=> n < m
  OBVIOUS
<1>. HIDE DEF R
<1>3. PICK m \in T : \A n \in T : ~(<<n, m>> \in R)
  BY <1>1, WFMin
<1>4. ASSUME NEW n \in T PROVE m <= n
  <2>1. n \in Nat /\ m \in Nat
    OBVIOUS
  <2>2. ~(n < m)
    BY <1>2, <1>3
  <2>. QED BY <2>1, <2>2
<1>. QED BY <1>4

\* Lengths add up.
LEMMA LenOfConcat == \A S : \A x, y \in Seq(S) : Len(x \o y) = Len(x) + Len(y)
OBVIOUS

\* take_staged: what is left of the queue is part of it.
LEMMA WithoutOne ==
  ASSUME BindingsInv, NEW t \in Threads, NEW i \in 1..Len(staged)
  PROVE  /\ Without(staged, i) \in Seq(Validations)
         /\ \A j \in 1..Len(Without(staged, i)) : Without(staged, i)[j].sequence <= next_sequence
<1>. DEFINE a == SubSeq(staged, 1, i - 1)
            b == SubSeq(staged, i + 1, Len(staged))
<1>0. staged \in Seq(Validations) /\ Len(staged) \in Nat
  BY ThreadFacts
<1>1. /\ a \in Seq(Validations) /\ Len(a) = i - 1
      /\ \A j \in 1..(i - 1) : a[j] = staged[j]
  BY <1>0
<1>2. /\ b \in Seq(Validations) /\ Len(b) = Len(staged) - i
      /\ \A j \in 1..(Len(staged) - i) : b[j] = staged[i + j]
  BY <1>0
<1>. HIDE DEF a, b
<1>3. /\ a \o b \in Seq(Validations) /\ Len(a \o b) = Len(staged) - 1
      /\ \A j \in 1..Len(a \o b) : (a \o b)[j] = IF j <= i - 1 THEN a[j] ELSE b[j - (i - 1)]
  <2>1. a \o b \in Seq(Validations)
    BY <1>1, <1>2
  <2>4. Len(a \o b) = Len(a) + Len(b)
    BY <1>1, <1>2, LenOfConcat
  <2>2. \A j \in 1..(Len(a) + Len(b)) : (a \o b)[j] = IF j <= Len(a) THEN a[j] ELSE b[j - Len(a)]
    BY <1>1, <1>2
  <2>3. Len(a) + Len(b) = Len(staged) - 1
    BY <1>0, <1>1, <1>2
  <2>. QED BY <1>1, <2>1, <2>2, <2>3, <2>4
<1>4. ASSUME NEW j \in 1..Len(a \o b) PROVE (a \o b)[j].sequence <= next_sequence
  <2>1. CASE j <= i - 1
    <3>1. j \in 1..(i - 1) /\ j \in 1..Len(staged)
      BY <1>0, <1>3, <2>1
    <3>2. (a \o b)[j] = staged[j]
      BY <1>1, <1>3, <2>1, <3>1
    <3>. QED BY <3>1, <3>2, ThreadFacts
  <2>2. CASE ~(j <= i - 1)
    <3>1. j - (i - 1) \in 1..(Len(staged) - i) /\ i + (j - (i - 1)) \in 1..Len(staged)
      BY <1>0, <1>3, <2>2
    <3>2. (a \o b)[j] = staged[i + (j - (i - 1))]
      BY <1>2, <1>3, <2>2, <3>1
    <3>. QED BY <3>1, <3>2, ThreadFacts
  <2>. QED BY <2>1, <2>2
<1>. QED BY <1>3, <1>4 DEF Without, a, b

\* commit in Node: the first staged validation of this tree.
LEMMA CommitInNodeInv == ASSUME BindingsInv, NEW t \in Threads, CommitInNode(t) PROVE BindingsInv'
<1>. DEFINE i == take_staged(thread[t].tree)
            found == {k \in 1..Len(staged) : staged[k].tree = thread[t].tree}
<1>0. /\ Node /\ thread[t].pc = "commit" /\ thread[t].tree \in InstalledTrees /\ thread[t].tree \in Int
      /\ installs # <<>> /\ ~Gil
      /\ UNCHANGED <<runtime, edit, installs, next_sequence, publishedVars>>
  BY ThreadFacts DEF CommitInNode, At, OnItsWay, ThreadRecords, Node, Gil
<1>1. CASE i = 0
  <2>1. To(t, Done(t)) /\ UNCHANGED <<staged, last_committed>>
    BY <1>1 DEF CommitInNode
  <2>2. PICK r \in ThreadRecords : /\ thread' = [thread EXCEPT ![t] = r]
                                   /\ r.pc \in {"publish", "idle"} /\ (r.pc = "publish" => installs # <<>>)
    BY <1>0, <2>1, DoneMoves
  <2>. QED BY <1>0, <2>1, <2>2, MoveInv
<1>2. CASE i # 0
  <2>1. i \in 1..Len(staged) /\ staged[i].tree = thread[t].tree
    <3>1. found # {}
      BY <1>2 DEF take_staged
    <3>2. PICK k \in found : \A j \in found : k <= j
      <4>1. found \subseteq Nat
        OBVIOUS
      <4>. QED BY <3>1, <4>1, SmallestNat
    <3>3. i \in found
      BY <1>2, <3>2 DEF take_staged
    <3>. QED BY <3>3
  <2>2. /\ staged' = Without(staged, i)
        /\ IF last_committed >= staged[i].sequence
           THEN To(t, Done(t)) /\ UNCHANGED last_committed
           ELSE /\ last_committed' = staged[i].sequence
                /\ thread' = [thread EXCEPT ![t].pc = "write", ![t].answer = staged[i].tree]
    BY <1>2 DEF CommitInNode
  <2>. HIDE DEF i
  <2>3. /\ staged' \in Seq(Validations)
        /\ \A j \in 1..Len(staged') : staged'[j].sequence <= next_sequence
    BY <2>1, <2>2, WithoutOne
  <2>4. staged[i].sequence \in Nat /\ staged[i].sequence <= next_sequence
    BY <2>1, ThreadFacts
  <2>5. CASE last_committed >= staged[i].sequence
    <3>1. PICK r \in ThreadRecords : /\ thread' = [thread EXCEPT ![t] = r]
                                     /\ r.pc \in {"publish", "idle"} /\ (r.pc = "publish" => installs # <<>>)
      BY <1>0, <2>2, <2>5, DoneMoves
    <3>2. /\ next_sequence' \in Nat /\ next_sequence <= next_sequence' /\ UNCHANGED last_committed
          /\ \A j \in 1..Len(staged') : staged'[j].sequence <= next_sequence'
      BY <1>0, <2>2, <2>3, <2>5, ThreadFacts
    <3>. QED BY <1>0, <2>3, <3>1, <3>2, QuietInv
  <2>6. CASE ~(last_committed >= staged[i].sequence)
    <3>1. /\ last_committed' = staged[i].sequence
          /\ thread' = [thread EXCEPT ![t].pc = "write", ![t].answer = staged[i].tree]
      BY <2>2, <2>6
    <3>2. staged[i].sequence > last_committed /\ staged[i].sequence >= last_committed
      BY <2>4, <2>6, ThreadFacts
    <3>3. staged[i].tree \in Int /\ staged[i].tree \in InstalledTrees
      BY <1>0, <2>1
    <3>. QED BY <1>0, <2>3, <2>4, <3>1, <3>2, <3>3, TakesAlongInv
  <2>. QED BY <2>5, <2>6
<1>. QED BY <1>1, <1>2

\* Each step of every thread.
LEMMA BindingsStepInv == ASSUME BindingsInv, [BindingsNext]_bindingVars PROVE BindingsInv'
<1>1. CASE Edit \/ UNCHANGED bindingVars
  <2>1. /\ UNCHANGED <<runtime, installs, staged, next_sequence, last_committed, cache, generation,
                       replaced, thread>>
        /\ edit' \in Nat
    BY <1>1 DEF Edit, bindingVars, stagingVars, publishedVars, BindingsInv, BindingShape
  <2>2. BindingShape' /\ ClaimedIsRead' /\ PublishedWasInstalled' /\ Publishing' = Publishing
    BY <2>1 DEF BindingsInv, BindingShape, ClaimedIsRead, PublishedWasInstalled, Publishing, Gil, Pending
  <2>3. ClaimsAreCounted'
    BY <2>1, <2>2 DEF BindingsInv, ClaimsAreCounted
  <2>4. \A t \in Threads : OnItsWay(t)'
    BY <2>1 DEF BindingsInv, OnItsWay, At, Gil, Node, InstalledTrees
  <2>. QED BY <2>2, <2>3, <2>4 DEF BindingsInv
<1>2. ASSUME NEW t \in Threads, NEW what \in {"reload", "load", "watch"}, Call(t, what) PROVE BindingsInv'
  BY <1>2, CallInv
<1>3. ASSUME NEW t \in Threads, ThreadNext(t) PROVE BindingsInv'
  BY <1>3, ValidateInv, InstallInv, PublishCurrentInv, CommitInPythonInv, RevalidateInv, RereadInv,
     CandidateInv, WriteInv, CommitInNodeInv DEF ThreadNext
<1>. QED BY <1>1, <1>2, <1>3 DEF BindingsNext

\* What each thread is answered with.
Answered(t) ==
    /\ (Gil /\ At(t, "commit") /\ thread[t].commits = "caller" /\ thread'[t].pc = "idle") =>
           cache' \in {thread[t].tree, Handmade}
    /\ (Gil /\ At(t, "revalidate") /\ thread'[t].pc = "idle") => cache' = thread[t].tree
    /\ (runtime # "free-threaded" /\ At(t, "candidate") /\ thread'[t].pc = "idle") =>
           thread'[t].answer = thread[t].tree

\* Only its own step takes a thread where it is answered.
LEMMA OthersStay ==
  ASSUME BindingsInv, NEW t \in Threads, [BindingsNext]_bindingVars, thread'[t] # thread[t]
  PROVE  ThreadNext(t) \/ thread[t].pc = "idle"
<1>0. thread \in [Threads -> ThreadRecords]
  BY ThreadFacts
<1>1. ASSUME NEW u \in Threads, NEW what \in {"reload", "load", "watch"}, Call(u, what)
      PROVE  thread[t].pc = "idle"
  BY <1>0, <1>1 DEF Call, At
<1>2. ASSUME NEW u \in Threads, u # t, ThreadNext(u) PROVE FALSE
  <2>1. thread' = thread \/ \E r : thread' = [thread EXCEPT ![u] = r]
    BY <1>2 DEF ThreadNext, Validate, Install, PublishCurrent, CommitInPython, Revalidate, Reread,
       CandidateInPython, AnswerStaged, Replace, CommitInNode, CandidateInNode, WriteCache, Bump, To, Answers
  <2>. QED BY <1>0, <1>2, <2>1
<1>. QED BY <1>1, <1>2 DEF BindingsNext, Edit, bindingVars

\* A thread is answered with what it validated.
LEMMA AnsweredWithItsOwn ==
  ASSUME BindingsInv, NEW t \in Threads, [BindingsNext]_bindingVars
  PROVE  Answered(t)
<1>1. CASE thread'[t] = thread[t]
  BY <1>1 DEF Answered, At
<1>2. CASE thread'[t] # thread[t] /\ At(t, "commit") /\ Gil /\ thread[t].commits = "caller"
  <2>1. CommitInPython(t)
    BY <1>2, OthersStay DEF ThreadNext, Validate, Install, PublishCurrent, Revalidate, Reread,
       CandidateInPython, AnswerStaged, Replace, CommitInNode, CandidateInNode, WriteCache, Bump, At,
       Gil, Node
  <2>. DEFINE Mine == staged # <<>> /\ Pending.tree = thread[t].tree
  <2>2. Mine => Pending.sequence \in Nat
    <3>1. staged # <<>> => 1 \in 1..Len(staged)
      BY ThreadFacts
    <3>. QED BY <3>1, ThreadFacts DEF Pending
  <2>3. CASE Mine /\ last_committed >= Pending.sequence
    <3>1. UNCHANGED publishedVars
      BY <2>1, <2>2, <2>3, ThreadFacts DEF CommitInPython
    <3>. QED BY <1>2, <2>3, <3>1 DEF BindingsInv, ClaimedIsRead, Answered, At, publishedVars
  <2>4. CASE Mine /\ last_committed < Pending.sequence
    <3>1. cache' = Pending.tree
      BY <1>2, <2>1, <2>2, <2>4, ThreadFacts DEF CommitInPython
    <3>. QED BY <1>2, <2>4, <3>1 DEF Answered, At
  <2>5. CASE ~Mine
    <3>1. To(t, "revalidate")
      BY <2>1, <2>5 DEF CommitInPython
    <3>2. thread'[t].pc = "revalidate"
      BY <3>1, ThreadMoves, ThreadFacts
    <3>. QED BY <1>2, <3>2 DEF Answered, At
  <2>. QED BY <2>2, <2>3, <2>4, <2>5, ThreadFacts
<1>3. CASE thread'[t] # thread[t] /\ At(t, "revalidate") /\ Gil
  <2>1. Revalidate(t)
    BY <1>3, OthersStay DEF ThreadNext, Validate, Install, PublishCurrent, CommitInPython, Reread,
       CandidateInPython, AnswerStaged, Replace, CommitInNode, CandidateInNode, WriteCache, Bump, At
  <2>. QED BY <1>3, <2>1 DEF Revalidate, Answered, At
<1>4. CASE thread'[t] # thread[t] /\ At(t, "candidate") /\ runtime # "free-threaded"
  <2>1. CandidateInPython(t) \/ CandidateInNode(t)
    BY <1>4, OthersStay DEF ThreadNext, Validate, Install, PublishCurrent, CommitInPython, Reread,
       Revalidate, AnswerStaged, Replace, CommitInNode, WriteCache, Bump, At
  <2>2. Gil \/ Node
    BY <1>4 DEF BindingsInv, BindingShape, Gil, Node
  <2>3. Answers(t, thread[t].tree)
    BY <2>1, <2>2 DEF CandidateInPython, CandidateInNode, Gil, Node
  <2>4. thread[t].tree \in Int
    BY ThreadFacts DEF ThreadRecords
  <2>5. thread'[t].answer = thread[t].tree
    BY <2>3, <2>4, AnswerRecord, ThreadFacts
  <2>. QED BY <1>4, <2>5 DEF Answered, At
<1>. QED BY <1>1, <1>2, <1>3, <1>4 DEF Answered

\* What the invariant says of what is published.
LEMMA BindingsInvGives == BindingsInv => PublishedWasInstalled /\ ValidationPublishedOnce
<1> SUFFICES ASSUME BindingsInv PROVE ValidationPublishedOnce
  BY DEF BindingsInv
<1>1. CASE runtime # "free-threaded"
  <2>1. PICK n \in Nat : n = Cardinality(Publishing)
    BY <1>1, FS_CardinalityType DEF BindingsInv, ClaimsAreCounted
  <2>2. /\ generation + n <= last_committed + replaced /\ last_committed <= next_sequence
    BY <1>1, <2>1 DEF BindingsInv, ClaimsAreCounted
  <2>3. /\ generation \in Nat /\ last_committed \in Nat /\ replaced \in Nat /\ next_sequence \in Nat
    BY DEF BindingsInv, BindingShape
  <2>. QED BY <2>2, <2>3 DEF ValidationPublishedOnce
<1>. QED BY <1>1 DEF ValidationPublishedOnce

(* In Python what was installed after the first install is read, or somebody *)
(* is on the way to publish it.                                               *)

\* Every tree has a number of its own, and so has every validation.
NamedTrees(trees) == \A i \in 1..Len(trees) : trees[i] # NoModel
NamedValidations(waiting) ==
    \A i \in 1..Len(waiting) : waiting[i].tree # NoModel /\ waiting[i].sequence > 0

\* Where a thread is until it has published.
OnTheWay == {"publish", "commit", "revalidate", "reread", "write"}

\* What a thread carries is a tree.
Carries(r) ==
    /\ r.pc # "idle" => r.tree # NoModel
    /\ r.pc = "write" => r.answer # NoModel

\* A claim is read or about to be written; so is a second install.
ReadOrOnItsWay ==
    ~Node =>
        /\ edit > 0 /\ NamedTrees(installs) /\ NamedValidations(staged)
        /\ \A t \in Threads : Carries(thread[t])
        /\ (last_committed > 0 /\ cache = NoModel) =>
               \E t \in Threads : thread[t].pc = "write"
        /\ (Len(installs) > 1 /\ cache = NoModel) =>
               \E t \in Threads : thread[t].pc \in OnTheWay

\* One thread moves on, from thread[t] to r.
LEMMA OneThreadReads ==
  ASSUME BindingsInv, ReadOrOnItsWay, ~Node, NEW t \in Threads, NEW r \in ThreadRecords,
         thread' = [thread EXCEPT ![t] = r], runtime' = runtime, edit' = edit,
         NamedTrees(installs'), NamedValidations(staged'), Carries(r),
         cache' = cache \/ cache' # NoModel,
         last_committed' > 0 => last_committed > 0 \/ r.pc = "write" \/ cache' # NoModel,
         thread[t].pc = "write" => cache' # NoModel,
         Len(installs') > 1 => Len(installs) > 1 \/ r.pc \in OnTheWay \/ cache' # NoModel,
         thread[t].pc \in OnTheWay =>
            r.pc \in OnTheWay \/ cache' # NoModel \/ last_committed > 0
  PROVE  ReadOrOnItsWay'
<1>0. thread'[t] = r /\ \A u \in Threads \ {t} : thread'[u] = thread[u]
  BY DEF BindingsInv, BindingShape
<1>1. \A u \in Threads : Carries(thread'[u])
  BY <1>0 DEF ReadOrOnItsWay
<1>2. ASSUME last_committed' > 0, cache' = NoModel PROVE \E u \in Threads : thread'[u].pc = "write"
  <2>1. CASE r.pc = "write"
    BY <1>0, <2>1
  <2>2. CASE r.pc # "write"
    <3>1. last_committed > 0 /\ cache = NoModel
      BY <1>2, <2>2
    <3>2. PICK u \in Threads : thread[u].pc = "write"
      BY <3>1 DEF ReadOrOnItsWay
    <3>. QED BY <1>0, <1>2, <3>2
  <2>. QED BY <2>1, <2>2
<1>3. ASSUME Len(installs') > 1, cache' = NoModel PROVE \E u \in Threads : thread'[u].pc \in OnTheWay
  <2>1. CASE r.pc \in OnTheWay
    BY <1>0, <2>1
  <2>2. CASE r.pc \notin OnTheWay
    <3>1. Len(installs) > 1 /\ cache = NoModel
      BY <1>3, <2>2
    <3>2. PICK u \in Threads : thread[u].pc \in OnTheWay
      BY <3>1 DEF ReadOrOnItsWay
    <3>3. CASE u # t
      BY <1>0, <3>2, <3>3
    <3>4. CASE u = t
      <4>1. last_committed > 0
        BY <1>3, <2>2, <3>2, <3>4
      <4>2. PICK v \in Threads : thread[v].pc = "write"
        BY <3>1, <4>1 DEF ReadOrOnItsWay
      <4>3. v # t
        BY <1>3, <4>2
      <4>. QED BY <1>0, <4>2, <4>3 DEF OnTheWay
    <3>. QED BY <3>3, <3>4
  <2>. QED BY <2>1, <2>2
<1>. QED BY <1>1, <1>2, <1>3 DEF ReadOrOnItsWay

\* What is known of a thread about to move in Python.
LEMMA ReadFacts ==
  ASSUME BindingsInv, ReadOrOnItsWay, ~Node, NEW t \in Threads
  PROVE  /\ edit > 0 /\ NamedTrees(installs) /\ NamedValidations(staged) /\ Carries(thread[t])
         /\ staged # <<>> => Pending.tree # NoModel /\ Pending.sequence > 0
<1>1. staged # <<>> => 1 \in 1..Len(staged)
  BY ThreadFacts
<1>. QED BY <1>1 DEF ReadOrOnItsWay, NamedValidations, Pending

\* A staged validation has a number and a tree.
LEMMA StagingNames ==
  ASSUME BindingsInv, NEW tree, tree # NoModel, StageInPython(tree)
  PROVE  NamedValidations(staged') /\ last_committed < next_sequence'
<1>. DEFINE v == Validated(tree)
<1>1. v.tree # NoModel /\ v.sequence = next_sequence + 1 /\ next_sequence \in Nat
  BY DEF Validated, BindingsInv, BindingShape
<1>2. staged' = <<v>> /\ next_sequence' = next_sequence + 1 /\ last_committed <= next_sequence
      /\ last_committed \in Nat
  BY DEF StageInPython, BindingsInv, BindingShape, ClaimsAreCounted
<1>. HIDE DEF v
<1>3. Len(staged') = 1 /\ staged'[1] = v
  BY <1>2
<1>. QED BY <1>1, <1>2, <1>3 DEF NamedValidations

\* The steps before a commit.
LEMMA EarlyReads ==
  ASSUME BindingsInv, ReadOrOnItsWay, ~Node, NEW t \in Threads,
         Validate(t) \/ CandidateInPython(t) \/ AnswerStaged(t)
  PROVE  ReadOrOnItsWay'
<1>0. /\ thread[t].pc \in {"validate", "candidate", "answer"}
      /\ UNCHANGED <<runtime, edit, installs, last_committed, cache>>
  BY DEF Validate, CandidateInPython, AnswerStaged, At, publishedVars, stagingVars
<1>1. thread[t].tree # NoModel /\ NamedTrees(installs') /\ thread[t].tree \in Int
  BY <1>0, ReadFacts, ThreadFacts DEF Carries, ThreadRecords
<1>2. NamedValidations(staged')
  <2>1. CASE UNCHANGED staged
    BY <2>1, ReadFacts
  <2>2. CASE StageInPython(thread[t].tree)
    BY <1>1, <2>2, StagingNames
  <2>. QED BY <2>1, <2>2 DEF Validate, CandidateInPython, AnswerStaged, Stage, stagingVars
<1>3. PICK r \in ThreadRecords : /\ thread' = [thread EXCEPT ![t] = r]
                                 /\ r.pc \in {"idle", "candidate", "install", "answer"}
                                 /\ r.pc # "idle" => r.tree = thread[t].tree
  <2>1. ASSUME NEW pc \in {"idle", "candidate", "install", "answer"}, To(t, pc)
        PROVE  \E r \in ThreadRecords : /\ thread' = [thread EXCEPT ![t] = r]
                                        /\ r.pc \in {"idle", "candidate", "install", "answer"}
                                        /\ r.pc # "idle" => r.tree = thread[t].tree
    BY <2>1, ThreadMoves
  <2>2. ASSUME NEW tree \in Int, Answers(t, tree)
        PROVE  \E r \in ThreadRecords : thread' = [thread EXCEPT ![t] = r] /\ r.pc = "idle"
    BY <2>2, AnswerRecord
  <2>3. CASE Validate(t)
    BY <2>1, <2>3 DEF Validate
  <2>4. CASE CandidateInPython(t) \/ AnswerStaged(t)
    <3>1. staged # <<>>
      BY <2>4, ThreadFacts DEF CandidateInPython, AnswerStaged, At, OnItsWay
    <3>2. 1 \in 1..Len(staged)
      BY <3>1, ThreadFacts
    <3>3. Pending.tree \in Int
      BY <3>2, ThreadFacts DEF Pending
    <3>4. Answers(t, Pending.tree) \/ Answers(t, thread[t].tree) \/ To(t, "answer")
      BY <2>4 DEF CandidateInPython, AnswerStaged
    <3>. QED BY <1>1, <2>1, <2>2, <3>3, <3>4
  <2>. QED BY <2>3, <2>4
<1>4. Carries(r) /\ r.pc \notin OnTheWay
  BY <1>1, <1>3 DEF Carries, OnTheWay
<1>. QED BY <1>0, <1>1, <1>2, <1>3, <1>4, OneThreadReads DEF OnTheWay

\* A second install has a hook that commits it.
LEMMA InstallReads ==
  ASSUME BindingsInv, ReadOrOnItsWay, ~Node, NEW t \in Threads, Install(t)
  PROVE  ReadOrOnItsWay'
<1>. DEFINE tree == thread[t].tree
<1>0. /\ thread[t].pc = "install" /\ tree \in Int /\ installs' = Append(installs, tree)
      /\ UNCHANGED <<runtime, edit, staged, last_committed, cache>>
  BY ThreadFacts DEF Install, At, ThreadRecords, stagingVars, publishedVars
<1>1. tree # NoModel
  BY <1>0, ReadFacts DEF Carries
<1>2. PICK r \in ThreadRecords : /\ thread' = [thread EXCEPT ![t] = r]
                                 /\ r.pc \in {"idle", "publish", "commit"}
                                 /\ r.pc # "idle" => r.tree = tree
                                 /\ installs # <<>> => r.pc = "commit"
  <2>1. CASE installs = <<>>
    <3>1. To(t, "publish") \/ To(t, "idle")
      BY <2>1 DEF Install
    <3>. QED BY <2>1, <3>1, ThreadMoves
  <2>2. CASE installs # <<>>
    <3>. DEFINE r == [thread[t] EXCEPT !.pc = "commit", !.commits = "hook"]
    <3>1. r \in ThreadRecords /\ r.pc = "commit" /\ r.tree = tree
      BY ThreadFacts DEF ThreadRecords
    <3>2. thread' = [thread EXCEPT ![t] = r]
      BY <2>2 DEF Install
    <3>. HIDE DEF r, tree
    <3>. QED BY <3>1, <3>2
  <2>. QED BY <2>1, <2>2
<1>. HIDE DEF tree
<1>3. NamedTrees(installs') /\ (Len(installs') > 1 => installs # <<>>)
  <2>1. /\ Len(installs') = Len(installs) + 1 /\ Len(installs) \in Nat
        /\ installs'[Len(installs) + 1] = tree
        /\ \A i \in 1..Len(installs) : installs'[i] = installs[i]
        /\ installs = <<>> => Len(installs) = 0
    BY <1>0, ThreadFacts
  <2>2. NamedTrees(installs)
    BY ReadFacts
  <2>. QED BY <1>1, <2>1, <2>2 DEF NamedTrees
<1>4. Carries(r) /\ (Len(installs') > 1 => r.pc \in OnTheWay) /\ thread[t].pc \notin OnTheWay
  BY <1>0, <1>1, <1>2, <1>3 DEF Carries, OnTheWay
<1>5. NamedValidations(staged') /\ thread[t].pc # "write"
  BY <1>0, ReadFacts
<1>. QED BY <1>0, <1>2, <1>3, <1>4, <1>5, OneThreadReads

\* The caller's publication commits what is installed.
LEMMA PublishReads ==
  ASSUME BindingsInv, ReadOrOnItsWay, ~Node, NEW t \in Threads, PublishCurrent(t)
  PROVE  ReadOrOnItsWay'
<1>. DEFINE tree == installs[Len(installs)]
            r == [thread[t] EXCEPT !.pc = "commit", !.tree = tree, !.commits = "caller"]
<1>0. /\ thread[t].pc = "publish" /\ thread' = [thread EXCEPT ![t] = r]
      /\ UNCHANGED <<runtime, edit, installs, staged, last_committed, cache>>
  BY DEF PublishCurrent, At, stagingVars, publishedVars
<1>1. tree # NoModel /\ tree \in Int
  <2>1. installs # <<>> /\ installs \in Seq(Int)
    BY <1>0, ThreadFacts DEF OnItsWay, At
  <2>2. Len(installs) \in 1..Len(installs)
    BY <2>1
  <2>. QED BY <2>1, <2>2, ReadFacts DEF NamedTrees
<1>. HIDE DEF tree
<1>2. r \in ThreadRecords /\ r.pc = "commit" /\ r.tree = tree
  BY <1>1, ThreadFacts DEF ThreadRecords
<1>. HIDE DEF r
<1>3. Carries(r) /\ r.pc \in OnTheWay
  BY <1>1, <1>2 DEF Carries, OnTheWay
<1>4. NamedTrees(installs') /\ NamedValidations(staged')
  BY <1>0, ReadFacts
<1>. QED BY <1>0, <1>2, <1>3, <1>4, OneThreadReads

\* A commit claims a validation, or finds it claimed, or validates again.
LEMMA CommitReads ==
  ASSUME BindingsInv, ReadOrOnItsWay, ~Node, NEW t \in Threads, CommitInPython(t)
  PROVE  ReadOrOnItsWay'
<1>0. /\ thread[t].pc = "commit" /\ installs # <<>> /\ thread[t].tree # NoModel
      /\ UNCHANGED <<runtime, edit, installs, staged>>
  BY ReadFacts, ThreadFacts DEF CommitInPython, At, OnItsWay, Carries
<1>1. NamedTrees(installs') /\ NamedValidations(staged')
  BY <1>0, ReadFacts
<1>. DEFINE Mine == staged # <<>> /\ Pending.tree = thread[t].tree
<1>2. Mine => Pending.sequence \in Nat /\ Pending.sequence > 0 /\ Pending.tree # NoModel
              /\ Pending.tree \in Int
  <2>1. staged # <<>> => 1 \in 1..Len(staged)
    BY ThreadFacts
  <2>. QED BY <2>1, ReadFacts, ThreadFacts DEF Pending
<1>3. ASSUME To(t, Done(t))
      PROVE  \E r \in ThreadRecords : thread' = [thread EXCEPT ![t] = r] /\ Carries(r)
  <2>1. Done(t) \in {"publish", "idle"}
    BY DEF Done
  <2>2. PICK r \in ThreadRecords : /\ thread' = [thread EXCEPT ![t] = r] /\ r.pc = Done(t)
                                   /\ Done(t) # "idle" => r.tree = thread[t].tree
    BY <1>3, <2>1, ThreadMoves
  <2>3. Carries(r)
    BY <1>0, <2>1, <2>2 DEF Carries
  <2>. QED BY <2>2, <2>3
<1>4. CASE Mine /\ last_committed >= Pending.sequence
  <2>1. To(t, Done(t)) /\ UNCHANGED <<last_committed, cache>>
    BY <1>2, <1>4, ThreadFacts DEF CommitInPython, publishedVars
  <2>2. last_committed > 0
    BY <1>2, <1>4, ThreadFacts
  <2>3. PICK r \in ThreadRecords : thread' = [thread EXCEPT ![t] = r] /\ Carries(r)
    BY <1>3, <2>1
  <2>. QED BY <1>0, <1>1, <2>1, <2>2, <2>3, OneThreadReads
<1>5. CASE Mine /\ last_committed < Pending.sequence
  <2>1. CASE Gil
    <3>1. cache' = Pending.tree /\ To(t, Done(t))
      BY <1>2, <1>5, <2>1, ThreadFacts DEF CommitInPython
    <3>2. PICK r \in ThreadRecords : thread' = [thread EXCEPT ![t] = r] /\ Carries(r)
      BY <1>3, <3>1
    <3>3. cache' # NoModel
      BY <1>2, <1>5, <3>1
    <3>. QED BY <1>0, <1>1, <3>2, <3>3, OneThreadReads
  <2>2. CASE ~Gil
    <3>. DEFINE r == [thread[t] EXCEPT !.pc = "write", !.answer = Pending.tree]
    <3>0. /\ thread' = [thread EXCEPT ![t].pc = "write", ![t].answer = Pending.tree]
          /\ UNCHANGED cache
      BY <1>5, <2>2 DEF CommitInPython
    <3>1. thread' = [thread EXCEPT ![t] = r]
      BY <3>0, ThreadFacts
    <3>2. r \in ThreadRecords /\ r.pc = "write" /\ r.answer = Pending.tree /\ r.tree = thread[t].tree
      BY <1>2, <1>5, ThreadFacts DEF ThreadRecords
    <3>. HIDE DEF r
    <3>3. Pending.tree # NoModel
      BY <1>2, <1>5
    <3>4. Carries(r)
      BY <1>0, <3>2, <3>3 DEF Carries
    <3>5. r.pc \in OnTheWay /\ thread[t].pc # "write" /\ cache' = cache
      BY <1>0, <3>0, <3>2 DEF OnTheWay
    <3>. QED BY <1>0, <1>1, <3>1, <3>2, <3>4, <3>5, OneThreadReads
  <2>. QED BY <2>1, <2>2
<1>6. CASE ~Mine
  <2>1. To(t, "revalidate") /\ UNCHANGED <<last_committed, cache>>
    BY <1>6 DEF CommitInPython, publishedVars
  <2>2. PICK r \in ThreadRecords : /\ thread' = [thread EXCEPT ![t] = r]
                                   /\ r.pc = "revalidate" /\ r.tree = thread[t].tree
    BY <2>1, ThreadMoves
  <2>3. Carries(r) /\ r.pc \in OnTheWay
    BY <1>0, <2>2 DEF Carries, OnTheWay
  <2>. QED BY <1>0, <1>1, <2>1, <2>2, <2>3, OneThreadReads
<1>. QED BY <1>2, <1>4, <1>5, <1>6, ThreadFacts

\* The steps that write, or take along what they will write.
LEMMA LateReads ==
  ASSUME BindingsInv, ReadOrOnItsWay, ~Node, NEW t \in Threads,
         Revalidate(t) \/ Reread(t) \/ Replace(t) \/ WriteCache(t) \/ Bump(t)
  PROVE  ReadOrOnItsWay'
<1>0. /\ thread[t].pc # "idle" => thread[t].tree # NoModel
      /\ UNCHANGED <<runtime, edit, installs>>
  BY ReadFacts DEF Revalidate, Reread, Replace, WriteCache, Bump, Carries
<1>1. NamedTrees(installs')
  BY <1>0, ReadFacts
<1>2. ASSUME NEW pc \in {"publish", "idle", "reread", "bump"}, To(t, pc), thread[t].pc # "idle"
      PROVE  \E r \in ThreadRecords : thread' = [thread EXCEPT ![t] = r] /\ Carries(r) /\ r.pc = pc
  <2>1. PICK r \in ThreadRecords : /\ thread' = [thread EXCEPT ![t] = r] /\ r.pc = pc
                                   /\ pc # "idle" => r.tree = thread[t].tree
    BY <1>2, ThreadMoves
  <2>2. Carries(r)
    BY <1>0, <1>2, <2>1 DEF Carries
  <2>. QED BY <2>1, <2>2
<1>3. Done(t) \in {"publish", "idle"}
  BY DEF Done
<1>4. CASE Revalidate(t)
  <2>0. thread[t].pc = "revalidate" /\ StageInPython(thread[t].tree)
    BY <1>4 DEF Revalidate, At
  <2>1. NamedValidations(staged')
    BY <1>0, <2>0, StagingNames
  <2>2. CASE Gil
    <3>1. cache' = thread[t].tree /\ To(t, Done(t))
      BY <1>4, <2>2 DEF Revalidate
    <3>2. PICK r \in ThreadRecords : thread' = [thread EXCEPT ![t] = r] /\ Carries(r)
      BY <1>2, <1>3, <2>0, <3>1
    <3>3. cache' # NoModel
      BY <1>0, <2>0, <3>1
    <3>. QED BY <1>0, <1>1, <2>1, <3>2, <3>3, OneThreadReads
  <2>3. CASE ~Gil
    <3>1. To(t, "reread") /\ UNCHANGED <<last_committed, cache>>
      BY <1>4, <2>3 DEF Revalidate
    <3>2. PICK r \in ThreadRecords : thread' = [thread EXCEPT ![t] = r] /\ Carries(r) /\ r.pc = "reread"
      BY <1>2, <2>0, <3>1
    <3>. QED BY <1>0, <1>1, <2>0, <2>1, <3>1, <3>2, OneThreadReads DEF OnTheWay
  <2>. QED BY <2>2, <2>3
<1>5. CASE Reread(t)
  <2>. DEFINE r == [thread[t] EXCEPT !.pc = "write", !.answer = Pending.tree]
  <2>0. /\ thread[t].pc = "reread" /\ thread' = [thread EXCEPT ![t] = r]
        /\ UNCHANGED <<staged, cache>> /\ staged # <<>>
    BY <1>5, ThreadFacts DEF Reread, At, publishedVars, OnItsWay
  <2>1. Pending.tree \in Int /\ Pending.tree # NoModel
    <3>1. 1 \in 1..Len(staged)
      BY <2>0, ThreadFacts
    <3>. QED BY <2>0, <3>1, ReadFacts, ThreadFacts DEF Pending
  <2>2. r \in ThreadRecords /\ r.pc = "write" /\ r.answer = Pending.tree /\ r.tree = thread[t].tree
    BY <2>1, ThreadFacts DEF ThreadRecords
  <2>. HIDE DEF r
  <2>3. Carries(r) /\ r.pc \in OnTheWay
    BY <1>0, <2>0, <2>1, <2>2 DEF Carries, OnTheWay
  <2>4. NamedValidations(staged')
    BY <2>0, ReadFacts
  <2>. QED BY <1>0, <1>1, <2>0, <2>2, <2>3, <2>4, OneThreadReads
<1>6. CASE Replace(t)
  <2>1. thread' = thread /\ cache' = Handmade /\ UNCHANGED <<staged, last_committed>>
    BY <1>6 DEF Replace, stagingVars
  <2>2. cache' # NoModel /\ NamedValidations(staged') /\ Carries(thread[t])
    BY <2>1, ReadFacts DEF Handmade, NoModel
  <2>3. thread' = [thread EXCEPT ![t] = thread[t]] /\ thread[t] \in ThreadRecords
    BY <2>1, ThreadFacts
  <2>. QED BY <1>0, <1>1, <2>2, <2>3, OneThreadReads
<1>7. CASE WriteCache(t)
  <2>1. /\ thread[t].pc = "write" /\ cache' = thread[t].answer /\ To(t, "bump")
        /\ UNCHANGED <<staged, last_committed>>
    BY <1>7 DEF WriteCache, At, stagingVars
  <2>2. cache' # NoModel /\ NamedValidations(staged')
    BY <2>1, ReadFacts DEF Carries
  <2>3. PICK r \in ThreadRecords : thread' = [thread EXCEPT ![t] = r] /\ Carries(r)
    BY <1>2, <2>1
  <2>. QED BY <1>0, <1>1, <2>2, <2>3, OneThreadReads
<1>8. CASE Bump(t)
  <2>1. thread[t].pc = "bump" /\ To(t, Done(t)) /\ UNCHANGED <<staged, last_committed, cache>>
    BY <1>8 DEF Bump, At, stagingVars
  <2>2. NamedValidations(staged')
    BY <2>1, ReadFacts
  <2>3. PICK r \in ThreadRecords : thread' = [thread EXCEPT ![t] = r] /\ Carries(r)
    BY <1>2, <1>3, <2>1
  <2>. QED BY <1>0, <1>1, <2>1, <2>2, <2>3, OneThreadReads DEF OnTheWay
<1>. QED BY <1>4, <1>5, <1>6, <1>7, <1>8

\* A call begins with what the sources hold.
LEMMA CallReads ==
  ASSUME BindingsInv, ReadOrOnItsWay, ~Node, NEW t \in Threads,
         NEW what \in {"reload", "load", "watch"}, Call(t, what)
  PROVE  ReadOrOnItsWay'
<1>. DEFINE r == [thread[t] EXCEPT !.pc = "validate", !.what = what, !.tree = edit, !.answer = NoModel]
<1>1. r \in ThreadRecords /\ r.pc = "validate" /\ r.tree = edit
  <2>1. thread[t] \in ThreadRecords /\ edit \in Int /\ NoModel \in Int
    BY ThreadFacts DEF NoModel
  <2>2. what \in {"", "reload", "load", "watch"}
    OBVIOUS
  <2>. QED BY <2>1, <2>2 DEF ThreadRecords
<1>2. /\ thread' = [thread EXCEPT ![t] = r] /\ thread[t].pc = "idle"
      /\ UNCHANGED <<runtime, edit, installs, staged, last_committed, cache>>
  BY DEF Call, At, stagingVars, publishedVars
<1>. HIDE DEF r
<1>3. Carries(r)
  BY <1>1, ReadFacts, ThreadFacts DEF Carries, NoModel
<1>4. NamedTrees(installs') /\ NamedValidations(staged')
  BY <1>2, ReadFacts
<1>5. r.pc # "write" /\ thread[t].pc # "write" /\ thread[t].pc \notin OnTheWay
  BY <1>1, <1>2 DEF OnTheWay
<1>6. r \in ThreadRecords /\ runtime' = runtime /\ edit' = edit /\ cache' = cache
      /\ last_committed' = last_committed /\ installs' = installs
  BY <1>1, <1>2
<1>. QED BY <1>2, <1>3, <1>4, <1>5, <1>6, OneThreadReads

\* Before anything happened there is nothing to read.
LEMMA NothingToRead == BindingsInit => ReadOrOnItsWay
<1> SUFFICES ASSUME BindingsInit PROVE ReadOrOnItsWay
  OBVIOUS
<1>1. edit > 0 /\ Len(installs) = 0 /\ Len(staged) = 0 /\ last_committed = 0
  BY DEF BindingsInit
<1>2. NamedTrees(installs) /\ NamedValidations(staged)
  BY <1>1 DEF NamedTrees, NamedValidations
<1>3. \A t \in Threads : thread[t].pc = "idle"
  BY DEF BindingsInit, AtRest
<1>4. \A t \in Threads : Carries(thread[t])
  BY <1>3 DEF Carries
<1>. QED BY <1>1, <1>2, <1>4 DEF ReadOrOnItsWay

\* Each step of every thread.
LEMMA ReadStepInv ==
  ASSUME BindingsInv, ReadOrOnItsWay, [BindingsNext]_bindingVars
  PROVE  ReadOrOnItsWay'
<1>0. runtime' = runtime
  BY DEF BindingsNext, Call, Edit, ThreadNext, Validate, Install, PublishCurrent, CommitInPython,
     Revalidate, Reread, CandidateInPython, AnswerStaged, Replace, CommitInNode, CandidateInNode,
     WriteCache, Bump, bindingVars
<1>1. CASE Node
  BY <1>0, <1>1 DEF ReadOrOnItsWay, Node
<1>2. CASE ~Node
  <2>1. CASE Edit \/ UNCHANGED bindingVars
    <3>1. /\ UNCHANGED <<runtime, installs, staged, last_committed, cache, thread>>
          /\ edit' = edit \/ edit' = edit + 1
      BY <2>1 DEF Edit, bindingVars, stagingVars, publishedVars
    <3>2. edit' > 0
      BY <1>2, <3>1 DEF ReadOrOnItsWay, BindingsInv, BindingShape
    <3>. QED BY <1>2, <3>1, <3>2 DEF ReadOrOnItsWay, Node
  <2>2. ASSUME NEW t \in Threads, NEW what \in {"reload", "load", "watch"}, Call(t, what)
        PROVE  ReadOrOnItsWay'
    BY <1>2, <2>2, CallReads
  <2>3. ASSUME NEW t \in Threads, ThreadNext(t) PROVE ReadOrOnItsWay'
    <3>1. ~CommitInNode(t) /\ ~CandidateInNode(t)
      BY <1>2 DEF CommitInNode, CandidateInNode
    <3>. QED BY <1>2, <2>3, <3>1, EarlyReads, InstallReads, PublishReads, CommitReads, LateReads
             DEF ThreadNext
  <2>. QED BY <2>1, <2>2, <2>3 DEF BindingsNext
<1>. QED BY <1>1, <1>2

\* When nobody is on the way, there was one install at most, or it is read.
LEMMA ReadGives == BindingsInv /\ ReadOrOnItsWay => LaterInstallsArePublished
<1> SUFFICES ASSUME BindingsInv, ReadOrOnItsWay, ~Node, cache = NoModel,
                    \A t \in Threads : At(t, "idle")
             PROVE  Len(installs) <= 1
  BY DEF LaterInstallsArePublished
<1>1. ~\E t \in Threads : thread[t].pc \in OnTheWay
  BY DEF At, OnTheWay
<1>2. ~(Len(installs) > 1) /\ Len(installs) \in Nat
  BY <1>1, ThreadFacts DEF ReadOrOnItsWay, BindingsInv, BindingShape
<1>. QED BY <1>2

\* What the program reads follows the engine, for every number of threads,
\* edits and staged models.
THEOREM PublishingIsExactCorrect == BindingsSpec => PublishingIsExact
<1>. DEFINE Own1 ==
       \A t \in Threads :
          /\ (Gil /\ At(t, "commit") /\ thread[t].commits = "caller"
              /\ thread'[t].pc = "idle") =>
                 cache' \in {thread[t].tree, Handmade}
          /\ (Gil /\ At(t, "revalidate") /\ thread'[t].pc = "idle") =>
                 cache' = thread[t].tree
          /\ (runtime # "free-threaded" /\ At(t, "candidate")
              /\ thread'[t].pc = "idle") =>
                 thread'[t].answer = thread[t].tree
<1>1. ASSUME BindingsInv, [BindingsNext]_bindingVars PROVE [Own1]_bindingVars
  BY <1>1, AnsweredWithItsOwn DEF Answered
<1>2. PublishingIsExact <=>
         /\ [](PublishedWasInstalled /\ ValidationPublishedOnce /\ LaterInstallsArePublished)
         /\ [][Own1]_bindingVars
  BY DEF PublishingIsExact, AnswersAreTheirOwn
<1>. HIDE DEF Own1
<1>3. BindingsInit => BindingsInv /\ ReadOrOnItsWay
  BY NothingToRead, BindingsInitInv
<1>4. BindingsInv /\ ReadOrOnItsWay /\ [BindingsNext]_bindingVars => BindingsInv' /\ ReadOrOnItsWay'
  BY BindingsStepInv, ReadStepInv
<1>5. BindingsInv /\ ReadOrOnItsWay =>
         PublishedWasInstalled /\ ValidationPublishedOnce /\ LaterInstallsArePublished
  BY BindingsInvGives, ReadGives
<1>. QED BY <1>1, <1>2, <1>3, <1>4, <1>5, PTL DEF BindingsSpec

-----------------------------------------------------------------------------

(* Python's stores. *)

\* What a refreshing thread holds.
RefresherRecords ==
    [pc : {"idle", "enter", "open", "client", "building", "read", "answered",
           "raised", "failing"},
     given : Nat, client : Nat, used : Nat,
     cause : Refreshers \union {NoThread}, overlapped : BOOLEAN]

\* What store, slot and threads hold.
PythonShape ==
    /\ \E s \in PythonStoreNames : \E k \in DOMAIN Presents[s] :
           kept = [store |-> s, kind |-> k]
    /\ rotation \in Nat /\ built \in Nat /\ slot \in Nat
    /\ refresher \in [Refreshers -> RefresherRecords]
    /\ failure \in Refreshers \union {NoThread}

\* On its way to the read a thread has the client of its own credential; with
\* S3 the slot holds its keys unless somebody wrote others, which marks it,
\* and with Git it holds the slot.
HasItsOwn(t) ==
    LET r == refresher[t]
    IN  /\ (kept.store \in Keyed /\ r.pc = "read") => r.client = r.given
        /\ (/\ kept.store = "s3" /\ r.pc \in {"client", "building", "read"}
            /\ ~r.overlapped /\ r.given # NoKeys) => slot = r.given
        /\ (kept.store = "s3" /\ r.pc = "read") =>
               (r.client = NoKeys <=> r.given = NoKeys)
        /\ (kept.store = "git" /\ r.pc = "read") => reading = t /\ slot = r.given
        /\ kept.store = "git" => r.pc \notin {"client", "building"}
        /\ (r.pc = "answered" /\ ~r.overlapped) => r.used = r.given

\* The inductive invariant of the stores.
PythonInv ==
    /\ PythonShape
    /\ \A t \in Refreshers : HasItsOwn(t)
    /\ KeptExceptionIsLive

\* The stores are the six that keep a client with its credential, S3 and Git.
LEMMA StoreNames == PythonShape => kept.store \in Keyed \union {"s3", "git"}
<1>1. PythonStoreNames = Keyed \union {"s3", "git"}
  BY DEF PythonStoreNames, Presents, Keyed
<1>. QED BY <1>1 DEF PythonShape

\* Every part of a credential that an error could show is scrubbed or public.
LEMMA SecretsAreScrubbed ==
  PythonShape => Presents[kept.store][kept.kind] \ Scrubs[kept.store][kept.kind] \subseteq Public
<1> SUFFICES ASSUME PythonShape
             PROVE  Presents[kept.store][kept.kind] \ Scrubs[kept.store][kept.kind] \subseteq Public
  OBVIOUS
<1>1. kept.store \in Keyed \union {"s3", "git"} /\ kept.kind \in DOMAIN Presents[kept.store]
  BY StoreNames DEF PythonShape
<1>2. CASE kept.store = "consul"
  <2>1. Presents[kept.store] = ConsulAuth /\ Scrubs[kept.store] = ConsulSecrets
    BY <1>2 DEF Presents, Scrubs
  <2>. QED BY <1>1, <2>1 DEF ConsulAuth, ConsulSecrets, Public
<1>3. CASE kept.store = "vault"
  <2>1. Presents[kept.store] = VaultAuth /\ Scrubs[kept.store] = VaultSecrets
    BY <1>3 DEF Presents, Scrubs
  <2>. QED BY <1>1, <2>1 DEF VaultAuth, VaultSecrets, Public
<1>4. CASE kept.store = "firestore"
  <2>1. Presents[kept.store] = FirestoreAuth /\ Scrubs[kept.store] = FirestoreSecrets
    BY <1>4 DEF Presents, Scrubs
  <2>. QED BY <1>1, <2>1 DEF FirestoreAuth, FirestoreSecrets, Public
<1>5. CASE kept.store = "nats"
  <2>1. Presents[kept.store] = NatsAuth /\ Scrubs[kept.store] = NatsSecrets
    BY <1>5 DEF Presents, Scrubs
  <2>. QED BY <1>1, <2>1 DEF NatsAuth, NatsSecrets, Public
<1>6. CASE kept.store = "git"
  <2>1. Presents[kept.store] = GitAuth /\ Scrubs[kept.store] = GitSecrets
    BY <1>6 DEF Presents, Scrubs
  <2>. QED BY <1>1, <2>1 DEF GitAuth, GitSecrets, Public
<1>7. CASE kept.store = "etcd"
  <2>1. Presents[kept.store] = EtcdAuth /\ Scrubs[kept.store] = EtcdSecrets
    BY <1>7 DEF Presents, Scrubs
  <2>. QED BY <1>1, <2>1 DEF EtcdAuth, EtcdSecrets, Public
<1>8. CASE kept.store = "redis"
  <2>1. Presents[kept.store] = RedisAuth /\ Scrubs[kept.store] = RedisSecrets
    BY <1>8 DEF Presents, Scrubs
  <2>. QED BY <1>1, <2>1 DEF RedisAuth, RedisSecrets, Public
<1>9. CASE kept.store = "s3"
  <2>1. Presents[kept.store] = S3Auth /\ Scrubs[kept.store] = S3Secrets
    BY <1>9 DEF Presents, Scrubs
  <2>. QED BY <1>1, <2>1 DEF S3Auth, S3Secrets, Public
<1>. QED BY <1>1, <1>2, <1>3, <1>4, <1>5, <1>6, <1>7, <1>8, <1>9 DEF Keyed

\* Nobody has refreshed yet.
LEMMA PythonInitInv == PythonInit => PythonInv
<1> SUFFICES ASSUME PythonInit PROVE PythonInv
  OBVIOUS
<1>1. Resting \in RefresherRecords
  BY DEF Resting, RefresherRecords, NoKeys
<1>2. PythonShape
  BY <1>1, PythonStoresAssumption DEF PythonInit, PythonShape, NoClient, NoKeys
<1>3. \A t \in Refreshers : HasItsOwn(t)
  BY DEF PythonInit, HasItsOwn, Resting
<1>. QED BY <1>2, <1>3 DEF PythonInv, PythonInit, KeptExceptionIsLive

\* One thread moves on; the slot and its holder stay, or are taken, or given
\* back, by that thread.
LEMMA OneRefresherInv ==
  ASSUME PythonInv, NEW t \in Refreshers, NEW r \in RefresherRecords,
         refresher' = [refresher EXCEPT ![t] = r],
         kept' = kept, rotation' \in Nat, built' \in Nat,
         \/ slot' = slot /\ reading' = reading
         \/ kept.store = "git" /\ reading = NoThread /\ slot' = r.given /\ reading' = t
         \/ kept.store = "git" /\ refresher[t].pc = "read" /\ r.pc # "read" /\ slot' = slot,
         HasItsOwn(t)',
         \/ failure' = failure /\ (failure = t => r.pc = "failing")
         \/ failure' = NoThread
         \/ failure' = t /\ r.pc = "failing"
  PROVE  PythonInv'
<1>1. refresher'[t] = r /\ \A u \in Refreshers \ {t} : refresher'[u] = refresher[u]
  BY DEF PythonInv, PythonShape
<1>2. PythonShape'
  <2>1. slot' \in Nat
    BY DEF PythonInv, PythonShape, RefresherRecords
  <2>. QED BY <2>1 DEF PythonInv, PythonShape
<1>3. ASSUME NEW u \in Refreshers \ {t} PROVE HasItsOwn(u)'
  <2>1. HasItsOwn(u) /\ HasItsOwn(t) /\ t # NoThread /\ u # NoThread
    BY PythonStoresAssumption DEF PythonInv
  <2>2. CASE slot' = slot /\ reading' = reading
    BY <1>1, <2>1, <2>2 DEF HasItsOwn
  <2>3. CASE kept.store = "git"
    BY <1>1, <2>1, <2>3 DEF HasItsOwn, Keyed
  <2>. QED BY <2>2, <2>3
<1>4. KeptExceptionIsLive'
  BY <1>1, PythonStoresAssumption DEF PythonInv, PythonShape, KeptExceptionIsLive, Is
<1>. QED BY <1>2, <1>3, <1>4 DEF PythonInv

\* S3 writes its keys and marks whoever is between the slot and the read.
LEMMA OpenS3Inv == ASSUME PythonInv, NEW t \in Refreshers, OpenS3(t) PROVE PythonInv'
<1>. DEFINE r == [refresher[t] EXCEPT !.pc = "client"]
<1>0. /\ refresher[t] \in RefresherRecords /\ refresher[t].pc = "open" /\ kept.store = "s3"
      /\ refresher' = [Overlapping(t) EXCEPT ![t] = r]
      /\ UNCHANGED <<kept, rotation, built, failure, reading>>
  BY DEF OpenS3, PythonInv, PythonShape, Is, sourceVars
<1>1. r \in RefresherRecords /\ r.pc = "client" /\ r.given = refresher[t].given
  BY <1>0 DEF RefresherRecords
<1>2. refresher'[t] = r
  BY <1>0 DEF Overlapping
<1>. HIDE DEF r
<1>3. ASSUME NEW u \in Refreshers \ {t}
      PROVE  /\ refresher'[u] \in RefresherRecords
             /\ \A f \in {"pc", "given", "client", "used"} : refresher'[u][f] = refresher[u][f]
             /\ refresher'[u].pc \in {"client", "building", "read"} => refresher'[u].overlapped
             /\ refresher'[u].pc \notin {"client", "building", "read"} =>
                    refresher'[u].overlapped = refresher[u].overlapped
  <2>. DEFINE q == [refresher[u] EXCEPT !.overlapped = TRUE]
  <2>1. refresher[u] \in RefresherRecords
    BY DEF PythonInv, PythonShape
  <2>2. /\ q \in RefresherRecords /\ q.overlapped
        /\ q.pc = refresher[u].pc /\ q.given = refresher[u].given
        /\ q.client = refresher[u].client /\ q.used = refresher[u].used
    BY <2>1 DEF RefresherRecords
  <2>3. refresher'[u] = IF refresher[u].pc \in {"client", "building", "read"} THEN q ELSE refresher[u]
    BY <1>0 DEF Overlapping
  <2>. HIDE DEF q
  <2>. QED BY <2>1, <2>2, <2>3
<1>4. refresher' = [u \in Refreshers |-> refresher'[u]]
  BY <1>0 DEF Overlapping
<1>5. slot' \in Nat /\ (r.given # NoKeys => slot' = r.given)
  BY <1>0, <1>1 DEF OpenS3, PythonInv, PythonShape, RefresherRecords
<1>6. PythonShape'
  <2>1. refresher' \in [Refreshers -> RefresherRecords]
    BY <1>1, <1>2, <1>3, <1>4
  <2>. QED BY <1>0, <1>5, <2>1 DEF PythonInv, PythonShape
<1>7. HasItsOwn(t)'
  BY <1>0, <1>1, <1>2, <1>5 DEF HasItsOwn, Keyed
<1>8. ASSUME NEW u \in Refreshers \ {t} PROVE HasItsOwn(u)'
  <2>1. HasItsOwn(u)
    BY DEF PythonInv
  <2>2. /\ refresher'[u].pc = refresher[u].pc /\ refresher'[u].given = refresher[u].given
        /\ refresher'[u].client = refresher[u].client /\ refresher'[u].used = refresher[u].used
    BY <1>3
  <2>. QED BY <1>0, <1>3, <2>1, <2>2 DEF HasItsOwn, Keyed
<1>9. KeptExceptionIsLive'
  <2>1. \A u \in Refreshers \ {t} : refresher'[u].pc = refresher[u].pc
    BY <1>3
  <2>. QED BY <1>0, <2>1 DEF PythonInv, PythonShape, KeptExceptionIsLive, Is
<1>. QED BY <1>6, <1>7, <1>8, <1>9 DEF PythonInv

\* The steps that only change where a thread is.
LEMMA MovesInv ==
  ASSUME PythonInv, NEW t \in Refreshers,
         NEW pc \in {"idle", "client", "building", "raised", "failing"}, Moves(t, pc),
         UNCHANGED <<kept, slot, reading>>, rotation' \in Nat, built' \in Nat,
         pc \in {"client", "building"} =>
             \/ kept.store \in Keyed
             \/ kept.store = "s3" /\ refresher[t].pc \in {"client", "building", "read"},
         \/ failure' = failure /\ (failure = t => pc = "failing")
         \/ failure' = NoThread
         \/ failure' = t /\ pc = "failing"
  PROVE  PythonInv'
<1>. DEFINE r == [refresher[t] EXCEPT !.pc = pc]
<1>1. refresher[t] \in RefresherRecords /\ refresher \in [Refreshers -> RefresherRecords] /\ HasItsOwn(t)
  BY DEF PythonInv, PythonShape
<1>2. /\ r \in RefresherRecords /\ r.pc = pc /\ r.given = refresher[t].given
      /\ r.client = refresher[t].client /\ r.overlapped = refresher[t].overlapped
  BY <1>1 DEF RefresherRecords
<1>3. refresher' = [refresher EXCEPT ![t] = r]
  BY DEF Moves, Becomes
<1>. HIDE DEF r
<1>4. refresher'[t] = r
  BY <1>1, <1>3
<1>5. HasItsOwn(t)'
  BY <1>1, <1>2, <1>4 DEF HasItsOwn, Keyed
<1>. QED BY <1>2, <1>3, <1>5, OneRefresherInv

\* What holds of every thread that moves: nobody's exception is its own
\* unless it is failing.
LEMMA RefresherFacts ==
  ASSUME PythonInv, NEW t \in Refreshers
  PROVE  /\ refresher[t] \in RefresherRecords /\ refresher \in [Refreshers -> RefresherRecords]
         /\ HasItsOwn(t) /\ (failure = t => refresher[t].pc = "failing")
         /\ kept.store \in Keyed \union {"s3", "git"}
         /\ rotation \in Nat /\ built \in Nat /\ slot \in Nat
         /\ t # NoThread
BY StoreNames, PythonStoresAssumption DEF PythonInv, PythonShape, KeptExceptionIsLive, Is

\* The steps of a refresh that touch neither client nor slot.
LEMMA PlainMovesInv ==
  ASSUME PythonInv, NEW t \in Refreshers,
         NoSource(t) \/ OpenKeyed(t) \/ Rebuild(t) \/ BuildFails(t) \/ Fetched(t) \/ Record(t)
  PROVE  PythonInv'
<1>1. UNCHANGED <<kept, slot, reading, rotation, built>> /\ rotation' \in Nat /\ built' \in Nat
  BY RefresherFacts DEF NoSource, OpenKeyed, Rebuild, BuildFails, Fetched, Record, storeVars
<1>2. CASE NoSource(t)
  BY <1>1, <1>2, RefresherFacts, MovesInv DEF NoSource, sourceVars
<1>3. CASE OpenKeyed(t)
  BY <1>1, <1>3, RefresherFacts, MovesInv DEF OpenKeyed, sourceVars, Is
<1>4. CASE Rebuild(t)
  <2>1. kept.store # "git"
    BY <1>4, RefresherFacts DEF Rebuild, HasItsOwn, Is
  <2>. QED BY <1>1, <1>4, <2>1, RefresherFacts, MovesInv DEF Rebuild, sourceVars, Is
<1>5. CASE BuildFails(t)
  BY <1>1, <1>5, RefresherFacts, MovesInv DEF BuildFails, Building, sourceVars, Is
<1>6. CASE Fetched(t)
  <2>1. ASSUME NEW end \in {"idle", "failing"}, Moves(t, end) PROVE PythonInv'
    BY <1>1, <1>6, <2>1, RefresherFacts, MovesInv DEF Fetched, sourceVars, Is
  <2>. QED BY <1>6, <2>1 DEF Fetched
<1>7. CASE Record(t)
  BY <1>1, <1>7, RefresherFacts, MovesInv DEF Record
<1>. QED BY <1>2, <1>3, <1>4, <1>5, <1>6, <1>7

\* A client is handed out for the credential the thread was given.
LEMMA ClientInv ==
  ASSUME PythonInv, NEW t \in Refreshers, NEW c, c = Wants(t),
         refresher[t].pc \in {"client", "building"},
         Becomes(t, [refresher[t] EXCEPT !.pc = "read", !.client = c]),
         UNCHANGED <<kept, slot, reading, rotation, failure>>, built' \in Nat
  PROVE  PythonInv'
<1>. DEFINE r == [refresher[t] EXCEPT !.pc = "read", !.client = c]
<1>0. c \in Nat
  BY RefresherFacts DEF Wants, RefresherRecords, NoKeys
<1>1. /\ r \in RefresherRecords /\ r.pc = "read" /\ r.given = refresher[t].given
      /\ r.client = c /\ r.overlapped = refresher[t].overlapped
  BY <1>0, RefresherFacts DEF RefresherRecords
<1>2. refresher' = [refresher EXCEPT ![t] = r]
  BY DEF Becomes
<1>. HIDE DEF r
<1>3. refresher'[t] = r
  BY <1>2, RefresherFacts
<1>4. kept.store # "git"
  BY RefresherFacts DEF HasItsOwn
<1>5. /\ kept.store \in Keyed => c = r.given
      /\ kept.store = "s3" => (c = NoKeys <=> r.given = NoKeys)
  BY <1>1 DEF Wants, Keyed, NoKeys
<1>6. HasItsOwn(t)'
  BY <1>1, <1>3, <1>4, <1>5, RefresherFacts DEF HasItsOwn, Keyed
<1>. QED BY <1>1, <1>2, <1>6, RefresherFacts, OneRefresherInv

\* Each crate hands out a client.
LEMMA ClientsInv ==
  ASSUME PythonInv, NEW t \in Refreshers,
         \/ Reuse(t) \/ ConsulClient(t) \/ VaultClient(t) \/ FirestoreClient(t)
         \/ RedisClient(t) \/ EtcdClient(t) \/ NatsClient(t) \/ S3Client(t)
  PROVE  PythonInv'
<1>1. CASE Reuse(t)
  BY <1>1, ClientInv, RefresherFacts DEF Reuse, Matches, Is, storeVars, sourceVars
<1>2. CASE Building(t) /\ Keep(t)
  <2>1. Wants(t) \in Nat
    BY RefresherFacts DEF Wants, RefresherRecords, NoKeys
  <2>. QED BY <1>2, <2>1, ClientInv DEF Keep, Building, Is, sourceVars
<1>. QED BY <1>1, <1>2 DEF ConsulClient, VaultClient, FirestoreClient, RedisClient, EtcdClient,
                            NatsClient, S3Client

\* Git holds the slot for its read.
LEMMA OpenGitInv == ASSUME PythonInv, NEW t \in Refreshers, OpenGit(t) PROVE PythonInv'
<1>. DEFINE r == [refresher[t] EXCEPT !.pc = "read"]
<1>0. /\ kept.store = "git" /\ reading = NoThread /\ reading' = t /\ slot' = refresher[t].given
      /\ refresher[t].pc = "open" /\ refresher' = [refresher EXCEPT ![t] = r]
      /\ UNCHANGED <<kept, rotation, built, failure>>
  BY DEF OpenGit, Alone, Is, Moves, Becomes, sourceVars
<1>1. r \in RefresherRecords /\ r.pc = "read" /\ r.given = refresher[t].given
  BY RefresherFacts DEF RefresherRecords
<1>. HIDE DEF r
<1>2. refresher'[t] = r
  BY <1>0, RefresherFacts
<1>3. HasItsOwn(t)'
  BY <1>0, <1>1, <1>2 DEF HasItsOwn, Keyed
<1>. QED BY <1>0, <1>1, <1>3, RefresherFacts, OneRefresherInv

\* The request carries what the thread was handed.
LEMMA ReadsItsOwn ==
  ASSUME PythonInv, NEW t \in Refreshers, refresher[t].pc = "read"
  PROVE  Signs(t) \in Nat /\ (~refresher[t].overlapped => Signs(t) = refresher[t].given)
<1>1. CASE kept.store \in Keyed
  BY <1>1, RefresherFacts DEF Signs, HasItsOwn, Keyed, RefresherRecords
<1>2. CASE kept.store = "git"
  BY <1>2, RefresherFacts DEF Signs, HasItsOwn, RefresherRecords
<1>3. CASE kept.store = "s3"
  BY <1>3, RefresherFacts DEF Signs, HasItsOwn, RefresherRecords, NoKeys
<1>. QED BY <1>1, <1>2, <1>3, RefresherFacts

\* The read itself.
LEMMA FetchReadInv == ASSUME PythonInv, NEW t \in Refreshers, Read(t) PROVE PythonInv'
<1>1. PICK end \in {"answered", "raised"} :
        Becomes(t, [refresher[t] EXCEPT !.pc = end, !.used = Signs(t)])
  BY DEF Read
<1>. DEFINE r == [refresher[t] EXCEPT !.pc = end, !.used = Signs(t)]
<1>2. /\ refresher[t].pc = "read" /\ UNCHANGED <<kept, rotation, built, slot, failure>>
      /\ kept.store # "git" => reading' = reading
  BY DEF Read, Is, sourceVars
<1>3. /\ r \in RefresherRecords /\ r.pc = end /\ r.used = Signs(t)
      /\ r.given = refresher[t].given /\ r.overlapped = refresher[t].overlapped
  BY <1>2, RefresherFacts, ReadsItsOwn DEF RefresherRecords
<1>4. refresher' = [refresher EXCEPT ![t] = r]
  BY <1>1 DEF Becomes
<1>. HIDE DEF r
<1>5. refresher'[t] = r
  BY <1>4, RefresherFacts
<1>6. HasItsOwn(t)'
  BY <1>2, <1>3, <1>5, ReadsItsOwn DEF HasItsOwn, Keyed
<1>7. rotation' \in Nat /\ built' \in Nat /\ r.pc # "read"
  BY <1>2, <1>3, RefresherFacts
<1>. QED BY <1>2, <1>3, <1>4, <1>6, <1>7, RefresherFacts, OneRefresherInv

\* A refresh begins and ends.
LEMMA RefreshesInv ==
  ASSUME PythonInv, NEW t \in Refreshers, Refresh(t) \/ Enter(t) \/ Attach(t)
  PROVE  PythonInv'
<1>0. /\ UNCHANGED <<kept, rotation, built, slot, reading>> /\ rotation' \in Nat /\ built' \in Nat
  BY RefresherFacts DEF Refresh, Enter, Attach, storeVars
<1>1. CASE Refresh(t)
  <2>. DEFINE r == [Resting EXCEPT !.pc = "enter"]
  <2>1. r \in RefresherRecords /\ r.pc = "enter"
    BY DEF Resting, RefresherRecords, NoKeys
  <2>2. refresher' = [refresher EXCEPT ![t] = r] /\ failure' = failure /\ refresher[t].pc = "idle"
    BY <1>1 DEF Refresh, Becomes, sourceVars, Is
  <2>. HIDE DEF r
  <2>3. HasItsOwn(t)'
    BY <2>1, <2>2, RefresherFacts DEF HasItsOwn
  <2>. QED BY <1>0, <2>1, <2>2, <2>3, RefresherFacts, OneRefresherInv
<1>2. CASE Enter(t)
  <2>. DEFINE g == IF Bare THEN NoKeys ELSE rotation
              r == [refresher[t] EXCEPT !.pc = "open", !.given = g]
  <2>0. g \in Nat
    BY RefresherFacts DEF NoKeys
  <2>1. refresher' = [refresher EXCEPT ![t] = r] /\ failure' = NoThread
    BY <1>2 DEF Enter, Becomes
  <2>. HIDE DEF g
  <2>2. r \in RefresherRecords /\ r.pc = "open"
    BY <2>0, RefresherFacts DEF RefresherRecords
  <2>. HIDE DEF r
  <2>3. HasItsOwn(t)'
    BY <2>1, <2>2, RefresherFacts DEF HasItsOwn
  <2>. QED BY <1>0, <2>1, <2>2, <2>3, RefresherFacts, OneRefresherInv
<1>3. CASE Attach(t)
  <2>. DEFINE r == [refresher[t] EXCEPT !.pc = "idle", !.cause = failure]
  <2>1. refresher' = [refresher EXCEPT ![t] = r] /\ failure' = NoThread
    BY <1>3 DEF Attach, Becomes
  <2>2. r \in RefresherRecords /\ r.pc = "idle"
    BY RefresherFacts DEF RefresherRecords, PythonInv, PythonShape
  <2>. HIDE DEF r
  <2>3. HasItsOwn(t)'
    BY <2>1, <2>2, RefresherFacts DEF HasItsOwn
  <2>. QED BY <1>0, <2>1, <2>2, <2>3, RefresherFacts, OneRefresherInv
<1>. QED BY <1>1, <1>2, <1>3

\* Each step of every refresh.
LEMMA PythonStepInv == ASSUME PythonInv, [PythonNext]_pythonVars PROVE PythonInv'
<1>1. CASE RotateKeys \/ InstallSource \/ ReleaseSource \/ UNCHANGED pythonVars
  <2>1. /\ UNCHANGED <<kept, refresher, built, slot, reading>> /\ rotation' \in Nat
        /\ failure' = failure \/ failure' = NoThread
    BY <1>1 DEF RotateKeys, InstallSource, ReleaseSource, pythonVars, storeVars, sourceVars,
       PythonInv, PythonShape
  <2>2. PythonShape'
    BY <2>1 DEF PythonInv, PythonShape
  <2>3. KeptExceptionIsLive'
    BY <2>1 DEF PythonInv, KeptExceptionIsLive, Is
  <2>. QED BY <2>1, <2>2, <2>3 DEF PythonInv, HasItsOwn
<1>2. ASSUME NEW t \in Refreshers, RefresherNext(t) PROVE PythonInv'
  BY <1>2, RefreshesInv, PlainMovesInv, OpenS3Inv, OpenGitInv, ClientsInv, FetchReadInv
  DEF RefresherNext
<1>. QED BY <1>1, <1>2 DEF PythonNext

\* What the invariant says of a fetch and of the slot.
LEMMA PythonInvGives == PythonInv => FetchPresentsItsOwn /\ KeptExceptionIsLive
BY SecretsAreScrubbed DEF PythonInv, HasItsOwn, FetchPresentsItsOwn, Is

-----------------------------------------------------------------------------

(* The suite runs one of the two parts and leaves the other where it starts.  *)

\* Both parts start in their invariants, the one that does not run too.
LEMMA SuiteInitInv == SuiteInit => BindingsInv /\ PythonInv
<1> SUFFICES ASSUME SuiteInit PROVE BindingsInv /\ PythonInv
  OBVIOUS
<1>1. BindingsInv
  <2>1. CASE BindingsInit
    BY <2>1, BindingsInitInv
  <2>2. CASE ~BindingsInit
    <3>0. /\ runtime = "node" /\ edit = 1 /\ bad = {} /\ installs = <<>>
          /\ staged = <<>> /\ next_sequence = 0 /\ last_committed = 0
          /\ cache = NoModel /\ generation = 0 /\ replaced = 0
          /\ thread = [t \in Threads |-> AtRest] /\ calls = 0
      BY <2>2 DEF SuiteInit
    <3>1. AtRest \in ThreadRecords
      BY DEF AtRest, ThreadRecords, NoModel
    <3>2. BindingShape
      BY <3>0, <3>1, BindingsAssumption DEF BindingShape, NoModel
    <3>3. Publishing = {}
      BY <3>0 DEF Publishing, AtRest
    <3>4. ClaimsAreCounted
      BY <3>0, <3>3, FS_EmptySet DEF ClaimsAreCounted
    <3>5. ClaimedIsRead /\ PublishedWasInstalled /\ \A t \in Threads : OnItsWay(t)
      BY <3>0 DEF ClaimedIsRead, PublishedWasInstalled, OnItsWay, At, AtRest, AfterInstall
    <3>. QED BY <3>2, <3>4, <3>5 DEF BindingsInv
  <2>. QED BY <2>1, <2>2
<1>2. PythonInit
  <2>1. "consul" \in PythonStoreNames /\ "anonymous" \in DOMAIN Presents["consul"]
    BY DEF PythonStoreNames, Presents, ConsulAuth
  <2>2. CASE part = "stores"
    BY <2>2 DEF SuiteInit
  <2>3. CASE part # "stores"
    BY <2>1, <2>3 DEF SuiteInit, PythonInit
  <2>. QED BY <2>2, <2>3
<1>. QED BY <1>1, <1>2, PythonInitInv

\* A step of the suite is a step of each part, or leaves it alone.
LEMMA SuiteStepsOneWay ==
  ASSUME [SuiteNext]_suiteVars
  PROVE  [BindingsNext]_bindingVars /\ [PythonNext]_pythonVars
  BY DEF SuiteNext, suiteVars

\* Of the parts run together: what the program reads follows the engine.
THEOREM SuitePublishingIsExact == SuiteSpec => PublishingIsExact
<1>. DEFINE Own1 ==
       \A t \in Threads :
          /\ (Gil /\ At(t, "commit") /\ thread[t].commits = "caller"
              /\ thread'[t].pc = "idle") =>
                 cache' \in {thread[t].tree, Handmade}
          /\ (Gil /\ At(t, "revalidate") /\ thread'[t].pc = "idle") =>
                 cache' = thread[t].tree
          /\ (runtime # "free-threaded" /\ At(t, "candidate")
              /\ thread'[t].pc = "idle") =>
                 thread'[t].answer = thread[t].tree
<1>1. ASSUME BindingsInv, [SuiteNext]_suiteVars PROVE BindingsInv' /\ [Own1]_bindingVars
  BY <1>1, SuiteStepsOneWay, BindingsStepInv, AnsweredWithItsOwn DEF Answered
<1>2. PublishingIsExact <=>
         /\ [](PublishedWasInstalled /\ ValidationPublishedOnce /\ LaterInstallsArePublished)
         /\ [][Own1]_bindingVars
  BY DEF PublishingIsExact, AnswersAreTheirOwn
<1>. HIDE DEF Own1
<1>3. SuiteInit => BindingsInv /\ ReadOrOnItsWay
  <2>1. SuiteInit => BindingsInit \/ Node
    BY DEF SuiteInit, Node
  <2>2. Node => ReadOrOnItsWay
    BY DEF ReadOrOnItsWay
  <2>. QED BY <2>1, <2>2, NothingToRead, SuiteInitInv
<1>4. BindingsInv /\ ReadOrOnItsWay /\ [SuiteNext]_suiteVars => ReadOrOnItsWay'
  BY SuiteStepsOneWay, ReadStepInv
<1>5. BindingsInv /\ ReadOrOnItsWay =>
         PublishedWasInstalled /\ ValidationPublishedOnce /\ LaterInstallsArePublished
  BY BindingsInvGives, ReadGives
<1>. QED BY <1>1, <1>2, <1>3, <1>4, <1>5, PTL DEF SuiteSpec

\* Of any number of threads that refresh at the same time, each presents the
\* credential it was handed, unless it is one of two identities that share an S3
\* store, and every part of a credential that is not public is scrubbed from its
\* error, for every store and every kind of credential (the Python stores' open,
\* client and fetch, Secrets::scrub).
THEOREM FetchPresentsItsOwnCorrect == SuiteSpec => []FetchPresentsItsOwn
<1>1. PythonInv /\ [SuiteNext]_suiteVars => PythonInv'
  BY SuiteStepsOneWay, PythonStepInv
<1>. QED BY <1>1, SuiteInitInv, PythonInvGives, PTL DEF SuiteSpec

\* The exception a validation raised is kept only until the refresh it belongs
\* to has failed, so no later refresh is handed it.
THEOREM KeptExceptionIsLiveCorrect == SuiteSpec => []KeptExceptionIsLive
<1>1. PythonInv /\ [SuiteNext]_suiteVars => PythonInv'
  BY SuiteStepsOneWay, PythonStepInv
<1>. QED BY <1>1, SuiteInitInv, PythonInvGives, PTL DEF SuiteSpec

=============================================================================
