-------------------------- MODULE PrimitivesProofs --------------------------
(***************************************************************************)
(* Proofs about the concurrent building blocks, for any number of members, *)
(* threads, watches, tasks, keys and workers, and quiet periods, slots and *)
(* counters of any size.  Each part has its inductive invariant; the last  *)
(* section carries them over to the suite the model checker runs.          *)
(***************************************************************************)
EXTENDS MCPrimitives, FiniteSetTheorems, WellFoundedInduction, TLAPS

(* The reload group. *)

\* What the proofs use of the constants.
LEMMA SizeFacts == N \in Nat /\ N >= 1 /\ Free \notin Threads
BY GroupAssumption

\* Every variable of the group keeps its type; a thread's position stays
\* within its list of members.
THEOREM GroupTypeCorrect == GroupSpec => []GroupTypeOK
<1> USE DEF sharedVars, threadVars, Members, InstallMember
<1> USE DEF GroupTypeOK
<1>1. GroupInit => GroupTypeOK
  BY SizeFacts DEF GroupInit, ThreadTypeOK, PositionTypeOK, ServingTypeOK, Snapshot
<1>2. GroupTypeOK /\ [GroupNext]_groupVars => GroupTypeOK'
  <2> SUFFICES ASSUME GroupTypeOK, [GroupNext]_groupVars PROVE GroupTypeOK'
    OBVIOUS
  <2>0. ASSUME NEW t \in Threads
        PROVE  /\ 1 \in 1..(N + 1)
               /\ at[t] \in 1..(N + 1)
               /\ at[t] <= N => at[t] \in Members /\ at[t] + 1 \in 1..(N + 1)
    BY <2>0, SizeFacts DEF PositionTypeOK
  <2>1. CASE Edit
    BY <2>1 DEF Edit, ThreadTypeOK, PositionTypeOK, ServingTypeOK
  <2>2. ASSUME NEW t \in Threads, Begin(t) PROVE GroupTypeOK'
    <3>1. ThreadTypeOK'
      BY <2>2 DEF Begin, ThreadTypeOK
    <3>2. PositionTypeOK'
      BY <2>2, <2>0 DEF Begin, PositionTypeOK
    <3> QED
      BY <3>1, <3>2, <2>2 DEF Begin, ServingTypeOK
  <2>3. ASSUME NEW t \in Threads, Prepare(t) PROVE GroupTypeOK'
    <3>1. ThreadTypeOK'
      BY <2>3, <2>0 DEF Prepare, ThreadTypeOK
    <3>2. PositionTypeOK'
      BY <2>3, <2>0 DEF Prepare, PositionTypeOK
    <3> QED
      BY <3>1, <3>2, <2>3 DEF Prepare, ServingTypeOK
  <2>4. ASSUME NEW t \in Threads, PrepareFails(t) PROVE GroupTypeOK'
    <3>1. ThreadTypeOK' /\ batch[t] \in Nat
      BY <2>4 DEF PrepareFails, ThreadTypeOK
    <3>2. failed' \subseteq Nat
      BY <3>1, <2>4 DEF PrepareFails
    <3> QED
      BY <3>1, <3>2, <2>4 DEF PrepareFails, PositionTypeOK, ServingTypeOK
  <2>5. ASSUME NEW t \in Threads, Prepared(t) PROVE GroupTypeOK'
    <3>1. ThreadTypeOK'
      BY <2>5 DEF Prepared, ThreadTypeOK
    <3>2. PositionTypeOK'
      BY <2>5, <2>0 DEF Prepared, PositionTypeOK
    <3> QED
      BY <3>1, <3>2, <2>5 DEF Prepared, ServingTypeOK
  <2>6. ASSUME NEW t \in Threads, CommitOne(t) PROVE GroupTypeOK'
    <3>0. at[t] \in Members /\ commits[t][at[t]] \in Nat /\ batch[t] \in Nat
      BY <2>6, <2>0 DEF CommitOne, ThreadTypeOK
    <3>1. ServingTypeOK'
      BY <3>0, <2>6 DEF CommitOne, ServingTypeOK, Snapshot
    <3>2. PositionTypeOK'
      BY <2>6, <2>0 DEF CommitOne, PositionTypeOK
    <3> QED
      BY <3>1, <3>2, <2>6 DEF CommitOne, ThreadTypeOK
  <2>7. ASSUME NEW t \in Threads, End(t) PROVE GroupTypeOK'
    BY <2>7 DEF End, ThreadTypeOK, PositionTypeOK, ServingTypeOK
  <2>8. CASE UNCHANGED groupVars
    BY <2>8 DEF groupVars, ThreadTypeOK, PositionTypeOK, ServingTypeOK
  <2> QED
    BY <2>1, <2>2, <2>3, <2>4, <2>5, <2>6, <2>7, <2>8 DEF GroupNext, ThreadNext
<1> QED
  BY <1>1, <1>2, PTL DEF GroupSpec

-----------------------------------------------------------------------------
(* The thread that holds the lock is the only one inside reload.  While it   *)
(* prepares, everything served is older than its own reload; while it        *)
(* commits, the members behind it are of its reload and the ones ahead of it *)
(* still agree with each other.                                              *)

Exclusive == \A t \in Threads : pc[t] # "idle" <=> lock = t

BatchesAreNumbered ==
    /\ \A m \in Members : served[m].batch <= reloads
    /\ \A b \in failed : b <= reloads
    /\ \A t \in Threads : pc[t] # "idle" => batch[t] <= reloads

Preparing ==
    \A t \in Threads : pc[t] = "prepare" =>
        /\ \A m, n \in Members : served[m].batch = served[n].batch
        /\ \A m \in Members : served[m].batch < batch[t]
        /\ batch[t] \notin failed

Committing ==
    \A t \in Threads : pc[t] = "commit" =>
        /\ \A m \in Members : m < at[t] => served[m].batch = batch[t]
        /\ \A m, n \in Members : m >= at[t] /\ n >= at[t]
              => served[m].batch = served[n].batch
        /\ batch[t] \notin failed

GroupInv ==
    /\ Exclusive /\ BatchesAreNumbered /\ Preparing /\ Committing
    /\ MembersMoveTogether /\ FailureMovesNothing

\* The inductive invariant of the group.
LEMMA GroupInvHolds == GroupSpec => []GroupInv
<1> USE DEF sharedVars, threadVars, Members, InstallMember
<1>1. GroupInit => GroupInv
  BY SizeFacts DEF GroupInit, GroupInv, Exclusive, BatchesAreNumbered, Preparing, Committing,
     MembersMoveTogether, FailureMovesNothing
<1>2. GroupTypeOK /\ GroupTypeOK' /\ GroupInv /\ [GroupNext]_groupVars => GroupInv'
  <2> SUFFICES ASSUME GroupTypeOK, GroupTypeOK', GroupInv, [GroupNext]_groupVars PROVE GroupInv'
    OBVIOUS
  <2> USE DEF GroupInv
  <2>0. /\ reloads \in Nat /\ failed \subseteq Nat
        /\ \A m \in Members : served[m].batch \in Nat
        /\ \A t \in Threads : batch[t] \in Nat
        /\ pc = [t \in Threads |-> pc[t]] /\ batch = [t \in Threads |-> batch[t]]
        /\ at = [t \in Threads |-> at[t]]
        /\ served = [m \in Members |-> served[m]]
    BY DEF GroupTypeOK, ThreadTypeOK, PositionTypeOK, ServingTypeOK, Snapshot
  <2>p. \A t \in Threads : at[t] \in Nat /\ at[t] >= 1 /\ at[t] <= N + 1
    BY SizeFacts DEF GroupTypeOK, PositionTypeOK
  <2>q. \A m \in Members : m \in Nat /\ m >= 1 /\ m <= N
    BY SizeFacts
  <2>n. /\ \A m \in Members : served[m].batch < reloads + 1
        /\ reloads + 1 \notin failed
    BY <2>0 DEF BatchesAreNumbered
  <2>1. ASSUME UNCHANGED <<lock, threadVars, served, reloads, failed>>
        PROVE  GroupInv'
    BY <2>1 DEF Exclusive, BatchesAreNumbered, Preparing, Committing,
       MembersMoveTogether, FailureMovesNothing
  <2>2. ASSUME NEW t \in Threads, Begin(t) PROVE GroupInv'
    <3>1. /\ lock = Free /\ lock' = t /\ reloads' = reloads + 1
          /\ batch' = [batch EXCEPT ![t] = reloads + 1]
          /\ pc' = [pc EXCEPT ![t] = "prepare"]
          /\ UNCHANGED <<served, failed>>
      BY <2>2 DEF Begin, Available
    <3>2. Exclusive'
      BY <3>1, <2>0, SizeFacts DEF Exclusive
    <3>3. BatchesAreNumbered'
      <4>1. \A m \in Members : served'[m].batch <= reloads'
        BY <3>1, <2>0 DEF BatchesAreNumbered
      <4>2. \A b \in failed' : b <= reloads'
        BY <3>1, <2>0 DEF BatchesAreNumbered
      <4>3. \A u \in Threads : pc'[u] # "idle" => batch'[u] <= reloads'
        <5>1. \A u \in Threads : pc'[u] # "idle" => u = t
          BY <3>1, <3>2 DEF Exclusive
        <5>2. batch'[t] = reloads'
          BY <3>1, <2>0
        <5> QED
          BY <5>1, <5>2, <3>1, <2>0
      <4> QED
        BY <4>1, <4>2, <4>3 DEF BatchesAreNumbered
    <3>4. Preparing'
      <4>1. \A u \in Threads : pc'[u] # "idle" => u = t
        BY <3>1, <3>2 DEF Exclusive
      <4>2. batch'[t] = reloads + 1
        BY <3>1, <2>0
      <4> QED
        BY <4>1, <4>2, <3>1, <2>n DEF Preparing, MembersMoveTogether
    <3>5. Committing' /\ MembersMoveTogether' /\ FailureMovesNothing'
      BY <3>1, <3>2, <2>0, SizeFacts DEF Committing, Exclusive, MembersMoveTogether,
         FailureMovesNothing
    <3> QED
      BY <3>2, <3>3, <3>4, <3>5
  <2>3. ASSUME NEW t \in Threads, Prepare(t) PROVE GroupInv'
    BY <2>3 DEF Prepare, Exclusive, BatchesAreNumbered, Preparing, Committing,
       MembersMoveTogether, FailureMovesNothing
  <2>4. ASSUME NEW t \in Threads, PrepareFails(t) PROVE GroupInv'
    <3>1. /\ pc[t] = "prepare" /\ lock = t /\ lock' = Free
          /\ pc' = [pc EXCEPT ![t] = "idle"]
          /\ failed' = failed \union {batch[t]}
          /\ UNCHANGED <<at, batch, served, reloads>>
      BY <2>4 DEF PrepareFails, Exclusive
    <3>2. \A u \in Threads : pc'[u] = "idle" /\ u # Free
      BY <3>1, <2>0, SizeFacts DEF Exclusive
    <3>3. MembersMoveTogether' /\ Exclusive' /\ Preparing' /\ Committing'
      BY <3>1, <3>2 DEF MembersMoveTogether, Preparing, Exclusive, Committing
    <3>4. BatchesAreNumbered'
      BY <3>1, <3>2, <2>0 DEF BatchesAreNumbered
    <3>5. FailureMovesNothing'
      BY <3>1, <2>0 DEF FailureMovesNothing, Preparing
    <3> QED
      BY <3>3, <3>4, <3>5
  <2>5. ASSUME NEW t \in Threads, Prepared(t) PROVE GroupInv'
    <3>1. /\ pc[t] = "prepare"
          /\ pc' = [pc EXCEPT ![t] = "commit"] /\ at' = [at EXCEPT ![t] = 1]
          /\ UNCHANGED <<lock, batch, served, reloads, failed>>
      BY <2>5 DEF Prepared
    <3>2. Exclusive' /\ BatchesAreNumbered' /\ Preparing'
      BY <3>1 DEF Exclusive, BatchesAreNumbered, Preparing
    <3>3. Committing'
      BY <3>1, <2>0, <2>q DEF Committing, Preparing
    <3> QED
      BY <3>1, <3>2, <3>3 DEF MembersMoveTogether, FailureMovesNothing
  <2>6. ASSUME NEW t \in Threads, CommitOne(t) PROVE GroupInv'
    <3>1. /\ pc[t] = "commit" /\ lock = t /\ at[t] \in Members
          /\ at' = [at EXCEPT ![t] = at[t] + 1]
          /\ UNCHANGED <<lock, pc, batch, reloads, failed>>
      BY <2>6, <2>p, SizeFacts DEF CommitOne, Exclusive
    <3>2. \A m \in Members : served'[m].batch =
             IF m = at[t] THEN batch[t] ELSE served[m].batch
      BY <3>1, <2>6, <2>0 DEF CommitOne
    <3>3. \A u \in Threads : pc[u] # "idle" => u = t
      BY <3>1 DEF Exclusive
    <3>4. Exclusive' /\ Preparing'
      BY <3>1, <3>3 DEF Exclusive, Preparing
    <3>5. BatchesAreNumbered' /\ FailureMovesNothing'
      BY <3>1, <3>2 DEF BatchesAreNumbered, FailureMovesNothing, Committing
    <3>6. Committing'
      <4> SUFFICES ASSUME NEW u \in Threads, pc'[u] = "commit"
                   PROVE  /\ \A m \in Members : m < at'[u] => served'[m].batch = batch'[u]
                          /\ \A m, n \in Members : m >= at'[u] /\ n >= at'[u]
                                => served'[m].batch = served'[n].batch
                          /\ batch'[u] \notin failed'
        BY DEF Committing
      <4>1. u = t /\ at'[t] = at[t] + 1
        BY <3>1, <3>3, <2>0
      <4>2. \A m \in Members : m < at[t] => served[m].batch = batch[t]
        BY <3>1 DEF Committing
      <4>3. \A m \in Members : m < at'[u] => served'[m].batch = batch'[u]
        BY <4>1, <4>2, <3>1, <3>2, <2>p, <2>q
      <4>4. \A m, n \in Members : m >= at'[u] /\ n >= at'[u]
                => served'[m].batch = served'[n].batch
        BY <4>1, <3>1, <3>2, <2>p, <2>q DEF Committing
      <4> QED
        BY <4>1, <4>3, <4>4, <3>1 DEF Committing
    <3> QED
      BY <3>1, <3>4, <3>5, <3>6, SizeFacts DEF MembersMoveTogether
  <2>7. ASSUME NEW t \in Threads, End(t) PROVE GroupInv'
    <3>1. /\ pc[t] = "commit" /\ at[t] = N + 1 /\ lock = t /\ lock' = Free
          /\ pc' = [pc EXCEPT ![t] = "idle"]
          /\ UNCHANGED <<at, batch, served, reloads, failed>>
      BY <2>7 DEF End, Exclusive
    <3>2. \A u \in Threads : pc'[u] = "idle" /\ u # Free
      BY <3>1, <2>0, SizeFacts DEF Exclusive
    <3>3. MembersMoveTogether'
      BY <3>1, <2>q, SizeFacts DEF MembersMoveTogether, Committing
    <3> QED
      BY <3>1, <3>2, <3>3 DEF Exclusive, BatchesAreNumbered, Preparing,
         Committing, FailureMovesNothing
  <2>8. CASE Edit
    BY <2>8, <2>1 DEF Edit
  <2>9. CASE UNCHANGED groupVars
    BY <2>9, <2>1 DEF groupVars
  <2> QED
    BY <2>2, <2>3, <2>4, <2>5, <2>6, <2>7, <2>8, <2>9 DEF GroupNext, ThreadNext
<1> QED
  BY <1>1, <1>2, GroupTypeCorrect, PTL DEF GroupSpec

\* Concurrent reloads of a group leave no mixture of two of them behind.
THEOREM MembersMoveTogetherCorrect == GroupSpec => []MembersMoveTogether
<1>1. GroupInv => MembersMoveTogether
  BY DEF GroupInv
<1> QED
  BY <1>1, GroupInvHolds, PTL

\* A group reload that fails installs nothing.
THEOREM FailureMovesNothingCorrect == GroupSpec => []FailureMovesNothing
<1>1. GroupInv => FailureMovesNothing
  BY DEF GroupInv
<1> QED
  BY <1>1, GroupInvHolds, PTL

\* For any group and any number of concurrent reloads: all members move, to what
\* one reload prepared, or none does (ReloadGroup::reload).
THEOREM GroupIsAtomicCorrect == GroupSpec => []GroupIsAtomic
BY MembersMoveTogetherCorrect, FailureMovesNothingCorrect, PTL DEF GroupIsAtomic

-----------------------------------------------------------------------------

(* The file watcher.  That no edit is missed rests on EditPending: from the     *)
(* moment the directories are watched, an edit the watch has not read has an    *)
(* event in the channel or an open window behind it.                            *)

\* The thread comes after the watches.
ThreadAfterSpawn ==
    \A i \in Watches :
        handle[i] \in {"none", "inserted", "backend", "armed"} => loop[i] = "none"

EventPending(i) == \E k \in 1..Len(queue[i]) : queue[i][k] = "ours"

\* An unread edit is on its way.
EditPending ==
    \A i \in Watches :
        handle[i] \in Watching /\ ~torn /\ version > from[i] /\ seen[i] # version =>
            EventPending(i) \/ loop[i] \in {"collect", "grace"}

\* The ticks waited and the ticks left make up the period.
WindowTimed ==
    \A i \in Watches : loop[i] = "collect" =>
        /\ waited[i] + ceiling[i] = Ceiling
        /\ calm[i] + quiet[i] = Debounce

WatchInv == WatchTypeOK /\ OneWatchPerKey /\ ThreadAfterSpawn /\ EditPending /\ WindowTimed

LEMMA CeilingNat == Ceiling \in Nat
  BY WatchAssumption DEF Ceiling

\* An event behind the first survives the first one's receipt, and every event
\* survives an arrival.
LEMMA PendingAfterTail ==
  ASSUME NEW s \in Seq({"ours", "other"}), s # <<>>, Head(s) = "other",
         NEW k \in 1..Len(s), s[k] = "ours"
  PROVE  \E j \in 1..Len(Tail(s)) : Tail(s)[j] = "ours"
<1>1. k # 1
  OBVIOUS
<1>2. k - 1 \in 1..Len(Tail(s)) /\ Tail(s)[k - 1] = "ours"
  BY <1>1
<1>. QED BY <1>2

LEMMA PendingAfterAppend ==
  ASSUME NEW s \in Seq({"ours", "other"}), NEW e \in {"ours", "other"}
  PROVE  /\ Append(s, e) \in Seq({"ours", "other"})
         /\ e = "ours" => \E j \in 1..Len(Append(s, e)) : Append(s, e)[j] = "ours"
         /\ (\E j \in 1..Len(s) : s[j] = "ours") =>
                \E j \in 1..Len(Append(s, e)) : Append(s, e)[j] = "ours"
<1>1. Len(Append(s, e)) = Len(s) + 1 /\ Append(s, e)[Len(s) + 1] = e
  OBVIOUS
<1>2. \A j \in 1..Len(s) : j \in 1..Len(Append(s, e)) /\ Append(s, e)[j] = s[j]
  OBVIOUS
<1>3. Len(s) + 1 \in 1..Len(Append(s, e))
  BY <1>1
<1>. QED BY <1>1, <1>2, <1>3

LEMMA WatchInitInv == ASSUME WatchInit PROVE WatchInv
<1>. USE WatchAssumption, CeilingNat
<1>a. FileTypeOK /\ LoopTypeOK /\ LoadTypeOK
  BY DEF WatchInit, FileTypeOK, LoopTypeOK, LoadTypeOK
<1>b. started \in BOOLEAN
  BY Zenon DEF WatchInit
<1>d. /\ handle \in [Watches -> Holding \union {"none", "gone"}]
      /\ from \in [Watches -> Nat] /\ QueueTypeOK
  BY DEF WatchInit, QueueTypeOK
<1>c. TimerTypeOK
  BY DEF WatchInit, TimerTypeOK
<1>1. WatchTypeOK
  BY <1>a, <1>b, <1>c, <1>d DEF WatchTypeOK, RegistryTypeOK
<1>2. OneWatchPerKey /\ ThreadAfterSpawn /\ EditPending /\ WindowTimed
  BY DEF WatchInit, OneWatchPerKey, ThreadAfterSpawn, EditPending, WindowTimed, Holding, Watching
<1>. QED BY <1>1, <1>2 DEF WatchInv

LEMMA WatchStepInv == ASSUME WatchInv, [WatchNext]_watchVars PROVE WatchInv'
<1>. USE WatchAssumption, CeilingNat
<1>. USE DEF WatchInv, WatchTypeOK

<1>Replace. CASE Replace
  <2>. Replace
    BY <1>Replace
  <2>u. UNCHANGED <<torn, noise, started, handle, loop, quiet, ceiling, got, serving, waited, calm, from, seen>>
    BY DEF Replace, fileVars, registryVars, timerVars, loadVars
  <2>q. RegistryTypeOK' /\ LoopTypeOK' /\ TimerTypeOK' /\ LoadTypeOK' /\ OneWatchPerKey' /\ ThreadAfterSpawn' /\ WindowTimed'
    BY <2>u DEF RegistryTypeOK, LoopTypeOK, TimerTypeOK, LoadTypeOK, OneWatchPerKey, ThreadAfterSpawn, WindowTimed
  <2>FileTypeOK. FileTypeOK'
    BY <2>u DEF Replace, Notify, FileTypeOK
  <2>QueueTypeOK. QueueTypeOK'
    BY <2>u, PendingAfterAppend DEF Replace, Notify, QueueTypeOK
  <2>EditPending. EditPending'
    <3>. SUFFICES ASSUME NEW i \in Watches, handle[i] \in Watching, ~torn', version' > from[i],
                         seen[i] # version'
                  PROVE  EventPending(i)' \/ loop[i] \in {"collect", "grace"}
      BY <2>u DEF EditPending
    <3>1. queue'[i] = Append(queue[i], "ours") /\ queue[i] \in Seq({"ours", "other"})
      BY DEF Replace, Notify, QueueTypeOK
    <3>. QED BY <3>1, <2>u, PendingAfterAppend DEF Replace, EditPending, EventPending
  <2>. QED BY <2>q, <2>FileTypeOK, <2>QueueTypeOK, <2>EditPending
<1>Truncate. CASE Truncate
  <2>. Truncate
    BY <1>Truncate
  <2>u. UNCHANGED <<version, noise, started, handle, loop, quiet, ceiling, got, serving, waited, calm, from, seen>>
    BY DEF Truncate, fileVars, registryVars, timerVars, loadVars
  <2>q. RegistryTypeOK' /\ LoopTypeOK' /\ TimerTypeOK' /\ LoadTypeOK' /\ OneWatchPerKey' /\ ThreadAfterSpawn' /\ WindowTimed'
    BY <2>u DEF RegistryTypeOK, LoopTypeOK, TimerTypeOK, LoadTypeOK, OneWatchPerKey, ThreadAfterSpawn, WindowTimed
  <2>FileTypeOK. FileTypeOK'
    BY <2>u DEF Truncate, Notify, FileTypeOK
  <2>QueueTypeOK. QueueTypeOK'
    BY <2>u, PendingAfterAppend DEF Truncate, Notify, QueueTypeOK
  <2>EditPending. EditPending'
    <3>. SUFFICES ASSUME NEW i \in Watches, handle[i] \in Watching, ~torn', version' > from[i],
                         seen[i] # version'
                  PROVE  EventPending(i)' \/ loop[i] \in {"collect", "grace"}
      BY <2>u DEF EditPending
    <3>1. queue'[i] = Append(queue[i], "ours") /\ queue[i] \in Seq({"ours", "other"})
      BY DEF Truncate, Notify, QueueTypeOK
    <3>. QED BY <3>1, <2>u, PendingAfterAppend DEF Truncate, EditPending, EventPending
  <2>. QED BY <2>q, <2>FileTypeOK, <2>QueueTypeOK, <2>EditPending
<1>Complete. CASE Complete
  <2>. Complete
    BY <1>Complete
  <2>u. UNCHANGED <<noise, started, handle, loop, quiet, ceiling, got, serving, waited, calm, from, seen>>
    BY DEF Complete, fileVars, registryVars, timerVars, loadVars
  <2>q. RegistryTypeOK' /\ LoopTypeOK' /\ TimerTypeOK' /\ LoadTypeOK' /\ OneWatchPerKey' /\ ThreadAfterSpawn' /\ WindowTimed'
    BY <2>u DEF RegistryTypeOK, LoopTypeOK, TimerTypeOK, LoadTypeOK, OneWatchPerKey, ThreadAfterSpawn, WindowTimed
  <2>FileTypeOK. FileTypeOK'
    <3>1. version' = version + 1 /\ torn' = FALSE
      BY DEF Complete
    <3>2. version' \in Nat /\ noise' \in Nat
      BY <3>1, <2>u DEF FileTypeOK
    <3>3. torn' \in BOOLEAN
      BY <3>1, Zenon
    <3>. QED BY <3>2, <3>3 DEF FileTypeOK
  <2>QueueTypeOK. QueueTypeOK'
    BY <2>u, PendingAfterAppend DEF Complete, Notify, QueueTypeOK
  <2>EditPending. EditPending'
    <3>. SUFFICES ASSUME NEW i \in Watches, handle[i] \in Watching, ~torn', version' > from[i],
                         seen[i] # version'
                  PROVE  EventPending(i)' \/ loop[i] \in {"collect", "grace"}
      BY <2>u DEF EditPending
    <3>1. queue'[i] = Append(queue[i], "ours") /\ queue[i] \in Seq({"ours", "other"})
      BY DEF Complete, Notify, QueueTypeOK
    <3>. QED BY <3>1, <2>u, PendingAfterAppend DEF Complete, EditPending, EventPending
  <2>. QED BY <2>q, <2>FileTypeOK, <2>QueueTypeOK, <2>EditPending
<1>Neighbour. CASE Neighbour
  <2>. Neighbour
    BY <1>Neighbour
  <2>u. UNCHANGED <<version, torn, started, handle, loop, quiet, ceiling, got, serving, waited, calm, from, seen>>
    BY DEF Neighbour, fileVars, registryVars, timerVars, loadVars
  <2>q. RegistryTypeOK' /\ LoopTypeOK' /\ TimerTypeOK' /\ LoadTypeOK' /\ OneWatchPerKey' /\ ThreadAfterSpawn' /\ WindowTimed'
    BY <2>u DEF RegistryTypeOK, LoopTypeOK, TimerTypeOK, LoadTypeOK, OneWatchPerKey, ThreadAfterSpawn, WindowTimed
  <2>FileTypeOK. FileTypeOK'
    BY <2>u DEF Neighbour, Notify, FileTypeOK
  <2>QueueTypeOK. QueueTypeOK'
    BY <2>u, PendingAfterAppend DEF Neighbour, Notify, QueueTypeOK
  <2>EditPending. EditPending'
    <3>. SUFFICES ASSUME NEW i \in Watches, handle[i] \in Watching, ~torn', version' > from[i],
                         seen[i] # version'
                  PROVE  EventPending(i)' \/ loop[i] \in {"collect", "grace"}
      BY <2>u DEF EditPending
    <3>1. queue'[i] = Append(queue[i], "other") /\ queue[i] \in Seq({"ours", "other"})
      BY DEF Neighbour, Notify, QueueTypeOK
    <3>. QED BY <3>1, <2>u, PendingAfterAppend DEF Neighbour, EditPending, EventPending
  <2>. QED BY <2>q, <2>FileTypeOK, <2>QueueTypeOK, <2>EditPending
<1>Tick. CASE Tick
  <2>. Tick
    BY <1>Tick
  <2>u. UNCHANGED <<version, torn, noise, started, handle, queue, loop, got, serving, from, seen>>
    BY DEF Tick, fileVars, registryVars, timerVars, loadVars
  <2>q. FileTypeOK' /\ RegistryTypeOK' /\ QueueTypeOK' /\ LoopTypeOK' /\ LoadTypeOK' /\ OneWatchPerKey' /\ ThreadAfterSpawn' /\ EditPending'
    BY <2>u DEF FileTypeOK, RegistryTypeOK, QueueTypeOK, LoopTypeOK, LoadTypeOK, OneWatchPerKey, ThreadAfterSpawn, EditPending, EventPending
  <2>Ticked. \A j \in Watches :
                IF loop[j] = "collect"
                THEN /\ quiet[j] > 0 /\ quiet'[j] = quiet[j] - 1
                     /\ ceiling[j] > 0 /\ ceiling'[j] = ceiling[j] - 1
                     /\ waited'[j] = waited[j] + 1 /\ calm'[j] = calm[j] + 1
                ELSE /\ quiet'[j] = quiet[j] /\ ceiling'[j] = ceiling[j]
                     /\ waited'[j] = waited[j] /\ calm'[j] = calm[j]
    <3>. TAKE j \in Watches
    <3>1. /\ quiet[j] \in 0..Debounce /\ ceiling[j] \in 0..Ceiling
          /\ waited[j] \in Nat /\ calm[j] \in Nat
      BY DEF TimerTypeOK
    <3>2. loop[j] = "collect" => quiet[j] > 0 /\ ceiling[j] > 0
      BY <3>1 DEF Tick, Collecting, Expired, Least
    <3>. QED BY <3>1, <3>2 DEF Tick, Countdown, Less, More, Collecting
  <2>Domains. /\ quiet' = [j \in Watches |-> quiet'[j]]
              /\ ceiling' = [j \in Watches |-> ceiling'[j]]
              /\ waited' = [j \in Watches |-> waited'[j]]
              /\ calm' = [j \in Watches |-> calm'[j]]
    BY DEF Tick, Countdown, Less, More
  <2>TimerTypeOK. TimerTypeOK'
    <3>1. \A j \in Watches :
            /\ quiet'[j] \in 0..Debounce /\ ceiling'[j] \in 0..Ceiling
            /\ waited'[j] \in Nat /\ calm'[j] \in Nat
      <4>. TAKE j \in Watches
      <4>1. /\ quiet[j] \in 0..Debounce /\ ceiling[j] \in 0..Ceiling
            /\ waited[j] \in Nat /\ calm[j] \in Nat
        BY DEF TimerTypeOK
      <4>. QED BY <2>Ticked, <4>1
    <3>. QED BY <3>1, <2>Domains DEF TimerTypeOK
  <2>WindowTimed. WindowTimed'
    <3>. SUFFICES ASSUME NEW j \in Watches, loop[j] = "collect"
                  PROVE  /\ waited'[j] + ceiling'[j] = Ceiling
                         /\ calm'[j] + quiet'[j] = Debounce
      BY <2>u DEF WindowTimed
    <3>1. /\ quiet[j] \in 0..Debounce /\ ceiling[j] \in 0..Ceiling
          /\ waited[j] \in Nat /\ calm[j] \in Nat
      BY DEF TimerTypeOK
    <3>. QED BY <2>Ticked, <3>1 DEF WindowTimed
  <2>. QED BY <2>q, <2>TimerTypeOK, <2>WindowTimed
<1>Insert. CASE \E i \in Watches : Insert(i)
  <2>. PICK i \in Watches : Insert(i)
    BY <1>Insert
  <2>u. UNCHANGED <<version, torn, noise, queue, loop, quiet, ceiling, got, serving, waited, calm, from, seen>>
    BY DEF Insert, fileVars, registryVars, timerVars, loadVars
  <2>q. FileTypeOK' /\ QueueTypeOK' /\ LoopTypeOK' /\ TimerTypeOK' /\ LoadTypeOK' /\ WindowTimed'
    BY <2>u DEF FileTypeOK, QueueTypeOK, LoopTypeOK, TimerTypeOK, LoadTypeOK, WindowTimed
  <2>RegistryTypeOK. RegistryTypeOK'
    BY <2>u DEF Insert, SetHandle, RegistryTypeOK, Holding, Watching
  <2>OneWatchPerKey. OneWatchPerKey'
    BY <2>u DEF Insert, SetHandle, OneWatchPerKey, Holding, Watching, RegistryTypeOK
  <2>ThreadAfterSpawn. ThreadAfterSpawn'
    BY <2>u DEF Insert, SetHandle, ThreadAfterSpawn, RegistryTypeOK, Holding, Watching, LoopTypeOK
  <2>EditPending. EditPending'
    BY <2>u DEF Insert, SetHandle, EditPending, EventPending, Watching, FileTypeOK, RegistryTypeOK, Holding, QueueTypeOK, LoopTypeOK, LoadTypeOK, ThreadAfterSpawn
  <2>. QED BY <2>q, <2>RegistryTypeOK, <2>OneWatchPerKey, <2>ThreadAfterSpawn, <2>EditPending
<1>CreateBackend. CASE \E i \in Watches : CreateBackend(i)
  <2>. PICK i \in Watches : CreateBackend(i)
    BY <1>CreateBackend
  <2>u. UNCHANGED <<version, torn, noise, started, queue, loop, quiet, ceiling, got, serving, waited, calm, from, seen>>
    BY DEF CreateBackend, fileVars, registryVars, timerVars, loadVars
  <2>q. FileTypeOK' /\ QueueTypeOK' /\ LoopTypeOK' /\ TimerTypeOK' /\ LoadTypeOK' /\ WindowTimed'
    BY <2>u DEF FileTypeOK, QueueTypeOK, LoopTypeOK, TimerTypeOK, LoadTypeOK, WindowTimed
  <2>RegistryTypeOK. RegistryTypeOK'
    BY <2>u DEF CreateBackend, SetHandle, RegistryTypeOK, Holding, Watching
  <2>OneWatchPerKey. OneWatchPerKey'
    BY <2>u DEF CreateBackend, SetHandle, OneWatchPerKey, Holding, Watching, RegistryTypeOK
  <2>ThreadAfterSpawn. ThreadAfterSpawn'
    BY <2>u DEF CreateBackend, SetHandle, ThreadAfterSpawn, RegistryTypeOK, Holding, Watching, LoopTypeOK
  <2>EditPending. EditPending'
    BY <2>u DEF CreateBackend, SetHandle, EditPending, EventPending, Watching, FileTypeOK, RegistryTypeOK, Holding, QueueTypeOK, LoopTypeOK, LoadTypeOK, ThreadAfterSpawn
  <2>. QED BY <2>q, <2>RegistryTypeOK, <2>OneWatchPerKey, <2>ThreadAfterSpawn, <2>EditPending
<1>WatchDirectories. CASE \E i \in Watches : WatchDirectories(i)
  <2>. PICK i \in Watches : WatchDirectories(i)
    BY <1>WatchDirectories
  <2>u. UNCHANGED <<version, torn, noise, started, queue, loop, quiet, ceiling, got, serving, waited, calm, seen>>
    BY DEF WatchDirectories, fileVars, registryVars, timerVars, loadVars
  <2>q. FileTypeOK' /\ QueueTypeOK' /\ LoopTypeOK' /\ TimerTypeOK' /\ LoadTypeOK' /\ WindowTimed'
    BY <2>u DEF FileTypeOK, QueueTypeOK, LoopTypeOK, TimerTypeOK, LoadTypeOK, WindowTimed
  <2>RegistryTypeOK. RegistryTypeOK'
    BY <2>u DEF WatchDirectories, SetHandle, RegistryTypeOK, Holding, Watching, FileTypeOK
  <2>OneWatchPerKey. OneWatchPerKey'
    BY <2>u DEF WatchDirectories, SetHandle, OneWatchPerKey, Holding, Watching, RegistryTypeOK
  <2>ThreadAfterSpawn. ThreadAfterSpawn'
    BY <2>u DEF WatchDirectories, SetHandle, ThreadAfterSpawn, RegistryTypeOK, Holding, Watching, LoopTypeOK
  <2>EditPending. EditPending'
    BY <2>u DEF WatchDirectories, SetHandle, EditPending, EventPending, Watching, FileTypeOK, RegistryTypeOK, Holding, QueueTypeOK, LoopTypeOK, LoadTypeOK, ThreadAfterSpawn
  <2>. QED BY <2>q, <2>RegistryTypeOK, <2>OneWatchPerKey, <2>ThreadAfterSpawn, <2>EditPending
<1>SpawnThread. CASE \E i \in Watches : SpawnThread(i)
  <2>. PICK i \in Watches : SpawnThread(i)
    BY <1>SpawnThread
  <2>u. UNCHANGED <<version, torn, noise, started, queue, quiet, ceiling, got, serving, waited, calm, from, seen>>
    BY DEF SpawnThread, fileVars, registryVars, timerVars, loadVars
  <2>q. FileTypeOK' /\ QueueTypeOK' /\ TimerTypeOK' /\ LoadTypeOK'
    BY <2>u DEF FileTypeOK, QueueTypeOK, TimerTypeOK, LoadTypeOK
  <2>RegistryTypeOK. RegistryTypeOK'
    BY <2>u DEF SpawnThread, SetHandle, Goto, RegistryTypeOK, Holding, Watching
  <2>LoopTypeOK. LoopTypeOK'
    BY <2>u DEF SpawnThread, SetHandle, Goto, LoopTypeOK
  <2>OneWatchPerKey. OneWatchPerKey'
    BY <2>u DEF SpawnThread, SetHandle, Goto, OneWatchPerKey, Holding, Watching, RegistryTypeOK
  <2>ThreadAfterSpawn. ThreadAfterSpawn'
    BY <2>u DEF SpawnThread, SetHandle, Goto, ThreadAfterSpawn, RegistryTypeOK, Holding, Watching, LoopTypeOK
  <2>EditPending. EditPending'
    BY <2>u DEF SpawnThread, SetHandle, Goto, EditPending, EventPending, Watching, FileTypeOK, RegistryTypeOK, Holding, QueueTypeOK, LoopTypeOK, LoadTypeOK, ThreadAfterSpawn
  <2>WindowTimed. WindowTimed'
    BY <2>u DEF SpawnThread, SetHandle, Goto, WindowTimed, LoopTypeOK, TimerTypeOK
  <2>. QED BY <2>q, <2>RegistryTypeOK, <2>LoopTypeOK, <2>OneWatchPerKey, <2>ThreadAfterSpawn, <2>EditPending, <2>WindowTimed
<1>SpawnFails. CASE \E i \in Watches : SpawnFails(i)
  <2>. PICK i \in Watches : SpawnFails(i)
    BY <1>SpawnFails
  <2>u. UNCHANGED <<version, torn, noise, started, queue, loop, quiet, ceiling, got, serving, waited, calm, from, seen>>
    BY DEF SpawnFails, fileVars, registryVars, timerVars, loadVars
  <2>q. FileTypeOK' /\ QueueTypeOK' /\ LoopTypeOK' /\ TimerTypeOK' /\ LoadTypeOK' /\ WindowTimed'
    BY <2>u DEF FileTypeOK, QueueTypeOK, LoopTypeOK, TimerTypeOK, LoadTypeOK, WindowTimed
  <2>RegistryTypeOK. RegistryTypeOK'
    BY <2>u DEF SpawnFails, SetHandle, RegistryTypeOK, Holding, Watching
  <2>OneWatchPerKey. OneWatchPerKey'
    BY <2>u DEF SpawnFails, SetHandle, OneWatchPerKey, Holding, Watching, RegistryTypeOK
  <2>ThreadAfterSpawn. ThreadAfterSpawn'
    BY <2>u DEF SpawnFails, SetHandle, ThreadAfterSpawn, RegistryTypeOK, Holding, Watching, LoopTypeOK
  <2>EditPending. EditPending'
    BY <2>u DEF SpawnFails, SetHandle, EditPending, EventPending, Watching, FileTypeOK, RegistryTypeOK, Holding, QueueTypeOK, LoopTypeOK, LoadTypeOK, ThreadAfterSpawn
  <2>. QED BY <2>q, <2>RegistryTypeOK, <2>OneWatchPerKey, <2>ThreadAfterSpawn, <2>EditPending
<1>Rollback. CASE \E i \in Watches : Rollback(i)
  <2>. PICK i \in Watches : Rollback(i)
    BY <1>Rollback
  <2>u. UNCHANGED <<version, torn, noise, queue, loop, quiet, ceiling, got, serving, waited, calm, from, seen>>
    BY DEF Rollback, fileVars, registryVars, timerVars, loadVars
  <2>q. FileTypeOK' /\ QueueTypeOK' /\ LoopTypeOK' /\ TimerTypeOK' /\ LoadTypeOK' /\ WindowTimed'
    BY <2>u DEF FileTypeOK, QueueTypeOK, LoopTypeOK, TimerTypeOK, LoadTypeOK, WindowTimed
  <2>RegistryTypeOK. RegistryTypeOK'
    BY <2>u DEF Rollback, SetHandle, FreeKey, RegistryTypeOK, Holding, Watching
  <2>OneWatchPerKey. OneWatchPerKey'
    BY <2>u DEF Rollback, SetHandle, FreeKey, OneWatchPerKey, Holding, Watching, RegistryTypeOK
  <2>ThreadAfterSpawn. ThreadAfterSpawn'
    BY <2>u DEF Rollback, SetHandle, FreeKey, ThreadAfterSpawn, RegistryTypeOK, Holding, Watching, LoopTypeOK
  <2>EditPending. EditPending'
    BY <2>u DEF Rollback, SetHandle, FreeKey, EditPending, EventPending, Watching, FileTypeOK, RegistryTypeOK, Holding, QueueTypeOK, LoopTypeOK, LoadTypeOK, ThreadAfterSpawn
  <2>. QED BY <2>q, <2>RegistryTypeOK, <2>OneWatchPerKey, <2>ThreadAfterSpawn, <2>EditPending
<1>Detach. CASE \E i \in Watches : Detach(i)
  <2>. PICK i \in Watches : Detach(i)
    BY <1>Detach
  <2>u. UNCHANGED <<version, torn, noise, started, queue, loop, quiet, ceiling, got, serving, waited, calm, from, seen>>
    BY DEF Detach, fileVars, registryVars, timerVars, loadVars
  <2>q. FileTypeOK' /\ QueueTypeOK' /\ LoopTypeOK' /\ TimerTypeOK' /\ LoadTypeOK' /\ WindowTimed'
    BY <2>u DEF FileTypeOK, QueueTypeOK, LoopTypeOK, TimerTypeOK, LoadTypeOK, WindowTimed
  <2>RegistryTypeOK. RegistryTypeOK'
    BY <2>u DEF Detach, SetHandle, RegistryTypeOK, Holding, Watching
  <2>OneWatchPerKey. OneWatchPerKey'
    BY <2>u DEF Detach, SetHandle, OneWatchPerKey, Holding, Watching, RegistryTypeOK
  <2>ThreadAfterSpawn. ThreadAfterSpawn'
    BY <2>u DEF Detach, SetHandle, ThreadAfterSpawn, RegistryTypeOK, Holding, Watching, LoopTypeOK
  <2>EditPending. EditPending'
    BY <2>u DEF Detach, SetHandle, EditPending, EventPending, Watching, FileTypeOK, RegistryTypeOK, Holding, QueueTypeOK, LoopTypeOK, LoadTypeOK, ThreadAfterSpawn
  <2>. QED BY <2>q, <2>RegistryTypeOK, <2>OneWatchPerKey, <2>ThreadAfterSpawn, <2>EditPending
<1>DropBackend. CASE \E i \in Watches : DropBackend(i)
  <2>. PICK i \in Watches : DropBackend(i)
    BY <1>DropBackend
  <2>u. UNCHANGED <<version, torn, noise, started, queue, loop, quiet, ceiling, got, serving, waited, calm, from, seen>>
    BY DEF DropBackend, fileVars, registryVars, timerVars, loadVars
  <2>q. FileTypeOK' /\ QueueTypeOK' /\ LoopTypeOK' /\ TimerTypeOK' /\ LoadTypeOK' /\ WindowTimed'
    BY <2>u DEF FileTypeOK, QueueTypeOK, LoopTypeOK, TimerTypeOK, LoadTypeOK, WindowTimed
  <2>RegistryTypeOK. RegistryTypeOK'
    BY <2>u DEF DropBackend, SetHandle, RegistryTypeOK, Holding, Watching, FileTypeOK
  <2>OneWatchPerKey. OneWatchPerKey'
    BY <2>u DEF DropBackend, SetHandle, OneWatchPerKey, Holding, Watching, RegistryTypeOK
  <2>ThreadAfterSpawn. ThreadAfterSpawn'
    BY <2>u DEF DropBackend, SetHandle, ThreadAfterSpawn, RegistryTypeOK, Holding, Watching, LoopTypeOK
  <2>EditPending. EditPending'
    BY <2>u DEF DropBackend, SetHandle, EditPending, EventPending, Watching, FileTypeOK, RegistryTypeOK, Holding, QueueTypeOK, LoopTypeOK, LoadTypeOK, ThreadAfterSpawn
  <2>. QED BY <2>q, <2>RegistryTypeOK, <2>OneWatchPerKey, <2>ThreadAfterSpawn, <2>EditPending
<1>Deregister. CASE \E i \in Watches : Deregister(i)
  <2>. PICK i \in Watches : Deregister(i)
    BY <1>Deregister
  <2>u. UNCHANGED <<version, torn, noise, queue, loop, quiet, ceiling, got, serving, waited, calm, from, seen>>
    BY DEF Deregister, fileVars, registryVars, timerVars, loadVars
  <2>q. FileTypeOK' /\ QueueTypeOK' /\ LoopTypeOK' /\ TimerTypeOK' /\ LoadTypeOK' /\ WindowTimed'
    BY <2>u DEF FileTypeOK, QueueTypeOK, LoopTypeOK, TimerTypeOK, LoadTypeOK, WindowTimed
  <2>RegistryTypeOK. RegistryTypeOK'
    BY <2>u DEF Deregister, SetHandle, RegistryTypeOK, Holding, Watching
  <2>OneWatchPerKey. OneWatchPerKey'
    BY <2>u DEF Deregister, SetHandle, OneWatchPerKey, Holding, Watching, RegistryTypeOK
  <2>ThreadAfterSpawn. ThreadAfterSpawn'
    BY <2>u DEF Deregister, SetHandle, ThreadAfterSpawn, RegistryTypeOK, Holding, Watching, LoopTypeOK
  <2>EditPending. EditPending'
    BY <2>u DEF Deregister, SetHandle, EditPending, EventPending, Watching, FileTypeOK, RegistryTypeOK, Holding, QueueTypeOK, LoopTypeOK, LoadTypeOK, ThreadAfterSpawn
  <2>. QED BY <2>q, <2>RegistryTypeOK, <2>OneWatchPerKey, <2>ThreadAfterSpawn, <2>EditPending
<1>Ignore. CASE \E i \in Watches : Ignore(i)
  <2>. PICK i \in Watches : Ignore(i)
    BY <1>Ignore
  <2>u. UNCHANGED <<version, torn, noise, started, handle, loop, quiet, ceiling, got, serving, waited, calm, from, seen>>
    BY DEF Ignore, fileVars, registryVars, timerVars, loadVars
  <2>q. FileTypeOK' /\ RegistryTypeOK' /\ LoopTypeOK' /\ TimerTypeOK' /\ LoadTypeOK' /\ OneWatchPerKey' /\ ThreadAfterSpawn' /\ WindowTimed'
    BY <2>u DEF FileTypeOK, RegistryTypeOK, LoopTypeOK, TimerTypeOK, LoadTypeOK, OneWatchPerKey, ThreadAfterSpawn, WindowTimed
  <2>QueueTypeOK. QueueTypeOK'
    BY <2>u DEF Ignore, QueueTypeOK
  <2>EditPending. EditPending'
    <3>. SUFFICES ASSUME NEW j \in Watches, handle[j] \in Watching, ~torn, version > from[j],
                         seen[j] # version
                  PROVE  EventPending(j)' \/ loop[j] \in {"collect", "grace"}
      BY <2>u DEF EditPending
    <3>1. CASE j = i
      <4>1. queue'[i] = Tail(queue[i]) /\ queue[i] \in Seq({"ours", "other"})
        BY DEF Ignore, QueueTypeOK
      <4>2. CASE loop[i] \in {"collect", "grace"}
        BY <3>1, <4>2
      <4>3. CASE EventPending(i)
        <5>1. PICK k \in 1..Len(queue[i]) : queue[i][k] = "ours"
          BY <4>3 DEF EventPending
        <5>2. \E m \in 1..Len(Tail(queue[i])) : Tail(queue[i])[m] = "ours"
          BY <4>1, <5>1, PendingAfterTail DEF Ignore
        <5>. QED BY <3>1, <4>1, <5>2 DEF EventPending
      <4>. QED BY <3>1, <4>2, <4>3 DEF EditPending
    <3>2. CASE j # i
      <4>1. queue'[j] = queue[j]
        BY <3>2 DEF Ignore, QueueTypeOK
      <4>. QED BY <4>1 DEF EditPending, EventPending
    <3>. QED BY <3>1, <3>2
  <2>. QED BY <2>q, <2>QueueTypeOK, <2>EditPending
<1>Open. CASE \E i \in Watches : Open(i)
  <2>. PICK i \in Watches : Open(i)
    BY <1>Open
  <2>u. UNCHANGED <<version, torn, noise, started, handle, got, serving, from, seen>>
    BY DEF Open, fileVars, registryVars, timerVars, loadVars
  <2>q. FileTypeOK' /\ RegistryTypeOK' /\ LoadTypeOK' /\ OneWatchPerKey'
    BY <2>u DEF FileTypeOK, RegistryTypeOK, LoadTypeOK, OneWatchPerKey
  <2>QueueTypeOK. QueueTypeOK'
    BY <2>u DEF Open, Goto, QueueTypeOK
  <2>LoopTypeOK. LoopTypeOK'
    BY <2>u DEF Open, Goto, LoopTypeOK
  <2>TimerTypeOK. TimerTypeOK'
    BY <2>u DEF Open, Goto, TimerTypeOK
  <2>ThreadAfterSpawn. ThreadAfterSpawn'
    BY <2>u DEF Open, Goto, ThreadAfterSpawn, RegistryTypeOK, Holding, Watching, LoopTypeOK
  <2>EditPending. EditPending'
    BY <2>u DEF Open, Goto, EditPending, EventPending, Watching, FileTypeOK, RegistryTypeOK, Holding, QueueTypeOK, LoopTypeOK, LoadTypeOK, ThreadAfterSpawn
  <2>WindowTimed. WindowTimed'
    BY <2>u DEF Open, Goto, WindowTimed, LoopTypeOK, TimerTypeOK
  <2>. QED BY <2>q, <2>QueueTypeOK, <2>LoopTypeOK, <2>TimerTypeOK, <2>ThreadAfterSpawn, <2>EditPending, <2>WindowTimed
<1>Absorb. CASE \E i \in Watches : Absorb(i)
  <2>. PICK i \in Watches : Absorb(i)
    BY <1>Absorb
  <2>u. UNCHANGED <<version, torn, noise, started, handle, loop, ceiling, got, serving, waited, from, seen>>
    BY DEF Absorb, fileVars, registryVars, timerVars, loadVars
  <2>q. FileTypeOK' /\ RegistryTypeOK' /\ LoopTypeOK' /\ LoadTypeOK' /\ OneWatchPerKey' /\ ThreadAfterSpawn'
    BY <2>u DEF FileTypeOK, RegistryTypeOK, LoopTypeOK, LoadTypeOK, OneWatchPerKey, ThreadAfterSpawn
  <2>QueueTypeOK. QueueTypeOK'
    BY <2>u DEF Absorb, Restart, Expired, Least, QueueTypeOK
  <2>TimerTypeOK. TimerTypeOK'
    BY <2>u DEF Absorb, Restart, Expired, Least, TimerTypeOK
  <2>EditPending. EditPending'
    BY <2>u DEF Absorb, Restart, Expired, Least, EditPending, EventPending, Watching, FileTypeOK, RegistryTypeOK, Holding, QueueTypeOK, LoopTypeOK, LoadTypeOK, ThreadAfterSpawn
  <2>WindowTimed. WindowTimed'
    BY <2>u DEF Absorb, Restart, Expired, Least, WindowTimed, LoopTypeOK, TimerTypeOK
  <2>. QED BY <2>q, <2>QueueTypeOK, <2>TimerTypeOK, <2>EditPending, <2>WindowTimed
<1>Close. CASE \E i \in Watches : Close(i)
  <2>. PICK i \in Watches : Close(i)
    BY <1>Close
  <2>u. UNCHANGED <<version, torn, noise, started, handle, queue, quiet, ceiling, got, serving, waited, calm, from, seen>>
    BY DEF Close, fileVars, registryVars, timerVars, loadVars
  <2>q. FileTypeOK' /\ RegistryTypeOK' /\ QueueTypeOK' /\ TimerTypeOK' /\ LoadTypeOK' /\ OneWatchPerKey'
    BY <2>u DEF FileTypeOK, RegistryTypeOK, QueueTypeOK, TimerTypeOK, LoadTypeOK, OneWatchPerKey
  <2>LoopTypeOK. LoopTypeOK'
    BY <2>u DEF Close, Goto, LoopTypeOK
  <2>ThreadAfterSpawn. ThreadAfterSpawn'
    BY <2>u DEF Close, Goto, ThreadAfterSpawn, RegistryTypeOK, Holding, Watching, LoopTypeOK
  <2>EditPending. EditPending'
    BY <2>u DEF Close, Goto, EditPending, EventPending, Watching, FileTypeOK, RegistryTypeOK, Holding, QueueTypeOK, LoopTypeOK, LoadTypeOK, ThreadAfterSpawn
  <2>WindowTimed. WindowTimed'
    BY <2>u DEF Close, Goto, WindowTimed, LoopTypeOK, TimerTypeOK
  <2>. QED BY <2>q, <2>LoopTypeOK, <2>ThreadAfterSpawn, <2>EditPending, <2>WindowTimed
<1>Disconnected. CASE \E i \in Watches : Disconnected(i)
  <2>. PICK i \in Watches : Disconnected(i)
    BY <1>Disconnected
  <2>u. UNCHANGED <<version, torn, noise, started, handle, queue, quiet, ceiling, got, serving, waited, calm, from, seen>>
    BY DEF Disconnected, fileVars, registryVars, timerVars, loadVars
  <2>q. FileTypeOK' /\ RegistryTypeOK' /\ QueueTypeOK' /\ TimerTypeOK' /\ LoadTypeOK' /\ OneWatchPerKey'
    BY <2>u DEF FileTypeOK, RegistryTypeOK, QueueTypeOK, TimerTypeOK, LoadTypeOK, OneWatchPerKey
  <2>LoopTypeOK. LoopTypeOK'
    BY <2>u DEF Disconnected, Goto, Hung, LoopTypeOK
  <2>ThreadAfterSpawn. ThreadAfterSpawn'
    BY <2>u DEF Disconnected, Goto, Hung, ThreadAfterSpawn, RegistryTypeOK, Holding, Watching, LoopTypeOK
  <2>EditPending. EditPending'
    BY <2>u DEF Disconnected, Goto, Hung, EditPending, EventPending, Watching, FileTypeOK, RegistryTypeOK, Holding, QueueTypeOK, LoopTypeOK, LoadTypeOK, ThreadAfterSpawn, Closed
  <2>WindowTimed. WindowTimed'
    BY <2>u DEF Disconnected, Goto, Hung, WindowTimed, LoopTypeOK, TimerTypeOK
  <2>. QED BY <2>q, <2>LoopTypeOK, <2>ThreadAfterSpawn, <2>EditPending, <2>WindowTimed
<1>Read. CASE \E i \in Watches : Read(i)
  <2>. PICK i \in Watches : Read(i)
    BY <1>Read
  <2>u. UNCHANGED <<version, torn, noise, started, handle, queue, quiet, ceiling, serving, waited, calm, from>>
    BY DEF Read, fileVars, registryVars, timerVars, loadVars
  <2>q. FileTypeOK' /\ RegistryTypeOK' /\ QueueTypeOK' /\ TimerTypeOK' /\ OneWatchPerKey'
    BY <2>u DEF FileTypeOK, RegistryTypeOK, QueueTypeOK, TimerTypeOK, OneWatchPerKey
  <2>LoopTypeOK. LoopTypeOK'
    BY <2>u DEF Read, Goto, LoopTypeOK
  <2>LoadTypeOK. LoadTypeOK'
    BY <2>u DEF Read, Goto, LoadTypeOK, FileTypeOK
  <2>ThreadAfterSpawn. ThreadAfterSpawn'
    BY <2>u DEF Read, Goto, ThreadAfterSpawn, RegistryTypeOK, Holding, Watching, LoopTypeOK
  <2>EditPending. EditPending'
    BY <2>u DEF Read, Goto, EditPending, EventPending, Watching, FileTypeOK, RegistryTypeOK, Holding, QueueTypeOK, LoopTypeOK, LoadTypeOK, ThreadAfterSpawn
  <2>WindowTimed. WindowTimed'
    BY <2>u DEF Read, Goto, WindowTimed, LoopTypeOK, TimerTypeOK
  <2>. QED BY <2>q, <2>LoopTypeOK, <2>LoadTypeOK, <2>ThreadAfterSpawn, <2>EditPending, <2>WindowTimed
<1>ReadFails. CASE \E i \in Watches : ReadFails(i)
  <2>. PICK i \in Watches : ReadFails(i)
    BY <1>ReadFails
  <2>u. UNCHANGED <<version, torn, noise, started, handle, queue, quiet, ceiling, got, serving, waited, calm, from, seen>>
    BY DEF ReadFails, fileVars, registryVars, timerVars, loadVars
  <2>q. FileTypeOK' /\ RegistryTypeOK' /\ QueueTypeOK' /\ TimerTypeOK' /\ LoadTypeOK' /\ OneWatchPerKey'
    BY <2>u DEF FileTypeOK, RegistryTypeOK, QueueTypeOK, TimerTypeOK, LoadTypeOK, OneWatchPerKey
  <2>LoopTypeOK. LoopTypeOK'
    BY <2>u DEF ReadFails, Goto, LoopTypeOK
  <2>ThreadAfterSpawn. ThreadAfterSpawn'
    BY <2>u DEF ReadFails, Goto, ThreadAfterSpawn, RegistryTypeOK, Holding, Watching, LoopTypeOK
  <2>EditPending. EditPending'
    BY <2>u DEF ReadFails, Goto, EditPending, EventPending, Watching, FileTypeOK, RegistryTypeOK, Holding, QueueTypeOK, LoopTypeOK, LoadTypeOK, ThreadAfterSpawn
  <2>WindowTimed. WindowTimed'
    BY <2>u DEF ReadFails, Goto, WindowTimed, LoopTypeOK, TimerTypeOK
  <2>. QED BY <2>q, <2>LoopTypeOK, <2>ThreadAfterSpawn, <2>EditPending, <2>WindowTimed
<1>Install. CASE \E i \in Watches : Install(i)
  <2>. PICK i \in Watches : Install(i)
    BY <1>Install
  <2>u. UNCHANGED <<version, torn, noise, started, handle, queue, quiet, ceiling, got, waited, calm, from, seen>>
    BY DEF Install, fileVars, registryVars, timerVars, loadVars
  <2>q. FileTypeOK' /\ RegistryTypeOK' /\ QueueTypeOK' /\ TimerTypeOK' /\ OneWatchPerKey'
    BY <2>u DEF FileTypeOK, RegistryTypeOK, QueueTypeOK, TimerTypeOK, OneWatchPerKey
  <2>LoopTypeOK. LoopTypeOK'
    BY <2>u DEF Install, Goto, LoopTypeOK
  <2>LoadTypeOK. LoadTypeOK'
    BY <2>u DEF Install, Goto, LoadTypeOK
  <2>ThreadAfterSpawn. ThreadAfterSpawn'
    BY <2>u DEF Install, Goto, ThreadAfterSpawn, RegistryTypeOK, Holding, Watching, LoopTypeOK
  <2>EditPending. EditPending'
    BY <2>u DEF Install, Goto, EditPending, EventPending, Watching, FileTypeOK, RegistryTypeOK, Holding, QueueTypeOK, LoopTypeOK, LoadTypeOK, ThreadAfterSpawn
  <2>WindowTimed. WindowTimed'
    BY <2>u DEF Install, Goto, WindowTimed, LoopTypeOK, TimerTypeOK
  <2>. QED BY <2>q, <2>LoopTypeOK, <2>LoadTypeOK, <2>ThreadAfterSpawn, <2>EditPending, <2>WindowTimed
<1>unchanged. CASE UNCHANGED watchVars
  BY <1>unchanged DEF watchVars, fileVars, registryVars, timerVars, loadVars, FileTypeOK, RegistryTypeOK, QueueTypeOK, LoopTypeOK, TimerTypeOK, LoadTypeOK, OneWatchPerKey, ThreadAfterSpawn, EditPending, WindowTimed, EventPending
<1>. QED
  BY <1>Replace, <1>Truncate, <1>Complete, <1>Neighbour, <1>Tick, <1>Insert, <1>CreateBackend, <1>WatchDirectories, <1>SpawnThread, <1>SpawnFails, <1>Rollback, <1>Detach, <1>DropBackend, <1>Deregister, <1>Ignore, <1>Open, <1>Absorb, <1>Close, <1>Disconnected, <1>Read, <1>ReadFails, <1>Install, <1>unchanged
  DEF WatchNext, Spawning, Handling, Looping

LEMMA WatchInvHolds == WatchSpec => []WatchInv
<1>1. WatchInit => WatchInv
  BY WatchInitInv
<1>2. WatchInv /\ [WatchNext]_watchVars => WatchInv'
  BY WatchStepInv
<1>. QED BY <1>1, <1>2, PTL DEF WatchSpec

-----------------------------------------------------------------------------
\* Every variable of the watcher keeps its type.
THEOREM WatchTypeCorrect == WatchSpec => []WatchTypeOK
<1>1. WatchInv => WatchTypeOK
  BY DEF WatchInv
<1>. QED BY <1>1, WatchInvHolds, PTL

\* However starts, failures, drops and detaches interleave, one watcher per
\* key, and a key that is taken belongs to a call that will free it or keep
\* the watch (spawn_with, Registered, WatchHandle::drop).
THEOREM OneWatchPerKeyCorrect == WatchSpec => []OneWatchPerKey
<1>1. WatchInv => OneWatchPerKey
  BY DEF WatchInv
<1>. QED BY <1>1, WatchInvHolds, PTL

\* A watch at rest has read the last edit made since its directories were
\* watched (spawn_with, collect_relevant, run).
THEOREM NoEditMissedCorrect == WatchSpec => []NoEditMissed
<1>1. WatchInv => NoEditMissed
  BY DEF WatchInv, EditPending, NoEditMissed, EventPending, Watching
<1>. QED BY <1>1, WatchInvHolds, PTL

\* A window stays open for four quiet periods at most, and closes one quiet
\* period after the last event of ours (collect_relevant).
THEOREM WindowsClose == WatchSpec => [](StormIsBounded /\ NoiseDoesNotDelay)
<1>1. WatchInv => StormIsBounded /\ NoiseDoesNotDelay
  BY WatchAssumption, CeilingNat
  DEF WatchInv, WatchTypeOK, TimerTypeOK, WindowTimed, StormIsBounded, NoiseDoesNotDelay
<1>. QED BY <1>1, WatchInvHolds, PTL

\* For any number of starts, edits and events and any quiet period: one watcher
\* to a key, no edit missed, no reload put off (spawn_with, collect_relevant).
THEOREM WatchIsExactCorrect == WatchSpec => []WatchIsExact
BY OneWatchPerKeyCorrect, NoEditMissedCorrect, WindowsClose, PTL DEF WatchIsExact

-----------------------------------------------------------------------------

(* The registry.  A call of entry owns the slot it allocated until its swap, and *)
(* what it swaps in is the table of its load as long as the stamp has not moved. *)

\* Where a call of entry is between its first look and its swap.
Busy == {"look", "load", "build", "swap"}

\* A slot belongs to the call that allocated it: it is no other call's, and in
\* no table until that call's swap.
SlotsAreFresh ==
    /\ \A t \in Users : stage[t] \in Busy =>
           leaked[t] \in 1..uses /\ \A k \in Keys : table[k] # leaked[t]
    /\ \A t, u \in Users : stage[t] \in Busy /\ stage[u] \in Busy /\ t # u =>
           leaked[t] # leaked[u]

\* No two keys share a slot, and every slot has been allocated.
TableIsInjective ==
    /\ \A k \in Keys : table[k] # Absent => table[k] \in 1..uses
    /\ \A j, k \in Keys : table[j] # Absent /\ table[j] = table[k] => j = k

\* A table that was loaded is the current one as long as the stamp has not moved.
CopyIsCurrent ==
    \A t \in Users :
        /\ base[t] <= stamp
        /\ stage[t] = "build" /\ base[t] = stamp => loaded[t] = table
        /\ stage[t] = "swap" =>
               /\ installed[t] # Absent
               /\ base[t] = stamp =>
                      /\ loaded[t] = [table EXCEPT ![key[t]] = installed[t]]
                      /\ installed[t] = IF table[key[t]] = Absent THEN leaked[t]
                                        ELSE table[key[t]]

\* What was handed out is what the table holds.
HandedIsInTable == \A h \in handed : table[h[1]] = h[2]

\* The inductive invariant of the registry.
TableInv == TableTypeOK /\ SlotsAreFresh /\ TableIsInjective /\ CopyIsCurrent
                /\ HandedIsInTable

\* An empty table, and each step of a call of entry.
LEMMA TableInitInv == ASSUME TableInit PROVE TableInv
<1>. USE RegistryAssumption
<1>1. TableTypeOK
  BY DEF TableInit, TableTypeOK, Tables, Slots
<1>2. SlotsAreFresh /\ TableIsInjective /\ CopyIsCurrent /\ HandedIsInTable
  BY DEF TableInit, SlotsAreFresh, TableIsInjective, CopyIsCurrent, HandedIsInTable, Busy
<1>. QED BY <1>1, <1>2 DEF TableInv

LEMMA TableStepInv == ASSUME TableInv, [TableNext]_tableVars PROVE TableInv'
<1>. USE RegistryAssumption
<1>. USE DEF TableInv
<1>0. CASE UNCHANGED tableVars
  BY <1>0 DEF tableVars, callVars, TableTypeOK, SlotsAreFresh, TableIsInjective,
              CopyIsCurrent, HandedIsInTable
<1>n. ASSUME NEW t \in Users, UserNext(t) PROVE TableInv'
  <2>Entry. CASE Entry(t)
    <3>1. TableTypeOK'
      BY <2>Entry DEF Entry, UserTo, TableTypeOK, Slots
    <3>2. SlotsAreFresh'
      BY <2>Entry DEF Entry, UserTo, TableTypeOK, SlotsAreFresh, TableIsInjective, Busy, Tables, Slots
    <3>3. TableIsInjective' /\ CopyIsCurrent' /\ HandedIsInTable'
      BY <2>Entry DEF Entry, UserTo, TableTypeOK, TableIsInjective, CopyIsCurrent, HandedIsInTable
    <3>. QED BY <3>1, <3>2, <3>3
  <2>Found. CASE Found(t)
    <3>1. TableTypeOK'
      BY <2>Found DEF Found, Hand, UserTo, TableTypeOK, Tables, Slots
    <3>2. SlotsAreFresh' /\ TableIsInjective' /\ CopyIsCurrent'
      BY <2>Found DEF Found, UserTo, TableTypeOK, SlotsAreFresh, TableIsInjective, CopyIsCurrent, Busy
    <3>3. HandedIsInTable'
      BY <2>Found DEF Found, Hand, HandedIsInTable
    <3>. QED BY <3>1, <3>2, <3>3
  <2>Missing. CASE Missing(t)
    <3>1. TableTypeOK'
      BY <2>Missing DEF Missing, UserTo, TableTypeOK
    <3>2. SlotsAreFresh' /\ TableIsInjective' /\ CopyIsCurrent' /\ HandedIsInTable'
      BY <2>Missing DEF Missing, UserTo, TableTypeOK, SlotsAreFresh, TableIsInjective,
                        CopyIsCurrent, HandedIsInTable, Busy
    <3>. QED BY <3>1, <3>2
  <2>Lost. CASE Lost(t)
    <3>1. TableTypeOK'
      BY <2>Lost DEF Lost, UserTo, TableTypeOK
    <3>2. SlotsAreFresh' /\ TableIsInjective' /\ CopyIsCurrent' /\ HandedIsInTable'
      BY <2>Lost DEF Lost, UserTo, TableTypeOK, SlotsAreFresh, TableIsInjective,
                     CopyIsCurrent, HandedIsInTable, Busy
    <3>. QED BY <3>1, <3>2
  <2>Load. CASE Load(t)
    <3>1. TableTypeOK'
      BY <2>Load DEF Load, UserTo, TableTypeOK
    <3>2. SlotsAreFresh' /\ TableIsInjective' /\ HandedIsInTable'
      BY <2>Load DEF Load, UserTo, TableTypeOK, SlotsAreFresh, TableIsInjective,
                     HandedIsInTable, Busy
    <3>3. CopyIsCurrent'
      BY <2>Load DEF Load, UserTo, TableTypeOK, CopyIsCurrent
    <3>. QED BY <3>1, <3>2, <3>3
  <2>Build. CASE Build(t)
    <3>0. OrInsert(t) \in Slots /\ OrInsert(t) # Absent
      BY <2>Build DEF Build, OrInsert, TableTypeOK, SlotsAreFresh, Busy, Tables, Slots
    <3>1. TableTypeOK'
      BY <2>Build, <3>0 DEF Build, UserTo, TableTypeOK, Tables
    <3>2. SlotsAreFresh' /\ TableIsInjective' /\ HandedIsInTable'
      BY <2>Build DEF Build, UserTo, TableTypeOK, SlotsAreFresh, TableIsInjective,
                      HandedIsInTable, Busy
    <3>3. CopyIsCurrent'
      <4>1. base[t] = stamp => loaded[t] = table
        BY <2>Build DEF Build, CopyIsCurrent
      <4>2. loaded'[t] = [loaded[t] EXCEPT ![key[t]] = OrInsert(t)] /\ installed'[t] = OrInsert(t)
        BY <2>Build DEF Build, TableTypeOK
      <4>. QED BY <4>1, <4>2, <3>0, <2>Build DEF Build, OrInsert, UserTo, TableTypeOK, CopyIsCurrent
    <3>. QED BY <3>1, <3>2, <3>3
  <2>Swap. CASE Swap(t)
    <3>0. /\ installed[t] \in Slots /\ key[t] \in Keys
          /\ table' = [table EXCEPT ![key[t]] = installed[t]]
          /\ installed[t] = IF table[key[t]] = Absent THEN leaked[t] ELSE table[key[t]]
          /\ leaked[t] \in 1..uses /\ \A k \in Keys : table[k] # leaked[t]
      BY <2>Swap DEF Swap, Unmoved, TableTypeOK, CopyIsCurrent, SlotsAreFresh, Busy
    <3>1. TableTypeOK'
      BY <2>Swap, <3>0 DEF Swap, Hand, UserTo, TableTypeOK, Tables
    <3>4. \A k \in Keys : table'[k] = IF k = key[t] THEN installed[t] ELSE table[k]
      BY <3>0 DEF TableTypeOK, Tables
    <3>2. SlotsAreFresh'
      <4>. SUFFICES ASSUME NEW u \in Users, stage'[u] \in Busy
                    PROVE  /\ leaked[u] \in 1..uses /\ \A k \in Keys : table'[k] # leaked[u]
                           /\ \A v \in Users : stage'[v] \in Busy /\ u # v => leaked[u] # leaked[v]
        BY <2>Swap DEF Swap, SlotsAreFresh
      <4>1. u # t /\ stage[u] \in Busy /\ stage[t] \in Busy
        BY <2>Swap DEF Swap, UserTo, TableTypeOK, Busy
      <4>2. leaked[u] # leaked[t] /\ leaked[u] \in 1..uses /\ \A k \in Keys : table[k] # leaked[u]
        BY <4>1 DEF SlotsAreFresh
      <4>3. ASSUME NEW v \in Users, stage'[v] \in Busy, u # v PROVE leaked[u] # leaked[v]
        BY <4>1, <4>3, <2>Swap DEF Swap, UserTo, TableTypeOK, SlotsAreFresh, Busy
      <4>. QED BY <4>2, <4>3, <3>0, <3>4
    <3>3. TableIsInjective'
      BY <2>Swap, <3>0, <3>4 DEF Swap, TableIsInjective
    <3>5. CopyIsCurrent'
      BY <2>Swap DEF Swap, UserTo, TableTypeOK, CopyIsCurrent
    <3>6. HandedIsInTable'
      <4>. SUFFICES ASSUME NEW h \in handed' PROVE table'[h[1]] = h[2]
        BY DEF HandedIsInTable
      <4>1. CASE h \in handed
        <5>1. h[1] \in Keys /\ h[2] \in Slots /\ table[h[1]] = h[2]
          BY <4>1 DEF HandedIsInTable, TableTypeOK
        <5>. QED BY <5>1, <3>0, <3>4 DEF Slots
      <4>2. CASE h = <<key[t], installed[t]>>
        BY <4>2, <3>0, <3>4
      <4>. QED BY <4>1, <4>2, <2>Swap DEF Swap, Hand
    <3>. QED BY <3>1, <3>2, <3>3, <3>5, <3>6
  <2>. QED BY <1>n, <2>Entry, <2>Found, <2>Missing, <2>Load, <2>Build, <2>Swap, <2>Lost DEF UserNext
<1>. QED BY <1>0, <1>n DEF TableNext

\* However the calls of entry race for the swap, two callers of one key are given
\* the same slot and callers of two keys never share one (Registry::entry).
THEOREM OneSlotPerKeyCorrect == TableSpec => []OneSlotPerKey
<1>1. ASSUME TableInv PROVE OneSlotPerKey
  <2>1. \A h \in handed : h[1] \in Keys /\ h[2] # Absent
    BY <1>1, RegistryAssumption DEF TableInv, TableTypeOK, Slots
  <2>. QED BY <1>1, <2>1 DEF TableInv, HandedIsInTable, TableIsInjective, OneSlotPerKey
<1>. QED BY <1>1, TableInitInv, TableStepInv, PTL DEF TableSpec

-----------------------------------------------------------------------------

(* Work off the executor. *)

\* The guard is armed until the work has answered, and what is in the slot is
\* that answer.
GuardAnswers ==
    /\ guarded <=> work \in {"queued", "running"}
    /\ work = "filling" => answer \in Results
    /\ fills <= 1 /\ (work \in {"queued", "running", "filling"} => fills = 0)
    /\ result # "none" => result = answer /\ work \in {"taking", "waking", "done"}
    /\ future = "ready" => outcome = answer /\ work \in {"taking", "waking", "done"}

\* A future that has not resolved finds what was filled.
FilledStays ==
    future \in {"new", "polled", "registered", "pending"}
        /\ work \in {"taking", "waking", "done"} => result # "none"

\* Whoever polled last is the one whose waker is left, taken or woken.
WakerIsOwner ==
    /\ future \in {"polled", "registered", "pending"} => owner \in Pollers
    /\ future \in {"registered", "pending"}
         /\ work \in {"queued", "running", "filling", "taking"} => waker = owner
    /\ future = "pending" /\ work = "waking" => taken = owner
    /\ future = "pending" /\ work = "done" => owner \in roused

OffThreadInv == OffThreadTypeOK /\ GuardAnswers /\ FilledStays /\ WakerIsOwner

\* A future just made, and each step of the work, of its guard and of a poll.
LEMMA OffThreadInitInv == ASSUME OffThreadInit PROVE OffThreadInv
  BY DEF OffThreadInit, OffThreadInv, OffThreadTypeOK, GuardAnswers, FilledStays,
         WakerIsOwner, Results

LEMMA OffThreadStepInv ==
  ASSUME OffThreadInv, [OffThreadNext]_offThreadVars PROVE OffThreadInv'
<1>. USE OffThreadAssumption
<1>. USE DEF OffThreadInv, OffThreadTypeOK, GuardAnswers, FilledStays, WakerIsOwner,
             Results, workVars, futureVars
<1>0. CASE UNCHANGED offThreadVars
  BY <1>0 DEF offThreadVars
<1>1. CASE Run
  BY <1>1 DEF Run
<1>2. CASE Return
  BY <1>2 DEF Return
<1>3. CASE DropGuard
  BY <1>3 DEF DropGuard
<1>4. CASE FillValue
  BY <1>4 DEF FillValue
<1>5. CASE TakeWaker
  BY <1>5 DEF TakeWaker
<1>6. CASE WakeOwner
  BY <1>6 DEF WakeOwner
<1>7. ASSUME NEW t \in Pollers, PollFuture(t) PROVE OffThreadInv'
  BY <1>7 DEF PollFuture, Take
<1>8. CASE LeaveWaker
  BY <1>8 DEF LeaveWaker
<1>9. CASE SecondLook
  BY <1>9 DEF SecondLook, Take
<1>10. CASE Cancel
  BY <1>10 DEF Cancel
<1>. QED
  BY <1>0, <1>1, <1>2, <1>3, <1>4, <1>5, <1>6, <1>7, <1>8, <1>9, <1>10
  DEF OffThreadNext, Working, PollingFuture, PollWoken, PollUnasked

\* What the invariant says of a future that waits and of one that resolved.
LEMMA OffThreadInvGives == ASSUME OffThreadInv PROVE NoLostWakeup /\ AnsweredOnce
  BY DEF OffThreadInv, OffThreadTypeOK, GuardAnswers, FilledStays, WakerIsOwner,
         NoLostWakeup, AnsweredOnce

\* The task that polled a future last is woken once the slot is filled, and the
\* slot is filled once, with the work's answer, whatever panics, is dropped or is
\* cancelled in between (asynchronous.rs: Slot::fill, Awaiting::poll, Guard::drop).
THEOREM OffThreadCorrect == OffThreadSpec => [](NoLostWakeup /\ AnsweredOnce)
  BY OffThreadInitInv, OffThreadStepInv, OffThreadInvGives, PTL DEF OffThreadSpec

-----------------------------------------------------------------------------

(* Numbers: induction over a set, and counters that wrap. *)

\* A set of numbers has a smallest one.
LEMMA SmallestNat ==
  ASSUME NEW T \in SUBSET Nat, T # {}
  PROVE  \E m \in T : \A n \in T : m <= n
<1>. DEFINE R == {ss \in Nat \X Nat : ss[1] < ss[2]}
<1>1. IsWellFoundedOn(R, Nat)
  BY NatLessThanWellFounded DEF OpToRel
<1>2. \A m, n \in T : <<n, m>> \in R <=> n < m
  OBVIOUS
<1>. HIDE DEF R
<1>3. PICK m \in T : \A n \in T : ~(<<n, m>> \in R)
  BY <1>1, WFMin
<1>4. ASSUME NEW n \in T PROVE m <= n
  <2>1. n \in Nat /\ m \in Nat
    OBVIOUS
  <2>2. ~(n < m)
    BY <1>2, <1>3
  <2>. QED BY <2>1, <2>2
<1>. QED BY <1>4

\* Induction, for a set of numbers.
LEMMA NatInductionOnSet ==
  ASSUME NEW S, 0 \in S, \A n \in Nat : n \in S => n + 1 \in S
  PROVE  \A n \in Nat : n \in S
<1>. SUFFICES ASSUME Nat \ S # {} PROVE FALSE
  OBVIOUS
<1>1. PICK m \in Nat \ S : \A n \in Nat \ S : m <= n
  BY SmallestNat
<1>2. m # 0 /\ m - 1 \in Nat /\ m - 1 \notin Nat \ S
  BY <1>1
<1>. QED BY <1>1, <1>2

\* Quotient and remainder, and that they are the only ones.
LEMMA ModParts ==
  ASSUME NEW n \in Nat, NEW m \in Nat \ {0}
  PROVE  n = m * (n \div m) + (n % m) /\ n \div m \in Nat /\ n % m \in 0..(m - 1)
  OBVIOUS

LEMMA ModUnique ==
  ASSUME NEW n \in Nat, NEW m \in Nat \ {0}, NEW q \in Int, NEW r \in 0..(m - 1),
         n = m * q + r
  PROVE  n % m = r
  OBVIOUS

\* The wrapping increment follows a counter that does not wrap.
LEMMA ModNext ==
  ASSUME NEW n \in Nat, NEW m \in Nat \ {0}
  PROVE  ((n % m) + 1) % m = (n + 1) % m
<1>. DEFINE q == n \div m  r == n % m
<1>1. n = m * q + r /\ q \in Nat /\ r \in 0..(m - 1)
  BY ModParts
<1>. HIDE DEF q, r
<1>2. CASE r + 1 < m
  <2>1. n + 1 = m * q + (r + 1) /\ r + 1 = m * 0 + (r + 1) /\ r + 1 \in 0..(m - 1)
    BY <1>1, <1>2
  <2>2. (n + 1) % m = r + 1
    BY <1>1, <2>1, ModUnique
  <2>3. (r + 1) % m = r + 1
    BY <1>1, <2>1, ModUnique
  <2>. QED BY <2>2, <2>3 DEF r
<1>3. CASE r + 1 = m
  <2>1. n + 1 = m * (q + 1) + 0
    BY <1>1, <1>3
  <2>2. r + 1 = m * 1 + 0
    BY <1>1, <1>3
  <2>3. (n + 1) % m = 0
    <3>1. q + 1 \in Int /\ 0 \in 0..(m - 1) /\ n + 1 \in Nat
      BY <1>1
    <3>. QED BY <3>1, <2>1, ModUnique
  <2>4. (r + 1) % m = 0
    <3>1. 1 \in Int /\ 0 \in 0..(m - 1) /\ r + 1 \in Nat
      BY <1>1
    <3>. QED BY <3>1, <2>2, ModUnique
  <2>. QED BY <2>3, <2>4 DEF r
<1>. QED BY <1>1, <1>2, <1>3

\* Two counters show the same number when whole turns lie between them.
LEMMA ModSame ==
  ASSUME NEW a \in Nat, NEW b \in Nat, b <= a, NEW m \in Nat \ {0}
  PROVE  (a - b) % m = 0 <=> a % m = b % m
<1>. DEFINE q == a \div m  r == a % m  p == b \div m  s == b % m
            k == (a - b) \div m
<1>0. a - b \in Nat
  OBVIOUS
<1>1. a = m * q + r /\ q \in Nat /\ r \in 0..(m - 1)
  BY ModParts
<1>2. b = m * p + s /\ p \in Nat /\ s \in 0..(m - 1)
  BY ModParts
<1>3. a - b = m * k + ((a - b) % m) /\ k \in Nat
  BY <1>0, ModParts
<1>. HIDE DEF q, r, p, s, k
<1>4. ASSUME (a - b) % m = 0 PROVE r = s
  <2>1. a - b = m * k
    BY <1>3, <1>4
  <2>2. a = m * (p + k) + s
    BY <2>1, <1>2, <1>3
  <2>3. p + k \in Int
    BY <1>2, <1>3
  <2>. QED BY <2>2, <2>3, <1>2, ModUnique DEF r
<1>5. ASSUME r = s PROVE (a - b) % m = 0
  <2>1. a - b = m * (q - p) + 0
    BY <1>1, <1>2, <1>5
  <2>2. q - p \in Int /\ 0 \in 0..(m - 1)
    BY <1>1, <1>2
  <2>. QED BY <2>1, <2>2, <1>0, ModUnique
<1>. QED BY <1>4, <1>5 DEF r, s

-----------------------------------------------------------------------------

(* The embedded cell. *)

\* What the device holds; the counters are not bounded here.
EmbeddedShape ==
    /\ value \in Nat /\ stores \in Nat /\ bumps \in Nat /\ evictions \in Nat
    /\ generation \in Nat
    /\ waiting \in [WakerSlots -> Tasks \union {Nobody}]
    /\ storer \in [Storers -> {"idle", "bump", "wake"}]
    /\ waking \in [Storers -> SUBSET Tasks]
    /\ task \in [Tasks -> {"none", "out", "polled", "got", "registered", "rechecked",
                        "parked"}]
    /\ seenGeneration \in [Tasks -> Nat]
    /\ evicted \in [Tasks -> Tasks \union {Nobody}]
    /\ woken \subseteq Tasks
    /\ seenAt \in [Tasks -> Nat] /\ told \in [Tasks -> Nat]

\* The counters that wrap, by the histories that do not.
CountersFollow ==
    /\ generation = bumps % Modulus
    /\ \A t \in Tasks : seenAt[t] <= bumps /\ seenGeneration[t] = seenAt[t] % Modulus

\* Only a registration that has not woken it yet keeps a displaced waker, and
\* only a store that is waking keeps wakers.
HeldBriefly ==
    /\ \A t \in Tasks : task[t] # "registered" => evicted[t] = Nobody
    /\ \A c \in Storers : storer[c] # "wake" => waking[c] = {}

\* The task's waker is in one of the slots.
InSlot(t) == \E s \in WakerSlots : waiting[s] = t

\* A task that has registered is in a slot or about to be woken.
RegisteredIsKnown ==
    \A t \in Tasks : task[t] \in {"registered", "rechecked", "parked"} =>
        BeingWoken(t) \/ InSlot(t)

\* A task that parked on an old generation is about to be woken.
ParkedBehindIsWoken ==
    \A t \in Tasks : task[t] = "parked" /\ Behind(t) => BeingWoken(t)

\* The slots fill from the first one on, each with another task.
SlotsFillInOrder ==
    /\ \A r, s \in WakerSlots : r < s /\ waiting[r] = Nobody => waiting[s] = Nobody
    /\ \A r, s \in WakerSlots : waiting[r] # Nobody /\ waiting[r] = waiting[s] => r = s
    /\ \A s \in WakerSlots : waiting[s] # Nobody => waiting[s] \in Subscribed

\* A waker was displaced only when more tasks subscribed than there are slots.
EvictionsCounted == IsFiniteSet(Subscribed) /\ EvictionsMeanTooFewSlots

\* The inductive invariant of the embedded cell.
EmbeddedInv ==
    /\ EmbeddedShape /\ CountersFollow /\ HeldBriefly /\ RegisteredIsKnown
    /\ ParkedBehindIsWoken /\ CaughtUpHasLatest /\ SlotsFillInOrder /\ EvictionsCounted

\* A wrapped counter that differs is a task that has missed a store.
LEMMA MovedIsBehind ==
  ASSUME EmbeddedShape, CountersFollow, NEW t \in Tasks PROVE Moved(t) <=> Behind(t)
<1>1. bumps \in Nat /\ seenAt[t] \in Nat /\ seenAt[t] <= bumps /\ Modulus \in Nat \ {0}
  BY EmbeddedAssumption DEF EmbeddedShape, CountersFollow
<1>2. (bumps - seenAt[t]) % Modulus = 0 <=> bumps % Modulus = seenAt[t] % Modulus
  BY <1>1, ModSame
<1>. QED BY <1>2 DEF Moved, Behind, CountersFollow

\* A cell nobody has subscribed to.
LEMMA EmbeddedInitInv == ASSUME EmbeddedInit PROVE EmbeddedInv
<1>. USE EmbeddedAssumption
<1>1. EmbeddedShape
  BY DEF EmbeddedInit, EmbeddedShape
<1>2. 0 % Modulus = 0
  <2>1. 0 = Modulus * 0 + 0 /\ 0 \in 0..(Modulus - 1)
    OBVIOUS
  <2>. QED BY <2>1, ModUnique
<1>3. CountersFollow
  BY <1>2 DEF EmbeddedInit, CountersFollow
<1>4. HeldBriefly /\ RegisteredIsKnown /\ ParkedBehindIsWoken /\ CaughtUpHasLatest
      /\ SlotsFillInOrder
  BY DEF EmbeddedInit, HeldBriefly, RegisteredIsKnown, ParkedBehindIsWoken,
         CaughtUpHasLatest, SlotsFillInOrder
<1>5. Subscribed = {} /\ evictions = 0
  BY DEF EmbeddedInit, Subscribed
<1>6. EvictionsCounted
  BY <1>5, FS_EmptySet DEF EvictionsCounted, EvictionsMeanTooFewSlots
<1>. QED BY <1>1, <1>3, <1>4, <1>6 DEF EmbeddedInv

\* Nothing that the waiting tasks depend on has moved.
LEMMA SubscribedStays ==
  ASSUME EvictionsCounted, EmbeddedShape, EmbeddedShape', evictions' = evictions,
         \A t \in Tasks : task'[t] = "none" <=> task[t] = "none"
  PROVE  EvictionsCounted' /\ Subscribed' = Subscribed
<1>1. Subscribed' = Subscribed
  BY DEF Subscribed
<1>. QED BY <1>1 DEF EvictionsCounted, EvictionsMeanTooFewSlots

\* A registration that finds no slot has every slot taken by another task.
LEMMA EvictionNeedsMore ==
  ASSUME EmbeddedInv, NEW t \in Tasks, task[t] = "polled", Usable(t) = {}
  PROVE  Cardinality(Subscribed) > WAITERS
<1>. USE EmbeddedAssumption
<1>. DEFINE others == Subscribed \ {t}
<1>1. \A s \in WakerSlots : waiting[s] \in others
  BY DEF EmbeddedInv, SlotsFillInOrder, Usable, Candidates
<1>2. waiting \in Injection(WakerSlots, others)
  BY <1>1 DEF EmbeddedInv, EmbeddedShape, SlotsFillInOrder, Injection, IsInjective,
              Usable, Candidates
<1>3. t \in Subscribed /\ IsFiniteSet(Subscribed)
  BY DEF EmbeddedInv, Subscribed, EvictionsCounted
<1>4. IsFiniteSet(others) /\ Cardinality(others) = Cardinality(Subscribed) - 1
  BY <1>3, FS_RemoveElement
<1>5. Cardinality(WakerSlots) <= Cardinality(others)
  BY <1>2, <1>4, FS_Injection
<1>6. Cardinality(WakerSlots) = WAITERS
  BY FS_Interval DEF WakerSlots
<1>7. Cardinality(Subscribed) \in Nat
  BY <1>3, FS_CardinalityType
<1>. QED BY <1>4, <1>5, <1>6, <1>7

\* Each step of a store and of a task.
LEMMA EmbeddedStepInv ==
  ASSUME EmbeddedInv, [EmbeddedNext]_embeddedVars PROVE EmbeddedInv'
<1>. USE EmbeddedAssumption
<1>. USE DEF EmbeddedInv
<1>0. CASE UNCHANGED embeddedVars
  BY <1>0 DEF embeddedVars, notifyVars, storerVars, handleVars, EmbeddedShape, CountersFollow,
     HeldBriefly, RegisteredIsKnown, ParkedBehindIsWoken, CaughtUpHasLatest, SlotsFillInOrder,
     EvictionsCounted, EvictionsMeanTooFewSlots, Subscribed, Behind, BeingWoken, InSlot
<1>1. ASSUME NEW c \in Storers, Overwrite(c) PROVE EmbeddedInv'
  <2>1. EmbeddedShape'
    BY <1>1 DEF Overwrite, EmbeddedShape, notifyVars, handleVars
  <2>2. EvictionsCounted'
    BY <1>1, <2>1, SubscribedStays DEF Overwrite, notifyVars
  <2>3. CountersFollow' /\ HeldBriefly' /\ RegisteredIsKnown' /\ ParkedBehindIsWoken'
    BY <1>1 DEF Overwrite, notifyVars, handleVars, EmbeddedShape, CountersFollow, HeldBriefly,
                RegisteredIsKnown, ParkedBehindIsWoken, Behind, BeingWoken, InSlot
  <2>4. CaughtUpHasLatest'
    BY <1>1 DEF Overwrite, EmbeddedShape, CaughtUpHasLatest
  <2>5. SlotsFillInOrder'
    BY <1>1 DEF Overwrite, notifyVars, SlotsFillInOrder, Subscribed
  <2>. QED BY <2>1, <2>2, <2>3, <2>4, <2>5
<1>2. ASSUME NEW c \in Storers, Bump(c) PROVE EmbeddedInv'
  <2>0. Waiters \subseteq Tasks
    BY DEF Waiters, EmbeddedShape
  <2>g. Wrapped = (bumps + 1) % Modulus /\ Wrapped \in Nat
    <3>1. Modulus \in Nat \ {0} /\ bumps \in Nat /\ bumps + 1 \in Nat
      BY DEF EmbeddedShape
    <3>2. ((bumps % Modulus) + 1) % Modulus = (bumps + 1) % Modulus
      BY <3>1, ModNext
    <3>3. (bumps + 1) % Modulus \in 0..(Modulus - 1)
      BY <3>1, ModParts
    <3>. QED BY <3>1, <3>2, <3>3 DEF Wrapped, CountersFollow
  <2>1. EmbeddedShape'
    BY <1>2, <2>0, <2>g DEF Bump, EmbeddedShape, handleVars
  <2>2. EvictionsCounted'
    BY <1>2, <2>1, SubscribedStays DEF Bump
  <2>3. CountersFollow'
    BY <1>2, <2>g DEF Bump, EmbeddedShape, CountersFollow, handleVars
  <2>4. HeldBriefly'
    BY <1>2 DEF Bump, EmbeddedShape, HeldBriefly
  <2>5. waking'[c] = Waiters /\ \A d \in Storers : d # c => waking'[d] = waking[d]
    BY <1>2 DEF Bump, EmbeddedShape
  <2>6. \A t \in Tasks : BeingWoken(t) \/ InSlot(t) => BeingWoken(t)'
    <3>. SUFFICES ASSUME NEW t \in Tasks, BeingWoken(t) \/ InSlot(t) PROVE BeingWoken(t)'
      OBVIOUS
    <3>1. CASE InSlot(t)
      <4>1. t \in Waiters
        BY <3>1 DEF InSlot, Waiters
      <4>. QED BY <4>1, <2>5 DEF BeingWoken
    <3>2. CASE BeingWoken(t)
      BY <3>2, <1>2, <2>5 DEF Bump, BeingWoken, HeldBriefly
    <3>. QED BY <3>1, <3>2
  <2>7. RegisteredIsKnown' /\ ParkedBehindIsWoken'
    BY <1>2, <2>6 DEF Bump, RegisteredIsKnown, ParkedBehindIsWoken
  <2>8. CaughtUpHasLatest'
    BY <1>2 DEF Bump, EmbeddedShape, CountersFollow, CaughtUpHasLatest, handleVars
  <2>9. SlotsFillInOrder'
    BY <1>2 DEF Bump, SlotsFillInOrder
  <2>. QED BY <2>1, <2>2, <2>3, <2>4, <2>7, <2>8, <2>9
<1>3. ASSUME NEW c \in Storers, Wake(c) PROVE EmbeddedInv'
  <2>. PICK t \in waking[c] :
           /\ woken' = woken \union {t}
           /\ waking' = [waking EXCEPT ![c] = @ \ {t}]
    BY <1>3 DEF Wake
  <2>u. UNCHANGED <<value, notifyVars, storer, stores, bumps, task, handleVars, evicted>>
    BY <1>3 DEF Wake
  <2>1. EmbeddedShape'
    BY <2>u DEF EmbeddedShape, notifyVars, handleVars
  <2>2. EvictionsCounted'
    BY <2>u, <2>1, SubscribedStays DEF notifyVars
  <2>3. CountersFollow' /\ CaughtUpHasLatest'
    BY <2>u DEF notifyVars, handleVars, CountersFollow, CaughtUpHasLatest
  <2>4. HeldBriefly'
    BY <1>3, <2>u DEF Wake, EmbeddedShape, HeldBriefly
  <2>5. \A u \in Tasks : BeingWoken(u) => BeingWoken(u)'
    BY <2>u DEF BeingWoken, EmbeddedShape
  <2>6. RegisteredIsKnown' /\ ParkedBehindIsWoken'
    BY <2>5, <2>u DEF notifyVars, handleVars, RegisteredIsKnown, ParkedBehindIsWoken, InSlot, Behind
  <2>7. SlotsFillInOrder'
    BY <2>u DEF notifyVars, SlotsFillInOrder, Subscribed
  <2>. QED BY <2>1, <2>2, <2>3, <2>4, <2>6, <2>7
<1>4. ASSUME NEW c \in Storers, WakeDone(c) PROVE EmbeddedInv'
  <2>1. EmbeddedShape'
    BY <1>4 DEF WakeDone, EmbeddedShape, notifyVars, handleVars
  <2>2. EvictionsCounted'
    BY <1>4, <2>1, SubscribedStays DEF WakeDone, notifyVars
  <2>3. CountersFollow' /\ HeldBriefly' /\ RegisteredIsKnown' /\ ParkedBehindIsWoken'
    BY <1>4 DEF WakeDone, notifyVars, handleVars, EmbeddedShape, CountersFollow, HeldBriefly,
                RegisteredIsKnown, ParkedBehindIsWoken, Behind, BeingWoken, InSlot
  <2>4. CaughtUpHasLatest'
    BY <1>4 DEF WakeDone, EmbeddedShape, CaughtUpHasLatest, handleVars
  <2>5. SlotsFillInOrder'
    BY <1>4 DEF WakeDone, notifyVars, SlotsFillInOrder, Subscribed
  <2>. QED BY <2>1, <2>2, <2>3, <2>4, <2>5
<1>5. ASSUME NEW t \in Tasks, Subscribe(t) PROVE EmbeddedInv'
  <2>1. EmbeddedShape'
    BY <1>5 DEF Subscribe, TaskTo, EmbeddedShape, notifyVars, storerVars
  <2>2. EvictionsCounted'
    <3>1. Subscribed' = Subscribed \union {t} /\ t \notin Subscribed
      BY <1>5 DEF Subscribe, TaskTo, EmbeddedShape, Subscribed
    <3>2. /\ IsFiniteSet(Subscribed') /\ Cardinality(Subscribed') = Cardinality(Subscribed) + 1
          /\ Cardinality(Subscribed) \in Nat
      BY <3>1, FS_AddElement, FS_CardinalityType DEF EvictionsCounted
    <3>. QED BY <3>2, <1>5 DEF Subscribe, notifyVars, EvictionsCounted, EvictionsMeanTooFewSlots
  <2>3. CountersFollow' /\ HeldBriefly'
    BY <1>5 DEF Subscribe, TaskTo, notifyVars, storerVars, EmbeddedShape, CountersFollow, HeldBriefly
  <2>4. RegisteredIsKnown' /\ ParkedBehindIsWoken'
    BY <1>5 DEF Subscribe, TaskTo, notifyVars, storerVars, EmbeddedShape,
                RegisteredIsKnown, ParkedBehindIsWoken, Behind, BeingWoken, InSlot
  <2>5. CaughtUpHasLatest'
    BY <1>5 DEF Subscribe, TaskTo, storerVars, EmbeddedShape, CaughtUpHasLatest
  <2>6. SlotsFillInOrder'
    BY <1>5 DEF Subscribe, TaskTo, notifyVars, EmbeddedShape, SlotsFillInOrder, Subscribed
  <2>. QED BY <2>1, <2>2, <2>3, <2>4, <2>5, <2>6
<1>6. ASSUME NEW t \in Tasks, Poll(t) PROVE EmbeddedInv'
  <2>u. UNCHANGED <<value, notifyVars, storerVars, evicted, told>>
    BY <1>6 DEF Poll, Consume, handleVars
  <2>v. /\ woken' = woken \ {t} /\ task[t] \in {"out", "parked"}
        /\ \E l \in {"got", "polled"} : task' = [task EXCEPT ![t] = l]
        /\ \A u \in Tasks : u # t => seenAt'[u] = seenAt[u]
    BY <1>6 DEF Poll, Consume, TaskTo, handleVars, EmbeddedShape
  <2>1. EmbeddedShape'
    BY <1>6 DEF Poll, Consume, TaskTo, EmbeddedShape, notifyVars, storerVars, handleVars
  <2>2. EvictionsCounted' /\ Subscribed' = Subscribed
    BY <2>u, <2>v, <2>1, SubscribedStays DEF notifyVars, EmbeddedShape
  <2>3. CountersFollow' /\ CaughtUpHasLatest'
    <3>1. CountersFollow'
      BY <1>6 DEF Poll, Consume, TaskTo, notifyVars, storerVars, handleVars, EmbeddedShape, CountersFollow
    <3>2. CaughtUpHasLatest'
      BY <1>6 DEF Poll, Consume, TaskTo, notifyVars, storerVars, handleVars, EmbeddedShape, CaughtUpHasLatest
    <3>. QED BY <3>1, <3>2
  <2>4. HeldBriefly'
    BY <2>u, <2>v DEF storerVars, EmbeddedShape, HeldBriefly
  <2>5. \A u \in Tasks : u # t /\ BeingWoken(u) => BeingWoken(u)'
    BY <2>u, <2>v DEF BeingWoken, storerVars
  <2>6. RegisteredIsKnown' /\ ParkedBehindIsWoken'
    BY <2>5, <2>u, <2>v DEF notifyVars, storerVars, EmbeddedShape, RegisteredIsKnown,
         ParkedBehindIsWoken, InSlot, Behind
  <2>7. SlotsFillInOrder'
    BY <2>u, <2>2 DEF notifyVars, SlotsFillInOrder
  <2>. QED BY <2>1, <2>2, <2>3, <2>4, <2>6, <2>7
<1>7. ASSUME NEW t \in Tasks, Get(t) PROVE EmbeddedInv'
  <2>1. EmbeddedShape'
    BY <1>7 DEF Get, TaskTo, EmbeddedShape, notifyVars, storerVars
  <2>2. EvictionsCounted' /\ Subscribed' = Subscribed
    BY <1>7, <2>1, SubscribedStays DEF Get, TaskTo, notifyVars, EmbeddedShape
  <2>3. CountersFollow' /\ HeldBriefly' /\ CaughtUpHasLatest'
    BY <1>7 DEF Get, TaskTo, notifyVars, storerVars, EmbeddedShape, CountersFollow, HeldBriefly,
                CaughtUpHasLatest
  <2>4. RegisteredIsKnown' /\ ParkedBehindIsWoken'
    BY <1>7 DEF Get, TaskTo, notifyVars, storerVars, EmbeddedShape,
                RegisteredIsKnown, ParkedBehindIsWoken, Behind, BeingWoken, InSlot
  <2>6. SlotsFillInOrder'
    BY <1>7, <2>2 DEF Get, notifyVars, SlotsFillInOrder
  <2>. QED BY <2>1, <2>2, <2>3, <2>4, <2>6
<1>8. ASSUME NEW t \in Tasks, Register(t) PROVE EmbeddedInv'
  <2>u. UNCHANGED <<value, generation, storerVars, handleVars, woken>>
    BY <1>8 DEF Register
  <2>v. task[t] = "polled" /\ task' = [task EXCEPT ![t] = "registered"]
    BY <1>8 DEF Register, TaskTo
  <2>w. evicted[t] = Nobody
    BY <2>v DEF HeldBriefly
  <2>s. 1 \in WakerSlots
    BY DEF WakerSlots
  <2>a. CASE Usable(t) # {}
    <3>. DEFINE f == First(Usable(t))
    <3>1. f \in Usable(t) /\ \A r \in Usable(t) : f <= r
      <4>. DEFINE U == Usable(t)
      <4>1. U \in SUBSET Nat /\ U # {}
        BY <2>a DEF Usable, Candidates, WakerSlots
      <4>. HIDE DEF U
      <4>2. PICK m \in U : \A r \in U : m <= r
        BY <4>1, SmallestNat
      <4>3. First(U) \in U /\ \A r \in U : First(U) <= r
        BY <4>2 DEF First
      <4>. QED BY <4>3 DEF U
    <3>. HIDE DEF f
    <3>2. f \in WakerSlots /\ waiting[f] \in {t, Nobody}
      BY <3>1 DEF Usable, Candidates
    <3>3. /\ waiting' = [waiting EXCEPT ![f] = t] /\ UNCHANGED evictions
          /\ evicted' = [evicted EXCEPT ![t] = Nobody]
      BY <1>8, <2>a DEF Register, f
    <3>4. EmbeddedShape'
      BY <2>u, <2>v, <3>2, <3>3 DEF EmbeddedShape, storerVars, handleVars
    <3>5. EvictionsCounted' /\ Subscribed' = Subscribed
      BY <2>v, <3>3, <3>4, SubscribedStays DEF EmbeddedShape
    <3>6. \A u \in Tasks : BeingWoken(u) => BeingWoken(u)'
      BY <2>u, <2>w, <3>3 DEF BeingWoken, storerVars, EmbeddedShape
    <3>7. \A u \in Tasks : InSlot(u) => InSlot(u)'
      BY <3>2, <3>3 DEF InSlot, EmbeddedShape
    <3>8. InSlot(t)'
      BY <3>2, <3>3 DEF InSlot, EmbeddedShape
    <3>9. RegisteredIsKnown' /\ ParkedBehindIsWoken'
      BY <2>u, <2>v, <3>6, <3>7, <3>8 DEF RegisteredIsKnown, ParkedBehindIsWoken, Behind,
           storerVars, handleVars, EmbeddedShape
    <3>10. CountersFollow' /\ HeldBriefly' /\ CaughtUpHasLatest'
      BY <2>u, <2>v, <3>3 DEF CountersFollow, HeldBriefly, CaughtUpHasLatest, storerVars,
           handleVars, EmbeddedShape
    <3>11. SlotsFillInOrder'
      <4>1. \A s \in WakerSlots : waiting'[s] = IF s = f THEN t ELSE waiting[s]
        BY <3>2, <3>3 DEF EmbeddedShape
      <4>2. t \in Subscribed /\ t # Nobody
        BY <2>v DEF Subscribed
      <4>3. \A s \in WakerSlots : waiting[s] \in {t, Nobody} => f <= s
        BY <3>1 DEF Usable, Candidates
      <4>4. \A s \in WakerSlots : waiting[s] = t => s = f
        <5>. SUFFICES ASSUME NEW s \in WakerSlots, waiting[s] = t, s # f PROVE FALSE
          OBVIOUS
        <5>1. f < s /\ waiting[f] = Nobody
          BY <4>2, <4>3, <3>2 DEF SlotsFillInOrder, WakerSlots
        <5>. QED BY <5>1, <3>2, <4>2 DEF SlotsFillInOrder
      <4>5. \A r, s \in WakerSlots : r < s /\ waiting'[r] = Nobody => waiting'[s] = Nobody
        <5>. SUFFICES ASSUME NEW r \in WakerSlots, NEW s \in WakerSlots, r < s,
                             waiting'[r] = Nobody
                      PROVE  waiting'[s] = Nobody
          OBVIOUS
        <5>1. r # f /\ waiting[r] = Nobody
          BY <4>1, <4>2
        <5>2. waiting[s] = Nobody /\ f < r
          <6>1. waiting[s] = Nobody
            BY <5>1 DEF SlotsFillInOrder
          <6>2. f <= r /\ f \in Int /\ r \in Int
            BY <5>1, <4>3, <3>2 DEF WakerSlots
          <6>. QED BY <6>1, <6>2, <5>1
        <5>3. s # f
          BY <5>2 DEF WakerSlots
        <5>. QED BY <5>2, <5>3, <4>1
      <4>6. \A r, s \in WakerSlots : waiting'[r] # Nobody /\ waiting'[r] = waiting'[s] => r = s
        BY <4>1, <4>4 DEF SlotsFillInOrder
      <4>7. \A s \in WakerSlots : waiting'[s] # Nobody => waiting'[s] \in Subscribed'
        BY <4>1, <4>2, <3>5 DEF SlotsFillInOrder
      <4>. QED BY <4>5, <4>6, <4>7 DEF SlotsFillInOrder
    <3>. QED BY <3>4, <3>5, <3>9, <3>10, <3>11
  <2>b. CASE Usable(t) = {}
    <3>1. /\ waiting' = [waiting EXCEPT ![1] = t]
          /\ evicted' = [evicted EXCEPT ![t] = waiting[1]]
          /\ evictions' \in {evictions, evictions + 1}
      BY <1>8, <2>b DEF Register, Occupant
    <3>2. EmbeddedShape'
      BY <2>u, <2>v, <2>s, <3>1 DEF EmbeddedShape, storerVars, handleVars
    <3>3. Subscribed' = Subscribed
      BY <2>v DEF Subscribed, EmbeddedShape
    <3>4. EvictionsCounted'
      BY <2>b, <2>v, <3>3, EvictionNeedsMore DEF EvictionsCounted, EvictionsMeanTooFewSlots
    <3>5. \A u \in Tasks : BeingWoken(u) => BeingWoken(u)'
      BY <2>u, <2>w, <3>1 DEF BeingWoken, storerVars, EmbeddedShape
    <3>6. \A u \in Tasks : InSlot(u) => InSlot(u)' \/ BeingWoken(u)'
      BY <2>s, <3>1 DEF InSlot, BeingWoken, EmbeddedShape
    <3>7. InSlot(t)'
      BY <2>s, <3>1 DEF InSlot, EmbeddedShape
    <3>8. RegisteredIsKnown' /\ ParkedBehindIsWoken'
      BY <2>u, <2>v, <3>5, <3>6, <3>7 DEF RegisteredIsKnown, ParkedBehindIsWoken, Behind,
           storerVars, handleVars, EmbeddedShape
    <3>9. CountersFollow' /\ HeldBriefly' /\ CaughtUpHasLatest'
      BY <2>u, <2>v, <3>1 DEF CountersFollow, HeldBriefly, CaughtUpHasLatest, storerVars,
           handleVars, EmbeddedShape
    <3>10. SlotsFillInOrder'
      <4>1. \A s \in WakerSlots : waiting'[s] = IF s = 1 THEN t ELSE waiting[s]
        BY <2>s, <3>1 DEF EmbeddedShape
      <4>2. t \in Subscribed /\ t # Nobody
        BY <2>v DEF Subscribed
      <4>3. \A s \in WakerSlots : waiting[s] # t /\ waiting[s] # Nobody
        BY <2>b DEF Usable, Candidates
      <4>. QED BY <4>1, <4>2, <4>3, <3>3 DEF SlotsFillInOrder
    <3>. QED BY <3>2, <3>4, <3>8, <3>9, <3>10
  <2>. QED BY <2>a, <2>b
<1>9. ASSUME NEW t \in Tasks, WakeEvicted(t) PROVE EmbeddedInv'
  <2>1. EmbeddedShape'
    BY <1>9 DEF WakeEvicted, TaskTo, EmbeddedShape, notifyVars, storerVars, handleVars
  <2>2. EvictionsCounted' /\ Subscribed' = Subscribed
    BY <1>9, <2>1, SubscribedStays DEF WakeEvicted, TaskTo, notifyVars, EmbeddedShape
  <2>3. CountersFollow' /\ HeldBriefly' /\ CaughtUpHasLatest'
    BY <1>9 DEF WakeEvicted, TaskTo, notifyVars, storerVars, handleVars, EmbeddedShape,
                CountersFollow, HeldBriefly, CaughtUpHasLatest
  <2>4. \A u \in Tasks : BeingWoken(u) => BeingWoken(u)'
    <3>. SUFFICES ASSUME NEW u \in Tasks, BeingWoken(u) PROVE BeingWoken(u)'
      OBVIOUS
    <3>1. u \in woken => u \in woken'
      BY <1>9 DEF WakeEvicted
    <3>2. \A v \in Tasks : evicted[v] = u => evicted'[v] = u \/ u \in woken'
      BY <1>9 DEF WakeEvicted, EmbeddedShape
    <3>. QED BY <1>9, <3>1, <3>2 DEF WakeEvicted, BeingWoken, storerVars
  <2>5. RegisteredIsKnown' /\ ParkedBehindIsWoken'
    BY <1>9, <2>4 DEF WakeEvicted, TaskTo, notifyVars, storerVars, handleVars, EmbeddedShape,
                RegisteredIsKnown, ParkedBehindIsWoken, Behind, InSlot
  <2>6. SlotsFillInOrder'
    BY <1>9, <2>2 DEF WakeEvicted, notifyVars, SlotsFillInOrder
  <2>. QED BY <2>1, <2>2, <2>3, <2>5, <2>6
<1>10. ASSUME NEW t \in Tasks, Recheck(t) PROVE EmbeddedInv'
  <2>u. UNCHANGED <<value, notifyVars, storerVars, evicted, woken, told>>
    BY <1>10 DEF Recheck, Consume, handleVars
  <2>v. /\ task[t] = "rechecked"
        /\ \/ task' = [task EXCEPT ![t] = "got"]
           \/ task' = [task EXCEPT ![t] = "parked"] /\ ~Moved(t) /\ seenAt' = seenAt
        /\ \A u \in Tasks : u # t => seenAt'[u] = seenAt[u]
    BY <1>10 DEF Recheck, Consume, TaskTo, handleVars, EmbeddedShape
  <2>1. EmbeddedShape'
    BY <1>10 DEF Recheck, Consume, TaskTo, EmbeddedShape, notifyVars, storerVars, handleVars
  <2>2. EvictionsCounted' /\ Subscribed' = Subscribed
    BY <2>u, <2>v, <2>1, SubscribedStays DEF notifyVars, EmbeddedShape
  <2>3. CountersFollow'
    BY <1>10 DEF Recheck, Consume, TaskTo, notifyVars, storerVars, handleVars, EmbeddedShape, CountersFollow
  <2>4. CaughtUpHasLatest'
    BY <1>10 DEF Recheck, Consume, TaskTo, notifyVars, storerVars, handleVars, EmbeddedShape, CaughtUpHasLatest
  <2>5. HeldBriefly'
    BY <2>u, <2>v DEF storerVars, EmbeddedShape, HeldBriefly
  <2>6. \A u \in Tasks : (BeingWoken(u) <=> BeingWoken(u)') /\ (InSlot(u) <=> InSlot(u)')
    BY <2>u DEF BeingWoken, InSlot, storerVars, notifyVars
  <2>7. RegisteredIsKnown'
    BY <2>6, <2>v DEF EmbeddedShape, RegisteredIsKnown
  <2>8. ~Moved(t) => ~Behind(t)
    BY MovedIsBehind
  <2>9. ParkedBehindIsWoken'
    BY <2>6, <2>8, <2>u, <2>v DEF EmbeddedShape, ParkedBehindIsWoken, Behind, storerVars
  <2>10. SlotsFillInOrder'
    BY <2>u, <2>2 DEF notifyVars, SlotsFillInOrder
  <2>. QED BY <2>1, <2>2, <2>3, <2>4, <2>5, <2>7, <2>9, <2>10
<1>. QED
  BY <1>0, <1>1, <1>2, <1>3, <1>4, <1>5, <1>6, <1>7, <1>8, <1>9, <1>10
  DEF EmbeddedNext, Storing, Polling

\* A task that has caught up holds the configuration in the cell, a task that is
\* parked is known to the cell, and a waker is displaced only when the tasks
\* outnumber the slots, although the generation wraps (embedded asynchronous.rs:
\* Notify::bump, Notify::register, Changed::poll).
THEOREM EmbeddedCorrect ==
  EmbeddedSpec => [](CaughtUpHasLatest /\ NobodyForgotten /\ EvictionsMeanTooFewSlots)
<1>1. ASSUME EmbeddedInv PROVE CaughtUpHasLatest /\ NobodyForgotten /\ EvictionsMeanTooFewSlots
  BY <1>1 DEF EmbeddedInv, RegisteredIsKnown, ParkedBehindIsWoken, EvictionsCounted, NobodyForgotten, InSlot
<1>. QED BY <1>1, EmbeddedInitInv, EmbeddedStepInv, PTL DEF EmbeddedSpec

-----------------------------------------------------------------------------

(* Node's loop: workers and watches. *)

\* A call in the loop's queue, and an answer to one.
Asks == [worker : Workers, ask : Nat]
Replies == [ask : Nat, world : Nat]

\* What workers, watch and loop hold.
LoopShape ==
    /\ world \in Nat /\ jobs \in Nat
    /\ asked \in Seq(Asks)
    /\ worker \in [Workers -> [pc : {"idle", "ask", "wait", "use"}, job : Jobs,
                              ask : Nat, since : Nat, got : Replies]]
    /\ channel \in [Workers -> SUBSET Replies]
    /\ watch \in [pc : {"none", "begin", "turn", "request", "deliver", "ended"},
                  kind : {"no", "loop", "future"}, stop : BOOLEAN, held : BOOLEAN]
    /\ promise \in [Stops -> {"none", "joining", "joined", "nothing"}]

\* Every call has a number of its own, the last one's at most.
CallsAreNumbered ==
    /\ \A w \in Workers : worker[w].ask <= jobs
    /\ \A i \in 1..Len(asked) : asked[i].ask <= jobs
    /\ \A w \in Workers : \A a \in channel[w] : a.ask <= jobs

\* What was sent to a call is not older than it.
RepliesAreFresh ==
    \A w \in Workers :
        /\ worker[w].since <= world
        /\ \A a \in channel[w] : a.ask = worker[w].ask => a.world >= worker[w].since

\* The inductive invariant of the event loop.
LoopInv ==
    /\ LoopShape /\ CallsAreNumbered /\ RepliesAreFresh
    /\ AnswersAreOwnAndFresh /\ StopIsFinal

\* Workers and watches on one loop.
LoopNext == WorkersNext \/ WatchesNext

\* A worker at rest has a job of the right shape, and every store is watched in
\* one of the ways the watch knows.
LEMMA JobsKnown ==
  /\ [what |-> "fetch", token |-> "none"] \in Jobs
  /\ \A s \in NodeStores : s.watched \in {"no", "loop", "future"}
<1>1. NodeConsul \in NodeStores /\ "none" \in NodeConsul.tokens
  BY DEF NodeStores, NodeConsul
<1>2. "none" \in UNION {s.tokens : s \in NodeStores}
  BY <1>1
<1>3. [what |-> "fetch", token |-> "none"] \in Jobs
  BY <1>2 DEF Jobs
<1>4. \A s \in NodeStores : s.watched \in {"no", "loop", "future"}
  BY DEF NodeStores, NodeConsul, NodeVault, NodeFirestore, NodeRedis, NodeEtcd, NodeNats,
         NodeS3, NodeGit
<1>. QED BY <1>3, <1>4

\* Nobody employed, no watch.
LEMMA LoopInitInv == ASSUME LoopInit PROVE LoopInv
<1>1. Unemployed \in [pc : {"idle", "ask", "wait", "use"}, job : Jobs,
                      ask : Nat, since : Nat, got : Replies]
  BY JobsKnown DEF Unemployed, Replies
<1>2. LoopShape
  BY <1>1 DEF LoopInit, LoopShape, NoNodeWatch
<1>3. CallsAreNumbered /\ RepliesAreFresh /\ AnswersAreOwnAndFresh /\ StopIsFinal
  BY <1>2 DEF LoopInit, CallsAreNumbered, RepliesAreFresh, AnswersAreOwnAndFresh, StopIsFinal,
         Unemployed, Doing
<1>. QED BY <1>2, <1>3 DEF LoopInv

\* A step of a worker: what it is doing, and the answers it takes.
LEMMA WorkerStepInv ==
  ASSUME LoopInv, NEW w \in Workers, WorkerNext(w) PROVE LoopInv'
<1>. USE DEF LoopInv, nodeWatchVars
<1>. DEFINE Shape == [pc : {"idle", "ask", "wait", "use"}, job : Jobs,
                      ask : Nat, since : Nat, got : Replies]
<1>0. Unemployed \in Shape /\ Unemployed.ask = 0 /\ Unemployed.since = 0 /\ Unemployed.pc = "idle"
  BY JobsKnown DEF Unemployed, Replies
<1>w. worker[w] \in Shape /\ channel[w] \subseteq Replies
  BY DEF LoopShape
<1>1. CASE Employ(w)
  <2>1. PICK job \in Jobs : worker' = [worker EXCEPT ![w] =
            [Unemployed EXCEPT !.pc = IF AsksTheLoop(job) THEN "ask" ELSE "use",
                               !.job = job, !.ask = jobs + 1, !.since = world]]
    BY <1>1 DEF Employ, Now
  <2>. DEFINE first == IF AsksTheLoop(job) THEN "ask" ELSE "use"
              r == [Unemployed EXCEPT !.pc = first, !.job = job, !.ask = jobs + 1, !.since = world]
  <2>r. worker' = [worker EXCEPT ![w] = r]
    BY <2>1
  <2>p. first \in {"idle", "ask", "wait", "use"} /\ (first = "use" => ~AsksTheLoop(job))
        /\ jobs + 1 \in Nat /\ world \in Nat
    BY DEF LoopShape
  <2>. HIDE DEF first
  <2>s. r \in Shape
    BY <1>0, <2>p
  <2>t. r.ask = jobs + 1 /\ r.since = world /\ (r.pc = "use" => ~AsksTheLoop(r.job))
    BY <1>0, <2>p
  <2>. HIDE DEF r
  <2>2. worker'[w] = r /\ \A v \in Workers : v # w => worker'[v] = worker[v]
    BY <2>r DEF LoopShape
  <2>3. jobs' = jobs + 1 /\ UNCHANGED <<asked, world, channel, watch, promise>>
    BY <1>1 DEF Employ
  <2>4. LoopShape'
    BY <2>r, <2>s, <2>3 DEF LoopShape
  <2>n. \A v \in Workers : worker[v].ask \in Nat /\ jobs \in Nat
    BY DEF LoopShape
  <2>5. CallsAreNumbered'
    <3>1. \A v \in Workers : worker'[v].ask <= jobs'
      BY <2>2, <2>3, <2>t, <2>n DEF CallsAreNumbered
    <3>2. \A i \in 1..Len(asked) : asked[i].ask <= jobs + 1
      <4>1. \A i \in 1..Len(asked) : asked[i] \in Asks
        BY DEF LoopShape
      <4>2. \A a \in Asks : a.ask \in Nat
        BY DEF Asks
      <4>. QED BY <4>1, <4>2, <2>n DEF CallsAreNumbered
    <3>3. \A v \in Workers : \A a \in channel[v] : a.ask <= jobs + 1
      BY DEF CallsAreNumbered, LoopShape, Replies
    <3>. QED BY <2>3, <3>1, <3>2, <3>3 DEF CallsAreNumbered
  <2>6. RepliesAreFresh'
    <3>1. \A a \in channel[w] : a.ask # jobs + 1
      BY DEF CallsAreNumbered, LoopShape, Replies
    <3>2. world <= world
      BY DEF LoopShape
    <3>. QED BY <3>1, <3>2, <2>2, <2>3, <2>t DEF RepliesAreFresh
  <2>7. AnswersAreOwnAndFresh' /\ StopIsFinal'
    BY <2>2, <2>3, <2>t DEF AnswersAreOwnAndFresh, StopIsFinal, Doing
  <2>. QED BY <2>4, <2>5, <2>6, <2>7
<1>2. CASE Ask(w)
  <2>a. UNCHANGED <<world, channel, jobs, watch, promise>>
    BY <1>2 DEF Ask
  <2>b. PICK r \in {Unemployed, [worker[w] EXCEPT !.pc = "wait"]} :
            worker' = [worker EXCEPT ![w] = r]
    BY <1>2 DEF Ask, Then, Now
  <2>c. [worker |-> w, ask |-> worker[w].ask] \in Asks
    BY <1>w DEF Asks
  <2>d. asked' \in {asked, Append(asked, [worker |-> w, ask |-> worker[w].ask])}
    BY <1>2 DEF Ask
  <2>e. /\ r \in Shape /\ r.pc # "use"
        /\ \/ r.ask = 0 /\ r.since = 0
           \/ r.ask = worker[w].ask /\ r.since = worker[w].since
    BY <1>0, <1>w
  <2>2. worker'[w] = r /\ \A v \in Workers : v # w => worker'[v] = worker[v]
    BY <2>b DEF LoopShape
  <2>4. LoopShape'
    <3>. DEFINE e == [worker |-> w, ask |-> worker[w].ask]
    <3>1. asked' \in Seq(Asks)
      <4>1. e \in Asks /\ asked' \in {asked, Append(asked, e)} /\ asked \in Seq(Asks)
        BY <2>c, <2>d DEF LoopShape
      <4>. HIDE DEF e, Asks
      <4>. QED BY <4>1
    <3>. QED BY <3>1, <2>a, <2>b, <2>e DEF LoopShape
  <2>5. CallsAreNumbered'
    <3>1. \A i \in 1..Len(asked') : asked'[i].ask <= jobs
      BY <2>c, <2>d, <1>w DEF CallsAreNumbered, LoopShape
    <3>2. \A v \in Workers : worker'[v].ask <= jobs
      BY <2>2, <2>e DEF CallsAreNumbered, LoopShape
    <3>. QED BY <3>1, <3>2, <2>a DEF CallsAreNumbered
  <2>6. RepliesAreFresh'
    <3>1. worker'[w].since <= world
      BY <2>2, <2>e DEF RepliesAreFresh, LoopShape
    <3>2. \A a \in channel[w] : a.ask = worker'[w].ask => a.world >= worker'[w].since
      BY <1>w, <2>2, <2>e DEF RepliesAreFresh, Replies
    <3>. QED BY <3>1, <3>2, <2>a, <2>2 DEF RepliesAreFresh
  <2>7. AnswersAreOwnAndFresh' /\ StopIsFinal'
    BY <2>a, <2>2, <2>e DEF AnswersAreOwnAndFresh, StopIsFinal, Doing
  <2>. QED BY <2>4, <2>5, <2>6, <2>7
<1>3. CASE Receive(w)
  <2>1. PICK a \in Own(w) :
           /\ \/ worker' = [worker EXCEPT ![w] = [worker[w] EXCEPT !.pc = "use", !.got = a]]
              \/ worker' = [worker EXCEPT ![w] = Unemployed]
           /\ channel' = [channel EXCEPT ![w] = @ \ {a}]
    BY <1>3 DEF Receive, Now, Then
  <2>2. UNCHANGED <<asked, world, jobs, watch, promise>>
    BY <1>3 DEF Receive
  <2>3. a \in channel[w] /\ a \in Replies /\ a.ask = worker[w].ask
    BY <1>w DEF Own
  <2>4. a.world >= worker[w].since
    BY <2>3 DEF RepliesAreFresh
  <2>5. /\ worker'[w] \in Shape
        /\ \/ worker'[w] = Unemployed
           \/ /\ worker'[w].ask = worker[w].ask /\ worker'[w].since = worker[w].since
              /\ worker'[w].got = a
        /\ \A v \in Workers : v # w => worker'[v] = worker[v]
        /\ \A v \in Workers : channel'[v] \subseteq channel[v]
    <3>1. [worker[w] EXCEPT !.pc = "use", !.got = a] \in Shape
      BY <1>w, <2>3
    <3>2. /\ [worker[w] EXCEPT !.pc = "use", !.got = a].ask = worker[w].ask
          /\ [worker[w] EXCEPT !.pc = "use", !.got = a].since = worker[w].since
          /\ [worker[w] EXCEPT !.pc = "use", !.got = a].got = a
      BY <1>w
    <3>3. \A v \in Workers : v # w => worker'[v] = worker[v]
      BY <2>1 DEF LoopShape
    <3>4. \A v \in Workers : channel'[v] \subseteq channel[v]
      BY <2>1 DEF LoopShape
    <3>. DEFINE used == [worker[w] EXCEPT !.pc = "use", !.got = a]
    <3>5. worker'[w] = used \/ worker'[w] = Unemployed
      BY <2>1 DEF LoopShape
    <3>. HIDE DEF used
    <3>6. worker'[w] = used =>
             /\ worker'[w] \in Shape
             /\ worker'[w].ask = worker[w].ask /\ worker'[w].since = worker[w].since
             /\ worker'[w].got = a
      BY <3>1, <3>2 DEF used
    <3>7. worker'[w] = Unemployed => worker'[w] \in Shape
      BY <1>0
    <3>. QED BY <3>3, <3>4, <3>5, <3>6, <3>7
  <2>6. LoopShape'
    <3>1. worker' \in [Workers -> Shape]
      <4>1. worker' = [v \in Workers |-> worker'[v]]
        BY <2>1 DEF LoopShape
      <4>2. \A v \in Workers : worker'[v] \in Shape
        BY <2>5 DEF LoopShape
      <4>. QED BY <4>1, <4>2
    <3>2. channel' \in [Workers -> SUBSET Replies]
      BY <2>1 DEF LoopShape
    <3>. QED BY <3>1, <3>2, <2>2 DEF LoopShape
  <2>p. /\ worker'[w].ask = worker[w].ask \/ worker'[w].ask = 0
        /\ worker'[w].since = worker[w].since \/ worker'[w].since = 0
        /\ worker'[w].ask = worker[w].ask \/ worker'[w] = Unemployed
    BY <1>0, <2>5
  <2>q. jobs \in Nat /\ world \in Nat /\ worker[w].ask <= jobs /\ worker[w].since <= world
    BY DEF LoopShape, CallsAreNumbered, RepliesAreFresh
  <2>7. CallsAreNumbered'
    <3>1. \A v \in Workers : worker'[v].ask <= jobs
      BY <2>5, <2>p, <2>q DEF CallsAreNumbered
    <3>2. \A v \in Workers : \A b \in channel'[v] : b.ask <= jobs
      BY <2>5 DEF CallsAreNumbered
    <3>. QED BY <2>2, <3>1, <3>2 DEF CallsAreNumbered
  <2>8. RepliesAreFresh'
    <3>1. \A v \in Workers : worker'[v].since <= world
      BY <2>5, <2>p, <2>q DEF RepliesAreFresh
    <3>2. \A b \in channel'[w] : b.ask = worker'[w].ask => b.world >= worker'[w].since
      <4>1. CASE worker'[w] = Unemployed
        <5>1. \A b \in channel'[w] : b \in Replies /\ b.world \in Nat
          BY <1>w, <2>5 DEF Replies
        <5>. QED BY <4>1, <5>1, <1>0
      <4>2. CASE worker'[w] # Unemployed
        <5>1. worker'[w].ask = worker[w].ask /\ worker'[w].since = worker[w].since
          BY <2>5, <4>2
        <5>. QED BY <5>1, <2>5 DEF RepliesAreFresh
      <4>. QED BY <4>1, <4>2
    <3>3. \A v \in Workers : v # w =>
              \A b \in channel'[v] : b.ask = worker'[v].ask => b.world >= worker'[v].since
      BY <2>5 DEF RepliesAreFresh
    <3>. QED BY <2>2, <3>1, <3>2, <3>3 DEF RepliesAreFresh
  <2>9. AnswersAreOwnAndFresh' /\ StopIsFinal'
    BY <1>0, <2>2, <2>3, <2>4, <2>5 DEF AnswersAreOwnAndFresh, StopIsFinal, Doing
  <2>. QED BY <2>6, <2>7, <2>8, <2>9
<1>4. CASE GiveUp(w) \/ Use(w)
  <2>1. worker' = [worker EXCEPT ![w] = Unemployed] /\ UNCHANGED <<asked, world, channel, jobs, watch, promise>>
    BY <1>4 DEF GiveUp, Use, Then, Now
  <2>2. worker'[w] = Unemployed /\ \A v \in Workers : v # w => worker'[v] = worker[v]
    BY <2>1 DEF LoopShape
  <2>6. LoopShape'
    BY <1>0, <2>1 DEF LoopShape
  <2>7. CallsAreNumbered' /\ RepliesAreFresh'
    BY <1>0, <2>1, <2>2 DEF CallsAreNumbered, RepliesAreFresh, LoopShape, Replies
  <2>9. AnswersAreOwnAndFresh' /\ StopIsFinal'
    BY <1>0, <2>1, <2>2 DEF AnswersAreOwnAndFresh, StopIsFinal, Doing
  <2>. QED BY <2>6, <2>7, <2>9
<1>. QED BY <1>1, <1>2, <1>3, <1>4 DEF WorkerNext

\* Each step of the loop, of the workers and of the watch.
LEMMA LoopStepInv == ASSUME LoopInv, [LoopNext]_loopVars PROVE LoopInv'
<1>. USE DEF LoopInv
<1>0. CASE UNCHANGED loopVars
  BY <1>0 DEF loopVars, workerVars, nodeWatchVars, LoopShape, CallsAreNumbered, RepliesAreFresh,
              AnswersAreOwnAndFresh, StopIsFinal, Doing
<1>1. CASE WorldMoves
  BY <1>1 DEF WorldMoves, nodeWatchVars, LoopShape, CallsAreNumbered, RepliesAreFresh,
              AnswersAreOwnAndFresh, StopIsFinal, Doing
<1>2. CASE LoopGone
  BY <1>2 DEF LoopGone, workerVars, nodeWatchVars, LoopShape, CallsAreNumbered, RepliesAreFresh,
              AnswersAreOwnAndFresh, StopIsFinal, Doing
<1>3. CASE Answer
  <2>. DEFINE call == Head(asked)
  <2>1. call \in Asks /\ asked' \in Seq(Asks) /\ asked # <<>>
    BY <1>3 DEF Answer, LoopShape
  <2>2. call.ask <= jobs /\ \A i \in 1..Len(asked') : asked'[i].ask <= jobs
    BY <1>3, <2>1 DEF Answer, LoopShape, CallsAreNumbered
  <2>3. /\ channel' = [channel EXCEPT ![call.worker] = @ \union {[ask |-> call.ask, world |-> world]}]
        /\ UNCHANGED <<world, worker, jobs, watch, promise>>
    BY <1>3 DEF Answer, nodeWatchVars
  <2>. HIDE DEF call
  <2>4. call.worker \in Workers /\ call.ask \in Nat /\ [ask |-> call.ask, world |-> world] \in Replies
    BY <2>1 DEF Asks, Replies, LoopShape
  <2>5. LoopShape'
    BY <2>1, <2>3, <2>4 DEF LoopShape
  <2>6. \A w \in Workers : \A a \in channel'[w] :
            a \in channel[w] \/ a = [ask |-> call.ask, world |-> world]
    BY <2>3, <2>4 DEF LoopShape
  <2>7. CallsAreNumbered'
    BY <2>2, <2>3, <2>6 DEF CallsAreNumbered
  <2>8. RepliesAreFresh'
    BY <2>3, <2>4, <2>6 DEF RepliesAreFresh, LoopShape
  <2>9. AnswersAreOwnAndFresh' /\ StopIsFinal'
    BY <2>3 DEF AnswersAreOwnAndFresh, StopIsFinal, Doing
  <2>. QED BY <2>5, <2>7, <2>8, <2>9
<1>4. ASSUME NEW w \in Workers, WorkerNext(w) PROVE LoopInv'
  BY <1>4, WorkerStepInv
<1>5. CASE SpawnWatch \/ BeginWatch \/ NextRequest \/ RequestEnds \/ Deliver \/ DropFuture
           \/ \E k \in Stops : Stop(k) \/ Join(k)
  <2>1. UNCHANGED workerVars
    BY <1>5 DEF SpawnWatch, BeginWatch, NextRequest, RequestEnds, Deliver, DropFuture, Stop, Join
  <2>2. CallsAreNumbered' /\ RepliesAreFresh' /\ AnswersAreOwnAndFresh'
    BY <2>1 DEF workerVars, CallsAreNumbered, RepliesAreFresh, AnswersAreOwnAndFresh, Doing
  <2>3. /\ watch' \in [pc : {"none", "begin", "turn", "request", "deliver", "ended"},
                       kind : {"no", "loop", "future"}, stop : BOOLEAN, held : BOOLEAN]
        /\ promise' \in [Stops -> {"none", "joining", "joined", "nothing"}]
    BY <1>5, JobsKnown DEF SpawnWatch, BeginWatch, NextRequest, RequestEnds, Deliver, DropFuture,
        Stop, Join, ThreadAt, LoopShape
  <2>4. LoopShape'
    BY <2>1, <2>3 DEF LoopShape, workerVars
  <2>5. StopIsFinal'
    BY <1>5 DEF SpawnWatch, BeginWatch, NextRequest, RequestEnds, Deliver, DropFuture,
        Stop, Join, ThreadAt, LoopShape, StopIsFinal
  <2>. QED BY <2>2, <2>4, <2>5
<1>. QED BY <1>0, <1>1, <1>2, <1>3, <1>4, <1>5 DEF LoopNext, WorkersNext, WatchesNext

-----------------------------------------------------------------------------

(* The suite runs one of the parts and leaves the others where they start, so *)
(* the invariant of each part is an invariant of the suite.                   *)

\* Work whose caller has gone keeps the invariant of the one that runs.
LEMMA RestKeepsOffThreadInv == ASSUME OffThreadRests PROVE OffThreadInv
<1>. USE DEF OffThreadRests, Results
<1>1. OffThreadTypeOK
  BY DEF OffThreadTypeOK
<1>2. GuardAnswers
  <2>1. guarded = FALSE /\ work = "done"
    OBVIOUS
  <2>2. guarded <=> work \in {"queued", "running"}
    BY <2>1
  <2>. QED BY <2>2 DEF GuardAnswers
<1>3. FilledStays /\ WakerIsOwner
  BY DEF FilledStays, WakerIsOwner
<1>. QED BY <1>1, <1>2, <1>3 DEF OffThreadInv

\* A step of the suite is a step of every part, or leaves it alone.
LEMMA SuiteStepsOneWay ==
  ASSUME [SuiteNext]_suiteVars
  PROVE  /\ [OffThreadNext]_offThreadVars
         /\ [EmbeddedNext]_embeddedVars
         /\ [TableNext]_tableVars
         /\ [LoopNext]_loopVars
  BY DEF SuiteNext, suiteVars, LoopNext

\* Of the parts run together: the right waiter is woken and holds what is right
\* (off_thread's future and waker, the embedded cell's subscribers).
THEOREM AnswersAreRightCorrect == SuiteSpec => []AnswersAreRight
<1>1. SuiteInit => OffThreadInv /\ EmbeddedInv
  BY OffThreadInitInv, RestKeepsOffThreadInv, EmbeddedInitInv DEF SuiteInit
<1>2. /\ OffThreadInv /\ [SuiteNext]_suiteVars => OffThreadInv'
      /\ EmbeddedInv /\ [SuiteNext]_suiteVars => EmbeddedInv'
  BY SuiteStepsOneWay, OffThreadStepInv, EmbeddedStepInv
<1>3. OffThreadInv /\ EmbeddedInv => AnswersAreRight
  BY OffThreadInvGives DEF EmbeddedInv, AnswersAreRight
<1>. QED BY <1>1, <1>2, <1>3, PTL DEF SuiteSpec

\* A Node worker uses the answer to its own call only, never one older than the
\* call, and a watch whose stop() was waited for has delivered its last document
\* (Door::validate, Rotating::current, Watching::stop).
THEOREM LoopAnswersAreRightCorrect == SuiteSpec => []LoopAnswersAreRight
<1>1. SuiteInit => LoopInv
  BY LoopInitInv DEF SuiteInit
<1>2. LoopInv /\ [SuiteNext]_suiteVars => LoopInv'
  BY SuiteStepsOneWay, LoopStepInv
<1>3. LoopInv => LoopAnswersAreRight
  BY DEF LoopInv, LoopAnswersAreRight
<1>. QED BY <1>1, <1>2, <1>3, PTL DEF SuiteSpec

=============================================================================
