---------------------------- MODULE ReloadGroup -----------------------------
(***************************************************************************)
(* Several configuration types that reload together (group.rs), over one    *)
(* file.  A reload takes the group's lock, prepares every member (load and  *)
(* validate, builder/lifecycle.rs prepare) and only then commits every      *)
(* member (an Arc swap each).  The file changes and members stop loading at *)
(* any moment.                                                              *)
(*                                                                         *)
(* A snapshot is the file version it was loaded from and the group reload   *)
(* that installed it.                                                       *)
(***************************************************************************)
EXTENDS Naturals

CONSTANTS
    Threads,      \* threads that call reload on the group
    Free,         \* the lock's value while nobody holds it
    N,            \* the members, in the order they were added: 1..N
    MaxVersions,  \* bound on the edits of the file
    MaxReloads    \* bound on the calls of reload

ASSUME GroupAssumption ==
    /\ N \in Nat \ {0} /\ MaxVersions \in Nat /\ MaxReloads \in Nat
    /\ Free \notin Threads

VARIABLES
    edition,   \* the file's version
    broken,    \* the members that would not load or validate now
    lock,      \* ReloadGroup.reloading
    pc, at,    \* where each thread is, and at which member
    batch,     \* the number of its reload
    commits,   \* the file version each of its prepared commits was loaded from
    served,   \* each member's snapshot
    reloads,   \* reloads begun so far
    failed     \* history: the reloads that returned an error

sharedVars == <<edition, broken>>
threadVars == <<pc, at, batch, commits>>
groupVars == <<sharedVars, lock, threadVars, served, reloads, failed>>

Members == 1..N
Snapshot == [batch : Nat, edition : Nat]

ThreadTypeOK ==
    /\ pc \in [Threads -> {"idle", "prepare", "commit"}]
    /\ batch \in [Threads -> Nat]
    /\ commits \in [Threads -> [Members -> Nat]]

PositionTypeOK == at \in [Threads -> 1..(N + 1)]

ServingTypeOK == served \in [Members -> Snapshot]

GroupTypeOK ==
    /\ edition \in Nat /\ broken \subseteq Members
    /\ lock \in Threads \union {Free}
    /\ reloads \in Nat /\ failed \subseteq Nat
    /\ ThreadTypeOK /\ PositionTypeOK /\ ServingTypeOK

GroupInit ==
    /\ edition = 0 /\ broken = {}
    /\ lock = Free
    /\ pc = [t \in Threads |-> "idle"]
    /\ at = [t \in Threads |-> 1]
    /\ batch = [t \in Threads |-> 0]
    /\ commits = [t \in Threads |-> [m \in Members |-> 0]]
    /\ served = [m \in Members |-> [batch |-> 0, edition |-> 0]]
    /\ reloads = 0 /\ failed = {}

-----------------------------------------------------------------------------
(* The file.                                                                *)

Edit ==
    /\ edition < MaxVersions
    /\ edition' = edition + 1
    /\ \E bad \in SUBSET Members : broken' = bad
    /\ UNCHANGED <<lock, threadVars, served, reloads, failed>>

-----------------------------------------------------------------------------
(* ReloadGroup::reload.                                                     *)

\* Mutant: reloads are not serialized.
Unlocked(t) == TRUE

\* The lock, held until reload returns.
Available(t) == lock = Free

Begin(t) ==
    /\ pc[t] = "idle" /\ Available(t) /\ reloads < MaxReloads
    /\ lock' = t
    /\ reloads' = reloads + 1
    /\ batch' = [batch EXCEPT ![t] = reloads + 1]
    /\ pc' = [pc EXCEPT ![t] = "prepare"]
    /\ at' = [at EXCEPT ![t] = 1]
    /\ UNCHANGED <<sharedVars, commits, served, failed>>

InstallMember(t, m, v) == [served EXCEPT ![m] = [batch |-> batch[t], edition |-> v]]

Prepare(t) ==
    /\ pc[t] = "prepare" /\ at[t] <= N /\ at[t] \notin broken
    /\ commits' = [commits EXCEPT ![t][at[t]] = edition]
    /\ at' = [at EXCEPT ![t] = at[t] + 1]
    /\ UNCHANGED <<sharedVars, lock, pc, batch, served, reloads, failed>>

\* The first failure drops the commits collected so far.
PrepareFails(t) ==
    /\ pc[t] = "prepare" /\ at[t] <= N /\ at[t] \in broken
    /\ failed' = failed \union {batch[t]}
    /\ lock' = Free
    /\ pc' = [pc EXCEPT ![t] = "idle"]
    /\ UNCHANGED <<sharedVars, at, batch, commits, served, reloads>>

Prepared(t) ==
    /\ pc[t] = "prepare" /\ at[t] = N + 1
    /\ pc' = [pc EXCEPT ![t] = "commit"]
    /\ at' = [at EXCEPT ![t] = 1]
    /\ UNCHANGED <<sharedVars, lock, batch, commits, served, reloads, failed>>

\* A commit swaps and then runs hooks; a panic out of it is caught, and the
\* loop goes on.
CommitOne(t) ==
    /\ pc[t] = "commit" /\ at[t] <= N
    /\ served' = InstallMember(t, at[t], commits[t][at[t]])
    /\ at' = [at EXCEPT ![t] = at[t] + 1]
    /\ UNCHANGED <<sharedVars, lock, pc, batch, commits, reloads, failed>>

End(t) ==
    /\ pc[t] = "commit" /\ at[t] = N + 1
    /\ lock' = Free
    /\ pc' = [pc EXCEPT ![t] = "idle"]
    /\ UNCHANGED <<sharedVars, at, batch, commits, served, reloads, failed>>

ThreadNext(t) ==
    \/ Begin(t) \/ Prepare(t) \/ PrepareFails(t) \/ Prepared(t)
    \/ CommitOne(t) \/ End(t)

GroupNext == Edit \/ \E t \in Threads : ThreadNext(t)

GroupSpec == GroupInit /\ [][GroupNext]_groupVars

-----------------------------------------------------------------------------
(* Properties.                                                              *)

\* With no reload running, every member serves what one and the same reload
\* installed: two concurrent reloads leave no mixture behind, and one that
\* committed some members committed them all (group.rs:132-136, :153-158).
MembersMoveTogether ==
    lock = Free =>
        \A m, n \in Members : served[m].batch = served[n].batch

\* A reload that returned an error has installed nothing, not even the
\* members that loaded cleanly (group.rs:126-130).
FailureMovesNothing == \A m \in Members : served[m].batch \notin failed

\* A group reload is atomic: all members move, to what one reload prepared, or
\* none does.
GroupIsAtomic == MembersMoveTogether /\ FailureMovesNothing

\* "Two structs over one file reload independently: for a moment after an
\* edit, ServerConfig is new while DbConfig is still old ... A group fixes
\* that": with no reload running, all members serve one version of the file.
MembersServeOneVersion ==
    lock = Free =>
        \A m, n \in Members : served[m].edition = served[n].edition

=============================================================================
