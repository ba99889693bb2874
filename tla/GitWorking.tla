----------------------------- MODULE GitWorking -----------------------------
(***************************************************************************)
(* A Git source's fetch and the working directory it keeps its objects in   *)
(* (dynamic-config-git: lib.rs once, working.rs, fetch.rs): the directory   *)
(* is made, marked as this crate's, filled by transfers and emptied when    *)
(* there are too many, while any step may fail and the process may die      *)
(* between any two.                                                         *)
(*                                                                         *)
(* A transfer is named by the commit it was made for.  It holds what the    *)
(* directory did not have yet, so the commit can be read while the packs it *)
(* was made on top of are still there.                                      *)
(***************************************************************************)
EXTENDS Integers, Sequences, FiniteSets

CONSTANTS compact_after,
          max_bytes,
          Trees,         \* what a commit may hold: sequences of [kind, size]
          MaxCommits,    \* bound: commits of the branch
          MaxMishaps     \* bound: failures and crashes

ASSUME GitAssumption ==
    /\ {compact_after, max_bytes, MaxCommits, MaxMishaps} \subseteq Nat
    /\ Trees \subseteq Seq([kind : STRING, size : Nat])

VARIABLES foreign,   \* the program named a repository of its own
          dir,       \* [repo, marker, packs, needs]
          branch,    \* the tree of each commit, the last one is the head
          reader,    \* [at, want, commit]: the call that holds `fetching`
          cost,      \* bytes the last read loaded
          mishaps,
          cut        \* an emptying or a marking was interrupted

gitVars == <<foreign, dir, branch, reader, cost, mishaps, cut>>

Nothing == [repo |-> FALSE, marker |-> FALSE, packs |-> {},
            needs |-> [c \in {} |-> {}]]
AtRest == [at |-> "rest", want |-> FALSE, commit |-> 0]
Tip == Len(branch)

GitInit ==
    /\ foreign \in BOOLEAN
    /\ dir = IF foreign THEN [Nothing EXCEPT !.repo = TRUE,
                                             !.packs = {0},
                                             !.needs = [c \in {0} |-> {0}]]
             ELSE Nothing
    /\ branch \in {<<t>> : t \in Trees}
    /\ reader = AtRest /\ cost = 0 /\ mishaps = 0
    /\ cut = FALSE

CommitPushed ==
    /\ Len(branch) < MaxCommits
    /\ \E t \in Trees : branch' = Append(branch, t)
    /\ UNCHANGED <<foreign, dir, reader, cost, mishaps, cut>>

Goes(to) == reader' = [reader EXCEPT !.at = to]

\* once: the fetching mutex, and the directory made if it is not there.
BeginOnce ==
    /\ reader.at = "rest"
    /\ \E want \in BOOLEAN :
           reader' = [at |-> "compact", want |-> want, commit |-> 0]
    /\ cost' = 0
    /\ UNCHANGED <<foreign, dir, branch, mishaps, cut>>

\* Mutant: any directory over the bound is emptied.
CompactAnything ==
    /\ reader.at = "compact"
    /\ Goes(IF compact_after > 0 /\ Cardinality(dir.packs) > compact_after
            THEN "empty" ELSE "open")
    /\ UNCHANGED <<foreign, dir, branch, cost, mishaps, cut>>

\* compact: only what is marked, and only past the bound.
Compact ==
    /\ reader.at = "compact"
    /\ Goes(IF /\ compact_after > 0 /\ dir.marker
               /\ Cardinality(dir.packs) > compact_after
            THEN "empty" ELSE "open")
    /\ UNCHANGED <<foreign, dir, branch, cost, mishaps, cut>>

\* empty: entry after entry, in the order the directory lists them.
Empty ==
    /\ reader.at = "empty"
    /\ \/ dir.marker /\ dir' = [dir EXCEPT !.marker = FALSE]
       \/ dir.repo /\ dir' = [dir EXCEPT !.repo = FALSE]
       \/ \E c \in dir.packs : dir' = [dir EXCEPT !.packs = @ \ {c}]
    /\ Goes(IF ~dir'.marker /\ ~dir'.repo /\ dir'.packs = {}
            THEN "open" ELSE "empty")
    /\ UNCHANGED <<foreign, branch, cost, mishaps, cut>>

\* open: what opens is used as it is; anything else is initialised, which
\* may be refused where something is left in the directory, and marked.
Open ==
    /\ reader.at = "open"
    /\ \/ dir.repo /\ Goes("negotiate") /\ UNCHANGED dir
       \/ ~dir.repo /\ Goes("mark") /\ dir' = [dir EXCEPT !.repo = TRUE]
       \/ /\ ~dir.repo /\ (dir.marker \/ dir.packs # {})
          /\ reader' = AtRest /\ UNCHANGED dir
    /\ UNCHANGED <<foreign, branch, cost, mishaps, cut>>

Mark ==
    /\ reader.at = "mark"
    /\ dir' = [dir EXCEPT !.marker = TRUE]
    /\ Goes("negotiate")
    /\ UNCHANGED <<foreign, branch, cost, mishaps, cut>>

\* fetch and negotiate: the commit the reference names now; a check stops
\* here, and so does a read whose commit is in the directory.
Negotiate ==
    /\ reader.at = "negotiate"
    /\ reader' =
           IF ~reader.want THEN AtRest
           ELSE [reader EXCEPT !.commit = Tip,
                               !.at = IF Tip \in dir.packs
                                      THEN "read" ELSE "receive"]
    /\ UNCHANGED <<foreign, dir, branch, cost, mishaps, cut>>

\* receive: one pack, on top of what is there.
ReceivePack ==
    /\ reader.at = "receive"
    /\ LET packs == dir.packs \union {reader.commit}
       IN  dir' = [dir EXCEPT !.packs = packs,
                      !.needs = [c \in DOMAIN dir.needs
                                       \union {reader.commit} |->
                                    IF c = reader.commit THEN packs
                                    ELSE dir.needs[c]]]
    /\ Goes("read")
    /\ UNCHANGED <<foreign, branch, cost, mishaps, cut>>

\* read_blob: a file, within the limit by itself and together with the ones
\* before it; its size is looked at before its bytes are loaded.  The first
\* entry that is refused ends the read.
read_blob(file, budget) ==
    IF budget.refused \/ file.kind # "blob" \/ budget.bytes + file.size > max_bytes
    THEN [budget EXCEPT !.refused = TRUE]
    ELSE [budget EXCEPT !.bytes = @ + file.size]

\* read_documents: the bytes loaded, and whether the read was refused.
read_documents(files) ==
    LET upTo[n \in 0..Len(files)] ==
            IF n = 0 THEN [bytes |-> 0, refused |-> FALSE]
            ELSE read_blob(files[n], upTo[n - 1])
    IN  upTo[Len(files)]

ReadDocuments ==
    /\ reader.at = "read"
    /\ cost' = IF dir.needs[reader.commit] \subseteq dir.packs
               THEN read_documents(branch[reader.commit]).bytes ELSE 0
    /\ reader' = AtRest
    /\ UNCHANGED <<foreign, dir, branch, mishaps, cut>>

\* A step fails (the remote, the deadline, the file system), or the process
\* dies and a new one opens the same directory.
Mishap ==
    /\ mishaps < MaxMishaps /\ reader.at # "rest"
    /\ mishaps' = mishaps + 1
    /\ cut' = (cut \/ reader.at \in {"empty", "mark"})
    /\ reader' = AtRest
    /\ UNCHANGED <<foreign, dir, branch, cost>>

GitNext ==
    \/ CommitPushed \/ BeginOnce \/ Compact \/ Empty \/ Open \/ Mark
    \/ Negotiate \/ ReceivePack \/ ReadDocuments \/ Mishap

GitSpec == GitInit /\ [][GitNext]_gitVars

-----------------------------------------------------------------------------
\* A repository of the program's own is never emptied, whatever it holds
\* and however often it is fetched into; a directory of this crate's holds
\* at most one transfer past the bound, through failed fetches and crashes,
\* as long as none of them cut an emptying or the first marking short (then
\* the marker may be gone for good); and a read loads no more than
\* max_bytes, all files together, as fetch.rs says of its budget and the
\* builder's own comment denies (LimitIsPerFile).
CacheIsKept ==
    /\ foreign => dir.repo /\ 0 \in dir.packs
    /\ (~foreign /\ ~cut /\ compact_after > 0) =>
           Cardinality(dir.packs) <= compact_after + 1
    /\ cost <= max_bytes

\* dynamic-config-git/src/lib.rs:972: max_bytes is "the largest single file
\* this source will read", "per file rather than per document".  Refuted:
\* files that are each within it are refused together.
LimitIsPerFile ==
    [][LET files == branch[reader.commit]
       IN  (/\ reader.at = "read" /\ ReadDocuments
            /\ \A n \in 1..Len(files) :
                   files[n].kind = "blob" /\ files[n].size <= max_bytes) =>
               ~read_documents(files).refused]_gitVars
=============================================================================
