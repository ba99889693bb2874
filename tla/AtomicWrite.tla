---------------------------- MODULE AtomicWrite -----------------------------
(***************************************************************************)
(* Writing a configuration file (write.rs).  save and save_encrypted, and    *)
(* the last-known-good cache through save_dict, fill a temporary neighbour   *)
(* and rename it over the target; save_new creates the target itself and     *)
(* fills it in place.                                                        *)
(*                                                                         *)
(* The file system is external.  What a process sees (entry, content) and    *)
(* what survives a power loss (durable, stored) are kept apart: the system   *)
(* writes a directory or a file's data back whenever it likes, in any order, *)
(* and fsync is the only way to be sure.  A file is named by the call that   *)
(* created it; what it holds is how much of that call's document got there.  *)
(***************************************************************************)
EXTENDS Naturals

CONSTANTS
    Writers,    \* threads, of one process or of several
    Temps,      \* names temporary_name can produce
    Target,     \* the configuration file's path
    NoFile,     \* an unused directory entry
    MaxWrites    \* bound on the calls

Calls == 1..MaxWrites

ASSUME WriteAssumption ==
    /\ MaxWrites \in Nat
    /\ Target \notin Temps
    /\ NoFile \notin Nat

VARIABLES
    entry, durable,    \* the directory: as seen, and as it is on the disk
    content, stored,   \* the files' bytes: as seen, and as they are on the disk
    writes,             \* calls begun so far
    filled,            \* history: the files that save_new filled in place
    step, kind, call, path   \* each writer: where it is, and in which call

diskVars == <<durable, stored>>
fileVars == <<entry, content>>
callVars == <<filled, kind, call, path>>
writeVars == <<fileVars, diskVars, writes, step, callVars>>

Names == Temps \union {Target}
Files == 0..MaxWrites      \* 0: the file an operator deployed
Fill == {"empty", "part", "whole"}

\* Before a power loss undoes its work: the states in which the call's file
\* exists under its path.
Holding == {"write", "sync", "rename", "remove"}

DirectoryTypeOK ==
    /\ entry \in [Names -> Files \union {NoFile}]
    /\ durable \in [Names -> Files \union {NoFile}]

ContentTypeOK ==
    /\ content \in [Files -> Fill]
    /\ stored \in [Files -> Fill]

WriterTypeOK ==
    /\ writes \in Files
    /\ filled \subseteq Files
    /\ step \in [Writers -> Holding \union {"idle", "open", "syncdir"}]
    /\ kind \in [Writers -> {"save", "new"}]
    /\ call \in [Writers -> Files]
    /\ path \in [Writers -> Names]

\* save writes to a temporary name, save_new to the target, and only save
\* renames.
PathTypeOK ==
    \A w \in Writers :
        /\ step[w] \in Holding \union {"open"} =>
               (kind[w] = "new") = (path[w] = Target)
        /\ step[w] \in {"rename", "syncdir"} => kind[w] = "save"

WriteTypeOK ==
    /\ DirectoryTypeOK /\ ContentTypeOK /\ WriterTypeOK /\ PathTypeOK

\* The target is absent or holds what an operator deployed.
WriteInit ==
    /\ \E before \in {0, NoFile} :
           /\ entry = [n \in Names |-> IF n = Target THEN before ELSE NoFile]
           /\ durable = entry
    /\ content = [f \in Files |-> IF f = 0 THEN "whole" ELSE "empty"]
    /\ stored = content
    /\ writes = 0 /\ filled = {}
    /\ step = [w \in Writers |-> "idle"]
    /\ kind = [w \in Writers |-> "save"]
    /\ call = [w \in Writers |-> 0]
    /\ path = [w \in Writers |-> Target]

-----------------------------------------------------------------------------
(* The file system and the machine.                                         *)

WriteBackDirectory ==
    /\ durable' = entry
    /\ UNCHANGED <<fileVars, stored, writes, step, callVars>>

WriteBackFile ==
    /\ \E f \in Files : stored' = [stored EXCEPT ![f] = content[f]]
    /\ UNCHANGED <<fileVars, durable, writes, step, callVars>>

PowerLoss ==
    /\ entry' = durable /\ content' = stored
    /\ step' = [w \in Writers |-> "idle"]
    /\ UNCHANGED <<diskVars, writes, callVars>>

\* A process killed in the middle: the files it had made stay.
Die(w) ==
    /\ step[w] # "idle"
    /\ step' = [step EXCEPT ![w] = "idle"]
    /\ UNCHANGED <<fileVars, diskVars, writes, callVars>>

-----------------------------------------------------------------------------
(* The calls.                                                               *)

Steps(w, l) == step' = [step EXCEPT ![w] = l]

\* save, save_encrypted, save_dict: the document is rendered, and a name
\* picked next to the target.  Any name: that it is unused is create_new's to
\* check, the clock and the counter only make a collision unlikely.
Save(w) ==
    /\ step[w] = "idle" /\ writes < MaxWrites
    /\ writes' = writes + 1
    /\ call' = [call EXCEPT ![w] = writes + 1]
    /\ kind' = [kind EXCEPT ![w] = "save"]
    /\ \E name \in Temps : path' = [path EXCEPT ![w] = name]
    /\ Steps(w, "open")
    /\ UNCHANGED <<fileVars, diskVars, filled>>

SaveNew(w) ==
    /\ step[w] = "idle" /\ writes < MaxWrites
    /\ writes' = writes + 1
    /\ call' = [call EXCEPT ![w] = writes + 1]
    /\ kind' = [kind EXCEPT ![w] = "new"]
    /\ filled' = filled \union {writes + 1}
    /\ path' = [path EXCEPT ![w] = Target]
    /\ Steps(w, "open")
    /\ UNCHANGED <<fileVars, diskVars>>

\* create_new refuses a name that is taken.
Creatable(w) == entry[path[w]] = NoFile

Open(w) ==
    /\ step[w] = "open" /\ Creatable(w)
    /\ entry' = [entry EXCEPT ![path[w]] = call[w]]
    /\ Steps(w, "write")
    /\ UNCHANGED <<content, diskVars, writes, callVars>>

\* Mutant: every error path cleans up.
CleanUpAfterOpenFails(w) == Steps(w, "remove")

\* Taken, or any other error: nothing was created, so nothing is removed.
AfterOpenFails(w) == Steps(w, "idle")

OpenFails(w) ==
    /\ step[w] = "open"
    /\ AfterOpenFails(w)
    /\ UNCHANGED <<fileVars, diskVars, writes, callVars>>

WritePart(w) ==
    /\ step[w] = "write"
    /\ content' = [content EXCEPT ![call[w]] = "part"]
    /\ UNCHANGED <<entry, diskVars, writes, step, callVars>>

WriteAll(w) ==
    /\ step[w] = "write"
    /\ content' = [content EXCEPT ![call[w]] = "whole"]
    /\ Steps(w, "sync")
    /\ UNCHANGED <<entry, diskVars, writes, callVars>>

\* write_all or sync_all fails: the half-written file is this call's.
WriteFails(w) ==
    /\ step[w] \in {"write", "sync"}
    /\ Steps(w, "remove")
    /\ UNCHANGED <<fileVars, diskVars, writes, callVars>>

\* Mutant: flush, which on a File does nothing.
FlushOnly(w) == stored

SyncedData(w) == [stored EXCEPT ![call[w]] = content[call[w]]]

AfterSync(w) == Steps(w, IF kind[w] = "save" THEN "rename" ELSE "idle")

Sync(w) ==
    /\ step[w] = "sync"
    /\ stored' = SyncedData(w)
    /\ AfterSync(w)
    /\ UNCHANGED <<fileVars, durable, writes, callVars>>

Rename(w) ==
    /\ step[w] = "rename" /\ entry[path[w]] # NoFile
    /\ entry' = [entry EXCEPT ![Target] = entry[path[w]], ![path[w]] = NoFile]
    /\ Steps(w, "syncdir")
    /\ UNCHANGED <<content, diskVars, writes, callVars>>

RenameFails(w) ==
    /\ step[w] = "rename"
    /\ Steps(w, "remove")
    /\ UNCHANGED <<fileVars, diskVars, writes, callVars>>

\* remove_file goes by the path, and its own failure is ignored.
Remove(w) ==
    /\ step[w] = "remove"
    /\ entry' \in {entry, [entry EXCEPT ![path[w]] = NoFile]}
    /\ Steps(w, "idle")
    /\ UNCHANGED <<content, diskVars, writes, callVars>>

\* Best effort: the directory may refuse to be opened or synced.
SyncDirectory(w) ==
    /\ step[w] = "syncdir"
    /\ durable' \in {durable, entry}
    /\ Steps(w, "idle")
    /\ UNCHANGED <<fileVars, stored, writes, callVars>>

WriterNext(w) ==
    \/ Save(w) \/ SaveNew(w)
    \/ Open(w) \/ OpenFails(w)
    \/ WritePart(w) \/ WriteAll(w) \/ WriteFails(w) \/ Sync(w)
    \/ Rename(w) \/ RenameFails(w) \/ Remove(w) \/ SyncDirectory(w)
    \/ Die(w)

WriteNext ==
    \/ WriteBackDirectory \/ WriteBackFile \/ PowerLoss
    \/ \E w \in Writers : WriterNext(w)

WriteSpec == WriteInit /\ [][WriteNext]_writeVars

-----------------------------------------------------------------------------
(* Properties.                                                              *)

Whole(dir, data) ==
    dir[Target] # NoFile /\ dir[Target] \notin filled => data[dir[Target]] = "whole"

\* What a save leaves under the real name is a whole document at every moment,
\* for a reader beside the writers, and after a power loss at any moment, with
\* the directory and the data written back in any order (write.rs:9-13,
\* :360-371).  A file of save_new's is exempt: it is filled in place, and a
\* reader may see a part of it.
TargetIsWhole == Whole(entry, content) /\ Whole(durable, stored)

\* How the file under a name may go: the machine loses an entry that was not
\* written back, a save renames its own, a save replaces the target, or the call
\* that created it cleans up after itself.  The exception: save_new cleans up by
\* path, and removes the file of a save that has replaced its own meanwhile,
\* never another save_new's and never one that was there before.
RightlyLost(n) ==
    \/ PowerLoss
    \/ \E w \in Writers :
           step[w] = "rename" /\ (n = Target \/ (n = path[w] /\ entry[n] = call[w]))
    \/ \E w \in Writers :
           /\ step[w] = "remove" /\ path[w] = n
           /\ \/ entry[n] = call[w]
              \/ kind[w] = "new" /\ entry[n] \notin filled \union {0}

\* What somebody else put under a name is neither replaced nor removed
\* (write.rs:145-153, :169-171, :336-343), but for the exception above.
OwnFilesOnly ==
    [][\A n \in Names :
           entry[n] # NoFile /\ entry'[n] # entry[n] => RightlyLost(n)]_writeVars

=============================================================================
