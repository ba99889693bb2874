----------------------------- MODULE FilesProofs ----------------------------
(***************************************************************************)
(* Proofs about the files: about AtomicWrite, which writes them, and about *)
(* Lifecycle, which starts and reloads a program from them.                *)
(***************************************************************************)
EXTENDS Lifecycle, AtomicWrite, WellFoundedInduction, TLAPS

(***************************************************************************)
(* What AtomicWrite keeps for any number of writers, names and calls.  The *)
(* invariant ties a save to its temporary file: it holds the name from     *)
(* create_new to the rename or the removal, nobody else's rename or removal*)
(* goes through that name, and the file is not under the target's name before*)
(* it is whole on the disk.  And it ties a save_new to the target: there is*)
(* one at a time, and under the name is its own file or a save's.          *)
(***************************************************************************)
Active == Holding \union {"open"}

SavesOnly == \A w \in Writers : step[w] \in Active =>
    /\ IF kind[w] = "save" THEN path[w] \in Temps ELSE path[w] = Target
    /\ (call[w] \in filled) = (kind[w] = "new")

\* No two calls in progress are one call, and none is yet to come.
CallsApart ==
    /\ \A w \in Writers : call[w] <= writes /\ (step[w] \in Active => call[w] # 0)
    /\ \A f \in filled : f <= writes
    /\ \A w, v \in Writers :
           w # v /\ step[w] \in Active /\ step[v] \in Active => call[w] # call[v]

\* Directories only name files of calls that have begun.
EntriesKnown ==
    \A n \in Names :
        /\ entry[n] # NoFile => entry[n] <= writes
        /\ durable[n] # NoFile => durable[n] <= writes

\* A file nobody has created yet is in no directory.
UnopenedUnnamed ==
    \A w \in Writers : step[w] = "open" =>
        \A n \in Names : entry[n] # call[w] /\ durable[n] # call[w]

\* A save holds its temporary name.
HoldsName == \A w \in Writers :
    step[w] \in Holding /\ kind[w] = "save" => entry[path[w]] = call[w]

\* A save_new holds the target, alone of its kind, unless a save has replaced
\* its file.
HoldsTarget ==
    \A w \in Writers : step[w] \in Holding /\ kind[w] = "new" =>
        /\ entry[Target] # NoFile
        /\ entry[Target] = call[w] \/ entry[Target] \notin filled \union {0}
        /\ \A v \in Writers : step[v] \in Holding /\ kind[v] = "new" => v = w

\* A save's file in the making is not under the target's name.
NotYetTarget ==
    \A w \in Writers : step[w] \in Active /\ kind[w] = "save" =>
        entry[Target] # call[w] /\ durable[Target] # call[w]

\* Ready to rename: whole, and on the disk.
RenamesWhole ==
    \A w \in Writers :
        /\ step[w] \in {"sync", "rename"} => content[call[w]] = "whole"
        /\ step[w] = "rename" => kind[w] = "save" /\ stored[call[w]] = "whole"

TargetOnDisk ==
    /\ Whole(entry, content) /\ Whole(entry, stored)
    /\ Whole(durable, content) /\ Whole(durable, stored)

Shapes == DirectoryTypeOK /\ ContentTypeOK /\ WriterTypeOK

WriteInv ==
    /\ Shapes /\ SavesOnly /\ CallsApart /\ EntriesKnown /\ UnopenedUnnamed
    /\ HoldsName /\ HoldsTarget /\ NotYetTarget /\ RenamesWhole /\ TargetOnDisk

-----------------------------------------------------------------------------

LEMMA WriteInitInv == ASSUME WriteInit PROVE WriteInv
<1>. USE WriteAssumption
<1>1. Shapes
  BY DEF WriteInit, Shapes, DirectoryTypeOK, ContentTypeOK, WriterTypeOK, Files, Fill, Names, Holding
<1>2. SavesOnly /\ UnopenedUnnamed /\ HoldsName /\ HoldsTarget /\ NotYetTarget /\ RenamesWhole
  BY DEF WriteInit, SavesOnly, UnopenedUnnamed, HoldsName, HoldsTarget, NotYetTarget, RenamesWhole, Active, Holding
<1>3. CallsApart
  BY DEF WriteInit, CallsApart, Active, Holding
<1>4. EntriesKnown
  BY DEF WriteInit, EntriesKnown, Names
<1>5. TargetOnDisk
  BY DEF WriteInit, TargetOnDisk, Whole, Files, Names
<1>. QED BY <1>1, <1>2, <1>3, <1>4, <1>5 DEF WriteInv

LEMMA WriteStepInv ==
  ASSUME WriteInv, [WriteNext]_writeVars
  PROVE  WriteInv'
<1>. USE WriteAssumption
<1>. USE DEF WriteInv

<1>WriteBackDirectory. CASE WriteBackDirectory
  <2>. USE <1>WriteBackDirectory
  <2>u. UNCHANGED <<entry, content, stored, writes, filled, step, kind, call, path>>
    BY DEF WriteBackDirectory, Steps, fileVars, diskVars, callVars
  <2>Shapes. Shapes'
    BY <2>u DEF WriteBackDirectory, Steps, fileVars, diskVars, callVars, Shapes, DirectoryTypeOK, ContentTypeOK, WriterTypeOK, Files, Calls, Fill, Names, Holding
  <2>SavesOnly. SavesOnly'
    BY <2>u DEF SavesOnly, Names
  <2>CallsApart. CallsApart'
    BY <2>u DEF CallsApart, Names
  <2>EntriesKnown. EntriesKnown'
    BY <2>u, <2>Shapes DEF WriteBackDirectory, Steps, fileVars, diskVars, callVars, EntriesKnown, SavesOnly, CallsApart, Shapes, DirectoryTypeOK, ContentTypeOK, WriterTypeOK, Files, Calls, Fill, Names, Holding, Active
  <2>UnopenedUnnamed. UnopenedUnnamed'
    BY <2>u, <2>Shapes DEF WriteBackDirectory, Steps, fileVars, diskVars, callVars, UnopenedUnnamed, SavesOnly, CallsApart, HoldsName, EntriesKnown, RenamesWhole, Shapes, DirectoryTypeOK, ContentTypeOK, WriterTypeOK, Files, Calls, Fill, Names, Holding, Active
  <2>HoldsName. HoldsName'
    BY <2>u DEF HoldsName, Names
  <2>HoldsTarget. HoldsTarget'
    BY <2>u DEF HoldsTarget, Names
  <2>NotYetTarget. NotYetTarget'
    BY <2>u, <2>Shapes DEF WriteBackDirectory, Steps, fileVars, diskVars, callVars, NotYetTarget, SavesOnly, CallsApart, HoldsName, UnopenedUnnamed, EntriesKnown, RenamesWhole, Shapes, DirectoryTypeOK, ContentTypeOK, WriterTypeOK, Files, Calls, Fill, Names, Holding, Active
  <2>RenamesWhole. RenamesWhole'
    BY <2>u DEF RenamesWhole, Names
  <2>TargetOnDisk. TargetOnDisk'
    BY <2>u, <2>Shapes DEF WriteBackDirectory, Steps, fileVars, diskVars, callVars, TargetOnDisk, Whole, SavesOnly, CallsApart, HoldsName, NotYetTarget, RenamesWhole, Shapes, DirectoryTypeOK, ContentTypeOK, WriterTypeOK, Files, Calls, Fill, Names, Holding, Active
  <2>. QED BY <2>Shapes, <2>SavesOnly, <2>CallsApart, <2>EntriesKnown, <2>UnopenedUnnamed, <2>HoldsName, <2>HoldsTarget, <2>NotYetTarget, <2>RenamesWhole, <2>TargetOnDisk
<1>WriteBackFile. CASE WriteBackFile
  <2>. USE <1>WriteBackFile
  <2>u. UNCHANGED <<entry, durable, content, writes, filled, step, kind, call, path>>
    BY DEF WriteBackFile, Steps, fileVars, diskVars, callVars
  <2>Shapes. Shapes'
    BY <2>u DEF WriteBackFile, Steps, fileVars, diskVars, callVars, Shapes, DirectoryTypeOK, ContentTypeOK, WriterTypeOK, Files, Calls, Fill, Names, Holding
  <2>SavesOnly. SavesOnly'
    BY <2>u DEF SavesOnly, Names
  <2>CallsApart. CallsApart'
    BY <2>u DEF CallsApart, Names
  <2>EntriesKnown. EntriesKnown'
    BY <2>u DEF EntriesKnown, Names
  <2>UnopenedUnnamed. UnopenedUnnamed'
    BY <2>u DEF UnopenedUnnamed, Names
  <2>HoldsName. HoldsName'
    BY <2>u DEF HoldsName, Names
  <2>HoldsTarget. HoldsTarget'
    BY <2>u DEF HoldsTarget, Names
  <2>NotYetTarget. NotYetTarget'
    BY <2>u DEF NotYetTarget, Names
  <2>RenamesWhole. RenamesWhole'
    BY <2>u, <2>Shapes DEF WriteBackFile, Steps, fileVars, diskVars, callVars, RenamesWhole, SavesOnly, CallsApart, Shapes, DirectoryTypeOK, ContentTypeOK, WriterTypeOK, Files, Calls, Fill, Names, Holding, Active
  <2>TargetOnDisk. TargetOnDisk'
    BY <2>u, <2>Shapes DEF WriteBackFile, Steps, fileVars, diskVars, callVars, TargetOnDisk, Whole, SavesOnly, CallsApart, HoldsName, NotYetTarget, RenamesWhole, Shapes, DirectoryTypeOK, ContentTypeOK, WriterTypeOK, Files, Calls, Fill, Names, Holding, Active
  <2>. QED BY <2>Shapes, <2>SavesOnly, <2>CallsApart, <2>EntriesKnown, <2>UnopenedUnnamed, <2>HoldsName, <2>HoldsTarget, <2>NotYetTarget, <2>RenamesWhole, <2>TargetOnDisk
<1>PowerLoss. CASE PowerLoss
  <2>. USE <1>PowerLoss
  <2>u. UNCHANGED <<durable, stored, writes, filled, kind, call, path>>
    BY DEF PowerLoss, Steps, fileVars, diskVars, callVars
  <2>Shapes. Shapes'
    BY <2>u DEF PowerLoss, Steps, fileVars, diskVars, callVars, Shapes, DirectoryTypeOK, ContentTypeOK, WriterTypeOK, Files, Calls, Fill, Names, Holding
  <2>SavesOnly. SavesOnly'
    BY <2>u, <2>Shapes DEF PowerLoss, Steps, fileVars, diskVars, callVars, SavesOnly, Shapes, DirectoryTypeOK, ContentTypeOK, WriterTypeOK, Files, Calls, Fill, Names, Holding, Active
  <2>CallsApart. CallsApart'
    BY <2>u, <2>Shapes DEF PowerLoss, Steps, fileVars, diskVars, callVars, CallsApart, Shapes, DirectoryTypeOK, ContentTypeOK, WriterTypeOK, Files, Calls, Fill, Names, Holding, Active
  <2>EntriesKnown. EntriesKnown'
    BY <2>u, <2>Shapes DEF PowerLoss, Steps, fileVars, diskVars, callVars, EntriesKnown, SavesOnly, CallsApart, Shapes, DirectoryTypeOK, ContentTypeOK, WriterTypeOK, Files, Calls, Fill, Names, Holding, Active
  <2>UnopenedUnnamed. UnopenedUnnamed'
    BY <2>u, <2>Shapes DEF PowerLoss, Steps, fileVars, diskVars, callVars, UnopenedUnnamed, SavesOnly, CallsApart, HoldsName, EntriesKnown, RenamesWhole, Shapes, DirectoryTypeOK, ContentTypeOK, WriterTypeOK, Files, Calls, Fill, Names, Holding, Active
  <2>HoldsName. HoldsName'
    BY <2>u, <2>Shapes DEF PowerLoss, Steps, fileVars, diskVars, callVars, HoldsName, SavesOnly, CallsApart, UnopenedUnnamed, RenamesWhole, Shapes, DirectoryTypeOK, ContentTypeOK, WriterTypeOK, Files, Calls, Fill, Names, Holding, Active
  <2>HoldsTarget. HoldsTarget'
    BY <2>u, <2>Shapes DEF PowerLoss, Steps, fileVars, diskVars, callVars, HoldsTarget, SavesOnly, CallsApart, HoldsName, RenamesWhole, EntriesKnown, Shapes, DirectoryTypeOK, ContentTypeOK, WriterTypeOK, Files, Calls, Fill, Names, Holding, Active
  <2>NotYetTarget. NotYetTarget'
    BY <2>u, <2>Shapes DEF PowerLoss, Steps, fileVars, diskVars, callVars, NotYetTarget, SavesOnly, CallsApart, HoldsName, UnopenedUnnamed, EntriesKnown, RenamesWhole, Shapes, DirectoryTypeOK, ContentTypeOK, WriterTypeOK, Files, Calls, Fill, Names, Holding, Active
  <2>RenamesWhole. RenamesWhole'
    BY <2>u, <2>Shapes DEF PowerLoss, Steps, fileVars, diskVars, callVars, RenamesWhole, SavesOnly, CallsApart, Shapes, DirectoryTypeOK, ContentTypeOK, WriterTypeOK, Files, Calls, Fill, Names, Holding, Active
  <2>TargetOnDisk. TargetOnDisk'
    BY <2>u, <2>Shapes DEF PowerLoss, Steps, fileVars, diskVars, callVars, TargetOnDisk, Whole, SavesOnly, CallsApart, HoldsName, NotYetTarget, RenamesWhole, Shapes, DirectoryTypeOK, ContentTypeOK, WriterTypeOK, Files, Calls, Fill, Names, Holding, Active
  <2>. QED BY <2>Shapes, <2>SavesOnly, <2>CallsApart, <2>EntriesKnown, <2>UnopenedUnnamed, <2>HoldsName, <2>HoldsTarget, <2>NotYetTarget, <2>RenamesWhole, <2>TargetOnDisk
<1>Save. CASE \E w \in Writers : Save(w)
  <2>. PICK w \in Writers : Save(w)
    BY <1>Save
  <2>u. UNCHANGED <<entry, durable, content, stored, filled>>
    BY DEF Save, Steps, fileVars, diskVars, callVars
  <2>Shapes. Shapes'
    BY <2>u DEF Save, Steps, fileVars, diskVars, callVars, Shapes, DirectoryTypeOK, ContentTypeOK, WriterTypeOK, Files, Calls, Fill, Names, Holding
  <2>SavesOnly. SavesOnly'
    BY <2>u, <2>Shapes DEF Save, Steps, fileVars, diskVars, callVars, SavesOnly, CallsApart, Shapes, DirectoryTypeOK, ContentTypeOK, WriterTypeOK, Files, Calls, Fill, Names, Holding, Active
  <2>CallsApart. CallsApart'
    BY <2>u, <2>Shapes DEF Save, Steps, fileVars, diskVars, callVars, CallsApart, Shapes, DirectoryTypeOK, ContentTypeOK, WriterTypeOK, Files, Calls, Fill, Names, Holding, Active
  <2>EntriesKnown. EntriesKnown'
    BY <2>u, <2>Shapes DEF Save, Steps, fileVars, diskVars, callVars, EntriesKnown, SavesOnly, CallsApart, Shapes, DirectoryTypeOK, ContentTypeOK, WriterTypeOK, Files, Calls, Fill, Names, Holding, Active
  <2>UnopenedUnnamed. UnopenedUnnamed'
    BY <2>u, <2>Shapes DEF Save, Steps, UnopenedUnnamed, EntriesKnown, Shapes, DirectoryTypeOK, WriterTypeOK, Files
  <2>HoldsName. HoldsName'
    BY <2>u, <2>Shapes DEF Save, Steps, fileVars, diskVars, callVars, HoldsName, SavesOnly, CallsApart, UnopenedUnnamed, Shapes, DirectoryTypeOK, ContentTypeOK, WriterTypeOK, Files, Calls, Fill, Names, Holding, Active
  <2>HoldsTarget. HoldsTarget'
    BY <2>u, <2>Shapes DEF Save, Steps, fileVars, diskVars, callVars, HoldsTarget, SavesOnly, CallsApart, HoldsName, RenamesWhole, EntriesKnown, Shapes, DirectoryTypeOK, ContentTypeOK, WriterTypeOK, Files, Calls, Fill, Names, Holding, Active
  <2>NotYetTarget. NotYetTarget'
    BY <2>u, <2>Shapes DEF Save, Steps, fileVars, diskVars, callVars, NotYetTarget, SavesOnly, CallsApart, HoldsName, UnopenedUnnamed, EntriesKnown, Shapes, DirectoryTypeOK, ContentTypeOK, WriterTypeOK, Files, Calls, Fill, Names, Holding, Active
  <2>RenamesWhole. RenamesWhole'
    BY <2>u, <2>Shapes DEF Save, Steps, fileVars, diskVars, callVars, RenamesWhole, SavesOnly, CallsApart, Shapes, DirectoryTypeOK, ContentTypeOK, WriterTypeOK, Files, Calls, Fill, Names, Holding, Active
  <2>TargetOnDisk. TargetOnDisk'
    BY <2>u DEF TargetOnDisk, Whole, Names
  <2>. QED BY <2>Shapes, <2>SavesOnly, <2>CallsApart, <2>EntriesKnown, <2>UnopenedUnnamed, <2>HoldsName, <2>HoldsTarget, <2>NotYetTarget, <2>RenamesWhole, <2>TargetOnDisk
<1>SaveNew. CASE \E w \in Writers : SaveNew(w)
  <2>. PICK w \in Writers : SaveNew(w)
    BY <1>SaveNew
  <2>u. UNCHANGED <<entry, durable, content, stored>>
    BY DEF SaveNew, Steps, fileVars, diskVars, callVars
  <2>Shapes. Shapes'
    BY <2>u DEF SaveNew, Steps, fileVars, diskVars, callVars, Shapes, DirectoryTypeOK, ContentTypeOK, WriterTypeOK, Files, Calls, Fill, Names, Holding
  <2>SavesOnly. SavesOnly'
    BY <2>u, <2>Shapes DEF SaveNew, Steps, fileVars, diskVars, callVars, SavesOnly, CallsApart, Shapes, DirectoryTypeOK, ContentTypeOK, WriterTypeOK, Files, Calls, Fill, Names, Holding, Active
  <2>CallsApart. CallsApart'
    BY <2>u, <2>Shapes DEF SaveNew, Steps, fileVars, diskVars, callVars, CallsApart, Shapes, DirectoryTypeOK, ContentTypeOK, WriterTypeOK, Files, Calls, Fill, Names, Holding, Active
  <2>EntriesKnown. EntriesKnown'
    BY <2>u, <2>Shapes DEF SaveNew, Steps, fileVars, diskVars, callVars, EntriesKnown, SavesOnly, CallsApart, Shapes, DirectoryTypeOK, ContentTypeOK, WriterTypeOK, Files, Calls, Fill, Names, Holding, Active
  <2>UnopenedUnnamed. UnopenedUnnamed'
    BY <2>u, <2>Shapes DEF SaveNew, Steps, UnopenedUnnamed, EntriesKnown, Shapes, DirectoryTypeOK, WriterTypeOK, Files
  <2>HoldsName. HoldsName'
    BY <2>u, <2>Shapes DEF SaveNew, Steps, fileVars, diskVars, callVars, HoldsName, SavesOnly, CallsApart, UnopenedUnnamed, Shapes, DirectoryTypeOK, ContentTypeOK, WriterTypeOK, Files, Calls, Fill, Names, Holding, Active
  <2>HoldsTarget. HoldsTarget'
    BY <2>u, <2>Shapes DEF SaveNew, Steps, fileVars, diskVars, callVars, HoldsTarget, SavesOnly, CallsApart, HoldsName, RenamesWhole, EntriesKnown, Shapes, DirectoryTypeOK, ContentTypeOK, WriterTypeOK, Files, Calls, Fill, Names, Holding, Active
  <2>NotYetTarget. NotYetTarget'
    BY <2>u, <2>Shapes DEF SaveNew, Steps, fileVars, diskVars, callVars, NotYetTarget, SavesOnly, CallsApart, HoldsName, UnopenedUnnamed, EntriesKnown, Shapes, DirectoryTypeOK, ContentTypeOK, WriterTypeOK, Files, Calls, Fill, Names, Holding, Active
  <2>RenamesWhole. RenamesWhole'
    BY <2>u, <2>Shapes DEF SaveNew, Steps, fileVars, diskVars, callVars, RenamesWhole, SavesOnly, CallsApart, Shapes, DirectoryTypeOK, ContentTypeOK, WriterTypeOK, Files, Calls, Fill, Names, Holding, Active
  <2>TargetOnDisk. TargetOnDisk'
    BY <2>u, <2>Shapes DEF SaveNew, Steps, fileVars, diskVars, callVars, TargetOnDisk, Whole, SavesOnly, CallsApart, HoldsName, NotYetTarget, RenamesWhole, Shapes, DirectoryTypeOK, ContentTypeOK, WriterTypeOK, Files, Calls, Fill, Names, Holding, Active
  <2>. QED BY <2>Shapes, <2>SavesOnly, <2>CallsApart, <2>EntriesKnown, <2>UnopenedUnnamed, <2>HoldsName, <2>HoldsTarget, <2>NotYetTarget, <2>RenamesWhole, <2>TargetOnDisk
<1>Open. CASE \E w \in Writers : Open(w)
  <2>. PICK w \in Writers : Open(w)
    BY <1>Open
  <2>u. UNCHANGED <<durable, content, stored, writes, filled, kind, call, path>>
    BY DEF Open, Steps, fileVars, diskVars, callVars, Creatable
  <2>Shapes. Shapes'
    BY <2>u DEF Open, Steps, fileVars, diskVars, callVars, Creatable, Shapes, DirectoryTypeOK, ContentTypeOK, WriterTypeOK, Files, Calls, Fill, Names, Holding
  <2>SavesOnly. SavesOnly'
    BY <2>u, <2>Shapes DEF Open, Steps, fileVars, diskVars, callVars, Creatable, SavesOnly, Shapes, DirectoryTypeOK, ContentTypeOK, WriterTypeOK, Files, Calls, Fill, Names, Holding, Active
  <2>CallsApart. CallsApart'
    BY <2>u, <2>Shapes DEF Open, Steps, fileVars, diskVars, callVars, Creatable, CallsApart, Shapes, DirectoryTypeOK, ContentTypeOK, WriterTypeOK, Files, Calls, Fill, Names, Holding, Active
  <2>EntriesKnown. EntriesKnown'
    BY <2>u, <2>Shapes DEF Open, Steps, fileVars, diskVars, callVars, Creatable, EntriesKnown, SavesOnly, CallsApart, Shapes, DirectoryTypeOK, ContentTypeOK, WriterTypeOK, Files, Calls, Fill, Names, Holding, Active
  <2>UnopenedUnnamed. UnopenedUnnamed'
    BY <2>u, <2>Shapes DEF Open, Steps, fileVars, diskVars, callVars, Creatable, UnopenedUnnamed, SavesOnly, CallsApart, HoldsName, EntriesKnown, RenamesWhole, Shapes, DirectoryTypeOK, ContentTypeOK, WriterTypeOK, Files, Calls, Fill, Names, Holding, Active
  <2>HoldsName. HoldsName'
    BY <2>u, <2>Shapes DEF Open, Steps, fileVars, diskVars, callVars, Creatable, HoldsName, SavesOnly, CallsApart, UnopenedUnnamed, RenamesWhole, Shapes, DirectoryTypeOK, ContentTypeOK, WriterTypeOK, Files, Calls, Fill, Names, Holding, Active
  <2>HoldsTarget. HoldsTarget'
    BY <2>u, <2>Shapes DEF Open, Steps, fileVars, diskVars, callVars, Creatable, HoldsTarget, SavesOnly, CallsApart, HoldsName, RenamesWhole, EntriesKnown, Shapes, DirectoryTypeOK, ContentTypeOK, WriterTypeOK, Files, Calls, Fill, Names, Holding, Active
  <2>NotYetTarget. NotYetTarget'
    BY <2>u, <2>Shapes DEF Open, Steps, fileVars, diskVars, callVars, Creatable, NotYetTarget, SavesOnly, CallsApart, HoldsName, UnopenedUnnamed, EntriesKnown, RenamesWhole, Shapes, DirectoryTypeOK, ContentTypeOK, WriterTypeOK, Files, Calls, Fill, Names, Holding, Active
  <2>RenamesWhole. RenamesWhole'
    BY <2>u, <2>Shapes DEF Open, Steps, fileVars, diskVars, callVars, Creatable, RenamesWhole, SavesOnly, CallsApart, Shapes, DirectoryTypeOK, ContentTypeOK, WriterTypeOK, Files, Calls, Fill, Names, Holding, Active
  <2>TargetOnDisk. TargetOnDisk'
    BY <2>u, <2>Shapes DEF Open, Steps, fileVars, diskVars, callVars, Creatable, TargetOnDisk, Whole, SavesOnly, CallsApart, HoldsName, NotYetTarget, RenamesWhole, Shapes, DirectoryTypeOK, ContentTypeOK, WriterTypeOK, Files, Calls, Fill, Names, Holding, Active
  <2>. QED BY <2>Shapes, <2>SavesOnly, <2>CallsApart, <2>EntriesKnown, <2>UnopenedUnnamed, <2>HoldsName, <2>HoldsTarget, <2>NotYetTarget, <2>RenamesWhole, <2>TargetOnDisk
<1>OpenFails. CASE \E w \in Writers : OpenFails(w)
  <2>. PICK w \in Writers : OpenFails(w)
    BY <1>OpenFails
  <2>u. UNCHANGED <<entry, durable, content, stored, writes, filled, kind, call, path>>
    BY DEF OpenFails, Steps, fileVars, diskVars, callVars, AfterOpenFails
  <2>Shapes. Shapes'
    BY <2>u DEF OpenFails, Steps, fileVars, diskVars, callVars, AfterOpenFails, Shapes, DirectoryTypeOK, ContentTypeOK, WriterTypeOK, Files, Calls, Fill, Names, Holding
  <2>SavesOnly. SavesOnly'
    BY <2>u, <2>Shapes DEF OpenFails, Steps, fileVars, diskVars, callVars, AfterOpenFails, SavesOnly, Shapes, DirectoryTypeOK, ContentTypeOK, WriterTypeOK, Files, Calls, Fill, Names, Holding, Active
  <2>CallsApart. CallsApart'
    BY <2>u, <2>Shapes DEF OpenFails, Steps, fileVars, diskVars, callVars, AfterOpenFails, CallsApart, Shapes, DirectoryTypeOK, ContentTypeOK, WriterTypeOK, Files, Calls, Fill, Names, Holding, Active
  <2>EntriesKnown. EntriesKnown'
    BY <2>u DEF EntriesKnown, Names
  <2>UnopenedUnnamed. UnopenedUnnamed'
    BY <2>u, <2>Shapes DEF OpenFails, Steps, fileVars, diskVars, callVars, AfterOpenFails, UnopenedUnnamed, SavesOnly, CallsApart, HoldsName, EntriesKnown, RenamesWhole, Shapes, DirectoryTypeOK, ContentTypeOK, WriterTypeOK, Files, Calls, Fill, Names, Holding, Active
  <2>HoldsName. HoldsName'
    BY <2>u, <2>Shapes DEF OpenFails, Steps, fileVars, diskVars, callVars, AfterOpenFails, HoldsName, SavesOnly, CallsApart, UnopenedUnnamed, RenamesWhole, Shapes, DirectoryTypeOK, ContentTypeOK, WriterTypeOK, Files, Calls, Fill, Names, Holding, Active
  <2>HoldsTarget. HoldsTarget'
    BY <2>u, <2>Shapes DEF OpenFails, Steps, fileVars, diskVars, callVars, AfterOpenFails, HoldsTarget, SavesOnly, CallsApart, HoldsName, RenamesWhole, EntriesKnown, Shapes, DirectoryTypeOK, ContentTypeOK, WriterTypeOK, Files, Calls, Fill, Names, Holding, Active
  <2>NotYetTarget. NotYetTarget'
    BY <2>u, <2>Shapes DEF OpenFails, Steps, fileVars, diskVars, callVars, AfterOpenFails, NotYetTarget, SavesOnly, CallsApart, HoldsName, UnopenedUnnamed, EntriesKnown, RenamesWhole, Shapes, DirectoryTypeOK, ContentTypeOK, WriterTypeOK, Files, Calls, Fill, Names, Holding, Active
  <2>RenamesWhole. RenamesWhole'
    BY <2>u, <2>Shapes DEF OpenFails, Steps, fileVars, diskVars, callVars, AfterOpenFails, RenamesWhole, SavesOnly, CallsApart, Shapes, DirectoryTypeOK, ContentTypeOK, WriterTypeOK, Files, Calls, Fill, Names, Holding, Active
  <2>TargetOnDisk. TargetOnDisk'
    BY <2>u DEF TargetOnDisk, Whole, Names
  <2>. QED BY <2>Shapes, <2>SavesOnly, <2>CallsApart, <2>EntriesKnown, <2>UnopenedUnnamed, <2>HoldsName, <2>HoldsTarget, <2>NotYetTarget, <2>RenamesWhole, <2>TargetOnDisk
<1>WritePart. CASE \E w \in Writers : WritePart(w)
  <2>. PICK w \in Writers : WritePart(w)
    BY <1>WritePart
  <2>u. UNCHANGED <<entry, durable, stored, writes, filled, step, kind, call, path>>
    BY DEF WritePart, Steps, fileVars, diskVars, callVars
  <2>Shapes. Shapes'
    BY <2>u DEF WritePart, Steps, fileVars, diskVars, callVars, Shapes, DirectoryTypeOK, ContentTypeOK, WriterTypeOK, Files, Calls, Fill, Names, Holding
  <2>SavesOnly. SavesOnly'
    BY <2>u DEF SavesOnly, Names
  <2>CallsApart. CallsApart'
    BY <2>u DEF CallsApart, Names
  <2>EntriesKnown. EntriesKnown'
    BY <2>u DEF EntriesKnown, Names
  <2>UnopenedUnnamed. UnopenedUnnamed'
    BY <2>u DEF UnopenedUnnamed, Names
  <2>HoldsName. HoldsName'
    BY <2>u DEF HoldsName, Names
  <2>HoldsTarget. HoldsTarget'
    BY <2>u DEF HoldsTarget, Names
  <2>NotYetTarget. NotYetTarget'
    BY <2>u DEF NotYetTarget, Names
  <2>RenamesWhole. RenamesWhole'
    BY <2>u, <2>Shapes DEF WritePart, Steps, fileVars, diskVars, callVars, RenamesWhole, SavesOnly, CallsApart, Shapes, DirectoryTypeOK, ContentTypeOK, WriterTypeOK, Files, Calls, Fill, Names, Holding, Active
  <2>TargetOnDisk. TargetOnDisk'
    BY <2>u, <2>Shapes DEF WritePart, Steps, fileVars, diskVars, callVars, TargetOnDisk, Whole, SavesOnly, CallsApart, HoldsName, NotYetTarget, RenamesWhole, Shapes, DirectoryTypeOK, ContentTypeOK, WriterTypeOK, Files, Calls, Fill, Names, Holding, Active
  <2>. QED BY <2>Shapes, <2>SavesOnly, <2>CallsApart, <2>EntriesKnown, <2>UnopenedUnnamed, <2>HoldsName, <2>HoldsTarget, <2>NotYetTarget, <2>RenamesWhole, <2>TargetOnDisk
<1>WriteAll. CASE \E w \in Writers : WriteAll(w)
  <2>. PICK w \in Writers : WriteAll(w)
    BY <1>WriteAll
  <2>u. UNCHANGED <<entry, durable, stored, writes, filled, kind, call, path>>
    BY DEF WriteAll, Steps, fileVars, diskVars, callVars
  <2>Shapes. Shapes'
    BY <2>u DEF WriteAll, Steps, fileVars, diskVars, callVars, Shapes, DirectoryTypeOK, ContentTypeOK, WriterTypeOK, Files, Calls, Fill, Names, Holding
  <2>SavesOnly. SavesOnly'
    BY <2>u, <2>Shapes DEF WriteAll, Steps, fileVars, diskVars, callVars, SavesOnly, Shapes, DirectoryTypeOK, ContentTypeOK, WriterTypeOK, Files, Calls, Fill, Names, Holding, Active
  <2>CallsApart. CallsApart'
    BY <2>u, <2>Shapes DEF WriteAll, Steps, fileVars, diskVars, callVars, CallsApart, Shapes, DirectoryTypeOK, ContentTypeOK, WriterTypeOK, Files, Calls, Fill, Names, Holding, Active
  <2>EntriesKnown. EntriesKnown'
    BY <2>u DEF EntriesKnown, Names
  <2>UnopenedUnnamed. UnopenedUnnamed'
    BY <2>u, <2>Shapes DEF WriteAll, Steps, fileVars, diskVars, callVars, UnopenedUnnamed, SavesOnly, CallsApart, HoldsName, EntriesKnown, RenamesWhole, Shapes, DirectoryTypeOK, ContentTypeOK, WriterTypeOK, Files, Calls, Fill, Names, Holding, Active
  <2>HoldsName. HoldsName'
    BY <2>u, <2>Shapes DEF WriteAll, Steps, fileVars, diskVars, callVars, HoldsName, SavesOnly, CallsApart, UnopenedUnnamed, RenamesWhole, Shapes, DirectoryTypeOK, ContentTypeOK, WriterTypeOK, Files, Calls, Fill, Names, Holding, Active
  <2>HoldsTarget. HoldsTarget'
    BY <2>u, <2>Shapes DEF WriteAll, Steps, fileVars, diskVars, callVars, HoldsTarget, SavesOnly, CallsApart, HoldsName, RenamesWhole, EntriesKnown, Shapes, DirectoryTypeOK, ContentTypeOK, WriterTypeOK, Files, Calls, Fill, Names, Holding, Active
  <2>NotYetTarget. NotYetTarget'
    BY <2>u, <2>Shapes DEF WriteAll, Steps, fileVars, diskVars, callVars, NotYetTarget, SavesOnly, CallsApart, HoldsName, UnopenedUnnamed, EntriesKnown, RenamesWhole, Shapes, DirectoryTypeOK, ContentTypeOK, WriterTypeOK, Files, Calls, Fill, Names, Holding, Active
  <2>RenamesWhole. RenamesWhole'
    BY <2>u, <2>Shapes DEF WriteAll, Steps, fileVars, diskVars, callVars, RenamesWhole, SavesOnly, CallsApart, Shapes, DirectoryTypeOK, ContentTypeOK, WriterTypeOK, Files, Calls, Fill, Names, Holding, Active
  <2>TargetOnDisk. TargetOnDisk'
    BY <2>u, <2>Shapes DEF WriteAll, Steps, fileVars, diskVars, callVars, TargetOnDisk, Whole, SavesOnly, CallsApart, HoldsName, NotYetTarget, RenamesWhole, Shapes, DirectoryTypeOK, ContentTypeOK, WriterTypeOK, Files, Calls, Fill, Names, Holding, Active
  <2>. QED BY <2>Shapes, <2>SavesOnly, <2>CallsApart, <2>EntriesKnown, <2>UnopenedUnnamed, <2>HoldsName, <2>HoldsTarget, <2>NotYetTarget, <2>RenamesWhole, <2>TargetOnDisk
<1>WriteFails. CASE \E w \in Writers : WriteFails(w)
  <2>. PICK w \in Writers : WriteFails(w)
    BY <1>WriteFails
  <2>u. UNCHANGED <<entry, durable, content, stored, writes, filled, kind, call, path>>
    BY DEF WriteFails, Steps, fileVars, diskVars, callVars
  <2>Shapes. Shapes'
    BY <2>u DEF WriteFails, Steps, fileVars, diskVars, callVars, Shapes, DirectoryTypeOK, ContentTypeOK, WriterTypeOK, Files, Calls, Fill, Names, Holding
  <2>SavesOnly. SavesOnly'
    BY <2>u, <2>Shapes DEF WriteFails, Steps, fileVars, diskVars, callVars, SavesOnly, Shapes, DirectoryTypeOK, ContentTypeOK, WriterTypeOK, Files, Calls, Fill, Names, Holding, Active
  <2>CallsApart. CallsApart'
    BY <2>u, <2>Shapes DEF WriteFails, Steps, fileVars, diskVars, callVars, CallsApart, Shapes, DirectoryTypeOK, ContentTypeOK, WriterTypeOK, Files, Calls, Fill, Names, Holding, Active
  <2>EntriesKnown. EntriesKnown'
    BY <2>u DEF EntriesKnown, Names
  <2>UnopenedUnnamed. UnopenedUnnamed'
    BY <2>u, <2>Shapes DEF WriteFails, Steps, fileVars, diskVars, callVars, UnopenedUnnamed, SavesOnly, CallsApart, HoldsName, EntriesKnown, RenamesWhole, Shapes, DirectoryTypeOK, ContentTypeOK, WriterTypeOK, Files, Calls, Fill, Names, Holding, Active
  <2>HoldsName. HoldsName'
    BY <2>u, <2>Shapes DEF WriteFails, Steps, fileVars, diskVars, callVars, HoldsName, SavesOnly, CallsApart, UnopenedUnnamed, RenamesWhole, Shapes, DirectoryTypeOK, ContentTypeOK, WriterTypeOK, Files, Calls, Fill, Names, Holding, Active
  <2>HoldsTarget. HoldsTarget'
    BY <2>u, <2>Shapes DEF WriteFails, Steps, fileVars, diskVars, callVars, HoldsTarget, SavesOnly, CallsApart, HoldsName, RenamesWhole, EntriesKnown, Shapes, DirectoryTypeOK, ContentTypeOK, WriterTypeOK, Files, Calls, Fill, Names, Holding, Active
  <2>NotYetTarget. NotYetTarget'
    BY <2>u, <2>Shapes DEF WriteFails, Steps, fileVars, diskVars, callVars, NotYetTarget, SavesOnly, CallsApart, HoldsName, UnopenedUnnamed, EntriesKnown, RenamesWhole, Shapes, DirectoryTypeOK, ContentTypeOK, WriterTypeOK, Files, Calls, Fill, Names, Holding, Active
  <2>RenamesWhole. RenamesWhole'
    BY <2>u, <2>Shapes DEF WriteFails, Steps, fileVars, diskVars, callVars, RenamesWhole, SavesOnly, CallsApart, Shapes, DirectoryTypeOK, ContentTypeOK, WriterTypeOK, Files, Calls, Fill, Names, Holding, Active
  <2>TargetOnDisk. TargetOnDisk'
    BY <2>u DEF TargetOnDisk, Whole, Names
  <2>. QED BY <2>Shapes, <2>SavesOnly, <2>CallsApart, <2>EntriesKnown, <2>UnopenedUnnamed, <2>HoldsName, <2>HoldsTarget, <2>NotYetTarget, <2>RenamesWhole, <2>TargetOnDisk
<1>Sync. CASE \E w \in Writers : Sync(w)
  <2>. PICK w \in Writers : Sync(w)
    BY <1>Sync
  <2>u. UNCHANGED <<entry, durable, content, writes, filled, kind, call, path>>
    BY DEF Sync, Steps, fileVars, diskVars, callVars, SyncedData, AfterSync
  <2>Shapes. Shapes'
    BY <2>u DEF Sync, Steps, fileVars, diskVars, callVars, SyncedData, AfterSync, Shapes, DirectoryTypeOK, ContentTypeOK, WriterTypeOK, Files, Calls, Fill, Names, Holding
  <2>SavesOnly. SavesOnly'
    BY <2>u, <2>Shapes DEF Sync, Steps, fileVars, diskVars, callVars, SyncedData, AfterSync, SavesOnly, Shapes, DirectoryTypeOK, ContentTypeOK, WriterTypeOK, Files, Calls, Fill, Names, Holding, Active
  <2>CallsApart. CallsApart'
    BY <2>u, <2>Shapes DEF Sync, Steps, fileVars, diskVars, callVars, SyncedData, AfterSync, CallsApart, Shapes, DirectoryTypeOK, ContentTypeOK, WriterTypeOK, Files, Calls, Fill, Names, Holding, Active
  <2>EntriesKnown. EntriesKnown'
    BY <2>u DEF EntriesKnown, Names
  <2>UnopenedUnnamed. UnopenedUnnamed'
    BY <2>u, <2>Shapes DEF Sync, Steps, fileVars, diskVars, callVars, SyncedData, AfterSync, UnopenedUnnamed, SavesOnly, CallsApart, HoldsName, EntriesKnown, RenamesWhole, Shapes, DirectoryTypeOK, ContentTypeOK, WriterTypeOK, Files, Calls, Fill, Names, Holding, Active
  <2>HoldsName. HoldsName'
    BY <2>u, <2>Shapes DEF Sync, Steps, fileVars, diskVars, callVars, SyncedData, AfterSync, HoldsName, SavesOnly, CallsApart, UnopenedUnnamed, RenamesWhole, Shapes, DirectoryTypeOK, ContentTypeOK, WriterTypeOK, Files, Calls, Fill, Names, Holding, Active
  <2>HoldsTarget. HoldsTarget'
    BY <2>u, <2>Shapes DEF Sync, Steps, fileVars, diskVars, callVars, SyncedData, AfterSync, HoldsTarget, SavesOnly, CallsApart, HoldsName, RenamesWhole, EntriesKnown, Shapes, DirectoryTypeOK, ContentTypeOK, WriterTypeOK, Files, Calls, Fill, Names, Holding, Active
  <2>NotYetTarget. NotYetTarget'
    BY <2>u, <2>Shapes DEF Sync, Steps, fileVars, diskVars, callVars, SyncedData, AfterSync, NotYetTarget, SavesOnly, CallsApart, HoldsName, UnopenedUnnamed, EntriesKnown, RenamesWhole, Shapes, DirectoryTypeOK, ContentTypeOK, WriterTypeOK, Files, Calls, Fill, Names, Holding, Active
  <2>RenamesWhole. RenamesWhole'
    BY <2>u, <2>Shapes DEF Sync, Steps, fileVars, diskVars, callVars, SyncedData, AfterSync, RenamesWhole, SavesOnly, CallsApart, Shapes, DirectoryTypeOK, ContentTypeOK, WriterTypeOK, Files, Calls, Fill, Names, Holding, Active
  <2>TargetOnDisk. TargetOnDisk'
    BY <2>u, <2>Shapes DEF Sync, Steps, fileVars, diskVars, callVars, SyncedData, AfterSync, TargetOnDisk, Whole, SavesOnly, CallsApart, HoldsName, NotYetTarget, RenamesWhole, Shapes, DirectoryTypeOK, ContentTypeOK, WriterTypeOK, Files, Calls, Fill, Names, Holding, Active
  <2>. QED BY <2>Shapes, <2>SavesOnly, <2>CallsApart, <2>EntriesKnown, <2>UnopenedUnnamed, <2>HoldsName, <2>HoldsTarget, <2>NotYetTarget, <2>RenamesWhole, <2>TargetOnDisk
<1>Rename. CASE \E w \in Writers : Rename(w)
  <2>. PICK w \in Writers : Rename(w)
    BY <1>Rename
  <2>u. UNCHANGED <<durable, content, stored, writes, filled, kind, call, path>>
    BY DEF Rename, Steps, fileVars, diskVars, callVars
  <2>Shapes. Shapes'
    BY <2>u DEF Rename, Steps, fileVars, diskVars, callVars, Shapes, DirectoryTypeOK, ContentTypeOK, WriterTypeOK, Files, Calls, Fill, Names, Holding
  <2>SavesOnly. SavesOnly'
    BY <2>u, <2>Shapes DEF Rename, Steps, fileVars, diskVars, callVars, SavesOnly, Shapes, DirectoryTypeOK, ContentTypeOK, WriterTypeOK, Files, Calls, Fill, Names, Holding, Active
  <2>CallsApart. CallsApart'
    BY <2>u, <2>Shapes DEF Rename, Steps, fileVars, diskVars, callVars, CallsApart, Shapes, DirectoryTypeOK, ContentTypeOK, WriterTypeOK, Files, Calls, Fill, Names, Holding, Active
  <2>EntriesKnown. EntriesKnown'
    BY <2>u, <2>Shapes DEF Rename, EntriesKnown, Shapes, DirectoryTypeOK, WriterTypeOK, Names, Files
  <2>UnopenedUnnamed. UnopenedUnnamed'
    BY <2>u, <2>Shapes DEF Rename, Steps, fileVars, diskVars, callVars, UnopenedUnnamed, SavesOnly, CallsApart, HoldsName, EntriesKnown, RenamesWhole, Shapes, DirectoryTypeOK, ContentTypeOK, WriterTypeOK, Files, Calls, Fill, Names, Holding, Active
  <2>HoldsName. HoldsName'
    BY <2>u, <2>Shapes DEF Rename, Steps, fileVars, diskVars, callVars, HoldsName, SavesOnly, CallsApart, UnopenedUnnamed, RenamesWhole, Shapes, DirectoryTypeOK, ContentTypeOK, WriterTypeOK, Files, Calls, Fill, Names, Holding, Active
  <2>HoldsTarget. HoldsTarget'
    BY <2>u, <2>Shapes DEF Rename, Steps, fileVars, diskVars, callVars, HoldsTarget, SavesOnly, CallsApart, HoldsName, RenamesWhole, EntriesKnown, Shapes, DirectoryTypeOK, ContentTypeOK, WriterTypeOK, Files, Calls, Fill, Names, Holding, Active
  <2>NotYetTarget. NotYetTarget'
    BY <2>u, <2>Shapes DEF Rename, Steps, fileVars, diskVars, callVars, NotYetTarget, SavesOnly, CallsApart, HoldsName, UnopenedUnnamed, EntriesKnown, RenamesWhole, Shapes, DirectoryTypeOK, ContentTypeOK, WriterTypeOK, Files, Calls, Fill, Names, Holding, Active
  <2>RenamesWhole. RenamesWhole'
    BY <2>u, <2>Shapes DEF Rename, Steps, fileVars, diskVars, callVars, RenamesWhole, SavesOnly, CallsApart, Shapes, DirectoryTypeOK, ContentTypeOK, WriterTypeOK, Files, Calls, Fill, Names, Holding, Active
  <2>TargetOnDisk. TargetOnDisk'
    BY <2>u, <2>Shapes DEF Rename, Steps, fileVars, diskVars, callVars, TargetOnDisk, Whole, SavesOnly, CallsApart, HoldsName, NotYetTarget, RenamesWhole, Shapes, DirectoryTypeOK, ContentTypeOK, WriterTypeOK, Files, Calls, Fill, Names, Holding, Active
  <2>. QED BY <2>Shapes, <2>SavesOnly, <2>CallsApart, <2>EntriesKnown, <2>UnopenedUnnamed, <2>HoldsName, <2>HoldsTarget, <2>NotYetTarget, <2>RenamesWhole, <2>TargetOnDisk
<1>RenameFails. CASE \E w \in Writers : RenameFails(w)
  <2>. PICK w \in Writers : RenameFails(w)
    BY <1>RenameFails
  <2>u. UNCHANGED <<entry, durable, content, stored, writes, filled, kind, call, path>>
    BY DEF RenameFails, Steps, fileVars, diskVars, callVars
  <2>Shapes. Shapes'
    BY <2>u DEF RenameFails, Steps, fileVars, diskVars, callVars, Shapes, DirectoryTypeOK, ContentTypeOK, WriterTypeOK, Files, Calls, Fill, Names, Holding
  <2>SavesOnly. SavesOnly'
    BY <2>u, <2>Shapes DEF RenameFails, Steps, fileVars, diskVars, callVars, SavesOnly, Shapes, DirectoryTypeOK, ContentTypeOK, WriterTypeOK, Files, Calls, Fill, Names, Holding, Active
  <2>CallsApart. CallsApart'
    BY <2>u, <2>Shapes DEF RenameFails, Steps, fileVars, diskVars, callVars, CallsApart, Shapes, DirectoryTypeOK, ContentTypeOK, WriterTypeOK, Files, Calls, Fill, Names, Holding, Active
  <2>EntriesKnown. EntriesKnown'
    BY <2>u DEF EntriesKnown, Names
  <2>UnopenedUnnamed. UnopenedUnnamed'
    BY <2>u, <2>Shapes DEF RenameFails, Steps, fileVars, diskVars, callVars, UnopenedUnnamed, SavesOnly, CallsApart, HoldsName, EntriesKnown, RenamesWhole, Shapes, DirectoryTypeOK, ContentTypeOK, WriterTypeOK, Files, Calls, Fill, Names, Holding, Active
  <2>HoldsName. HoldsName'
    BY <2>u, <2>Shapes DEF RenameFails, Steps, fileVars, diskVars, callVars, HoldsName, SavesOnly, CallsApart, UnopenedUnnamed, RenamesWhole, Shapes, DirectoryTypeOK, ContentTypeOK, WriterTypeOK, Files, Calls, Fill, Names, Holding, Active
  <2>HoldsTarget. HoldsTarget'
    BY <2>u, <2>Shapes DEF RenameFails, Steps, fileVars, diskVars, callVars, HoldsTarget, SavesOnly, CallsApart, HoldsName, RenamesWhole, EntriesKnown, Shapes, DirectoryTypeOK, ContentTypeOK, WriterTypeOK, Files, Calls, Fill, Names, Holding, Active
  <2>NotYetTarget. NotYetTarget'
    BY <2>u, <2>Shapes DEF RenameFails, Steps, fileVars, diskVars, callVars, NotYetTarget, SavesOnly, CallsApart, HoldsName, UnopenedUnnamed, EntriesKnown, RenamesWhole, Shapes, DirectoryTypeOK, ContentTypeOK, WriterTypeOK, Files, Calls, Fill, Names, Holding, Active
  <2>RenamesWhole. RenamesWhole'
    BY <2>u, <2>Shapes DEF RenameFails, Steps, fileVars, diskVars, callVars, RenamesWhole, SavesOnly, CallsApart, Shapes, DirectoryTypeOK, ContentTypeOK, WriterTypeOK, Files, Calls, Fill, Names, Holding, Active
  <2>TargetOnDisk. TargetOnDisk'
    BY <2>u DEF TargetOnDisk, Whole, Names
  <2>. QED BY <2>Shapes, <2>SavesOnly, <2>CallsApart, <2>EntriesKnown, <2>UnopenedUnnamed, <2>HoldsName, <2>HoldsTarget, <2>NotYetTarget, <2>RenamesWhole, <2>TargetOnDisk
<1>Remove. CASE \E w \in Writers : Remove(w)
  <2>. PICK w \in Writers : Remove(w)
    BY <1>Remove
  <2>u. UNCHANGED <<durable, content, stored, writes, filled, kind, call, path>>
    BY DEF Remove, Steps, fileVars, diskVars, callVars
  <2>Shapes. Shapes'
    BY <2>u DEF Remove, Steps, fileVars, diskVars, callVars, Shapes, DirectoryTypeOK, ContentTypeOK, WriterTypeOK, Files, Calls, Fill, Names, Holding
  <2>SavesOnly. SavesOnly'
    BY <2>u, <2>Shapes DEF Remove, Steps, fileVars, diskVars, callVars, SavesOnly, Shapes, DirectoryTypeOK, ContentTypeOK, WriterTypeOK, Files, Calls, Fill, Names, Holding, Active
  <2>CallsApart. CallsApart'
    BY <2>u, <2>Shapes DEF Remove, Steps, fileVars, diskVars, callVars, CallsApart, Shapes, DirectoryTypeOK, ContentTypeOK, WriterTypeOK, Files, Calls, Fill, Names, Holding, Active
  <2>EntriesKnown. EntriesKnown'
    BY <2>u, <2>Shapes DEF Remove, EntriesKnown, Shapes, DirectoryTypeOK, WriterTypeOK, Names, Files
  <2>UnopenedUnnamed. UnopenedUnnamed'
    BY <2>u, <2>Shapes DEF Remove, Steps, fileVars, diskVars, callVars, UnopenedUnnamed, SavesOnly, CallsApart, HoldsName, EntriesKnown, RenamesWhole, Shapes, DirectoryTypeOK, ContentTypeOK, WriterTypeOK, Files, Calls, Fill, Names, Holding, Active
  <2>HoldsName. HoldsName'
    BY <2>u, <2>Shapes DEF Remove, Steps, fileVars, diskVars, callVars, HoldsName, SavesOnly, CallsApart, UnopenedUnnamed, RenamesWhole, Shapes, DirectoryTypeOK, ContentTypeOK, WriterTypeOK, Files, Calls, Fill, Names, Holding, Active
  <2>HoldsTarget. HoldsTarget'
    BY <2>u, <2>Shapes DEF Remove, Steps, fileVars, diskVars, callVars, HoldsTarget, SavesOnly, CallsApart, HoldsName, RenamesWhole, EntriesKnown, Shapes, DirectoryTypeOK, ContentTypeOK, WriterTypeOK, Files, Calls, Fill, Names, Holding, Active
  <2>NotYetTarget. NotYetTarget'
    BY <2>u, <2>Shapes DEF Remove, Steps, fileVars, diskVars, callVars, NotYetTarget, SavesOnly, CallsApart, HoldsName, UnopenedUnnamed, EntriesKnown, RenamesWhole, Shapes, DirectoryTypeOK, ContentTypeOK, WriterTypeOK, Files, Calls, Fill, Names, Holding, Active
  <2>RenamesWhole. RenamesWhole'
    BY <2>u, <2>Shapes DEF Remove, Steps, fileVars, diskVars, callVars, RenamesWhole, SavesOnly, CallsApart, Shapes, DirectoryTypeOK, ContentTypeOK, WriterTypeOK, Files, Calls, Fill, Names, Holding, Active
  <2>TargetOnDisk. TargetOnDisk'
    BY <2>u, <2>Shapes DEF Remove, Steps, fileVars, diskVars, callVars, TargetOnDisk, Whole, SavesOnly, CallsApart, HoldsName, NotYetTarget, RenamesWhole, Shapes, DirectoryTypeOK, ContentTypeOK, WriterTypeOK, Files, Calls, Fill, Names, Holding, Active
  <2>. QED BY <2>Shapes, <2>SavesOnly, <2>CallsApart, <2>EntriesKnown, <2>UnopenedUnnamed, <2>HoldsName, <2>HoldsTarget, <2>NotYetTarget, <2>RenamesWhole, <2>TargetOnDisk
<1>SyncDirectory. CASE \E w \in Writers : SyncDirectory(w)
  <2>. PICK w \in Writers : SyncDirectory(w)
    BY <1>SyncDirectory
  <2>u. UNCHANGED <<entry, content, stored, writes, filled, kind, call, path>>
    BY DEF SyncDirectory, Steps, fileVars, diskVars, callVars
  <2>Shapes. Shapes'
    BY <2>u DEF SyncDirectory, Steps, fileVars, diskVars, callVars, Shapes, DirectoryTypeOK, ContentTypeOK, WriterTypeOK, Files, Calls, Fill, Names, Holding
  <2>SavesOnly. SavesOnly'
    BY <2>u, <2>Shapes DEF SyncDirectory, Steps, fileVars, diskVars, callVars, SavesOnly, Shapes, DirectoryTypeOK, ContentTypeOK, WriterTypeOK, Files, Calls, Fill, Names, Holding, Active
  <2>CallsApart. CallsApart'
    BY <2>u, <2>Shapes DEF SyncDirectory, Steps, fileVars, diskVars, callVars, CallsApart, Shapes, DirectoryTypeOK, ContentTypeOK, WriterTypeOK, Files, Calls, Fill, Names, Holding, Active
  <2>EntriesKnown. EntriesKnown'
    BY <2>u, <2>Shapes DEF SyncDirectory, Steps, fileVars, diskVars, callVars, EntriesKnown, SavesOnly, CallsApart, Shapes, DirectoryTypeOK, ContentTypeOK, WriterTypeOK, Files, Calls, Fill, Names, Holding, Active
  <2>UnopenedUnnamed. UnopenedUnnamed'
    BY <2>u, <2>Shapes DEF SyncDirectory, Steps, fileVars, diskVars, callVars, UnopenedUnnamed, SavesOnly, CallsApart, HoldsName, EntriesKnown, RenamesWhole, Shapes, DirectoryTypeOK, ContentTypeOK, WriterTypeOK, Files, Calls, Fill, Names, Holding, Active
  <2>HoldsName. HoldsName'
    BY <2>u, <2>Shapes DEF SyncDirectory, Steps, fileVars, diskVars, callVars, HoldsName, SavesOnly, CallsApart, UnopenedUnnamed, RenamesWhole, Shapes, DirectoryTypeOK, ContentTypeOK, WriterTypeOK, Files, Calls, Fill, Names, Holding, Active
  <2>HoldsTarget. HoldsTarget'
    BY <2>u, <2>Shapes DEF SyncDirectory, Steps, fileVars, diskVars, callVars, HoldsTarget, SavesOnly, CallsApart, HoldsName, RenamesWhole, EntriesKnown, Shapes, DirectoryTypeOK, ContentTypeOK, WriterTypeOK, Files, Calls, Fill, Names, Holding, Active
  <2>NotYetTarget. NotYetTarget'
    BY <2>u, <2>Shapes DEF SyncDirectory, Steps, fileVars, diskVars, callVars, NotYetTarget, SavesOnly, CallsApart, HoldsName, UnopenedUnnamed, EntriesKnown, RenamesWhole, Shapes, DirectoryTypeOK, ContentTypeOK, WriterTypeOK, Files, Calls, Fill, Names, Holding, Active
  <2>RenamesWhole. RenamesWhole'
    BY <2>u, <2>Shapes DEF SyncDirectory, Steps, fileVars, diskVars, callVars, RenamesWhole, SavesOnly, CallsApart, Shapes, DirectoryTypeOK, ContentTypeOK, WriterTypeOK, Files, Calls, Fill, Names, Holding, Active
  <2>TargetOnDisk. TargetOnDisk'
    BY <2>u, <2>Shapes DEF SyncDirectory, Steps, fileVars, diskVars, callVars, TargetOnDisk, Whole, SavesOnly, CallsApart, HoldsName, NotYetTarget, RenamesWhole, Shapes, DirectoryTypeOK, ContentTypeOK, WriterTypeOK, Files, Calls, Fill, Names, Holding, Active
  <2>. QED BY <2>Shapes, <2>SavesOnly, <2>CallsApart, <2>EntriesKnown, <2>UnopenedUnnamed, <2>HoldsName, <2>HoldsTarget, <2>NotYetTarget, <2>RenamesWhole, <2>TargetOnDisk
<1>Die. CASE \E w \in Writers : Die(w)
  <2>. PICK w \in Writers : Die(w)
    BY <1>Die
  <2>u. UNCHANGED <<entry, durable, content, stored, writes, filled, kind, call, path>>
    BY DEF Die, Steps, fileVars, diskVars, callVars
  <2>Shapes. Shapes'
    BY <2>u DEF Die, Steps, fileVars, diskVars, callVars, Shapes, DirectoryTypeOK, ContentTypeOK, WriterTypeOK, Files, Calls, Fill, Names, Holding
  <2>SavesOnly. SavesOnly'
    BY <2>u, <2>Shapes DEF Die, Steps, fileVars, diskVars, callVars, SavesOnly, Shapes, DirectoryTypeOK, ContentTypeOK, WriterTypeOK, Files, Calls, Fill, Names, Holding, Active
  <2>CallsApart. CallsApart'
    BY <2>u, <2>Shapes DEF Die, Steps, fileVars, diskVars, callVars, CallsApart, Shapes, DirectoryTypeOK, ContentTypeOK, WriterTypeOK, Files, Calls, Fill, Names, Holding, Active
  <2>EntriesKnown. EntriesKnown'
    BY <2>u DEF EntriesKnown, Names
  <2>UnopenedUnnamed. UnopenedUnnamed'
    BY <2>u, <2>Shapes DEF Die, Steps, fileVars, diskVars, callVars, UnopenedUnnamed, SavesOnly, CallsApart, HoldsName, EntriesKnown, RenamesWhole, Shapes, DirectoryTypeOK, ContentTypeOK, WriterTypeOK, Files, Calls, Fill, Names, Holding, Active
  <2>HoldsName. HoldsName'
    BY <2>u, <2>Shapes DEF Die, Steps, fileVars, diskVars, callVars, HoldsName, SavesOnly, CallsApart, UnopenedUnnamed, RenamesWhole, Shapes, DirectoryTypeOK, ContentTypeOK, WriterTypeOK, Files, Calls, Fill, Names, Holding, Active
  <2>HoldsTarget. HoldsTarget'
    BY <2>u, <2>Shapes DEF Die, Steps, fileVars, diskVars, callVars, HoldsTarget, SavesOnly, CallsApart, HoldsName, RenamesWhole, EntriesKnown, Shapes, DirectoryTypeOK, ContentTypeOK, WriterTypeOK, Files, Calls, Fill, Names, Holding, Active
  <2>NotYetTarget. NotYetTarget'
    BY <2>u, <2>Shapes DEF Die, Steps, fileVars, diskVars, callVars, NotYetTarget, SavesOnly, CallsApart, HoldsName, UnopenedUnnamed, EntriesKnown, RenamesWhole, Shapes, DirectoryTypeOK, ContentTypeOK, WriterTypeOK, Files, Calls, Fill, Names, Holding, Active
  <2>RenamesWhole. RenamesWhole'
    BY <2>u, <2>Shapes DEF Die, Steps, fileVars, diskVars, callVars, RenamesWhole, SavesOnly, CallsApart, Shapes, DirectoryTypeOK, ContentTypeOK, WriterTypeOK, Files, Calls, Fill, Names, Holding, Active
  <2>TargetOnDisk. TargetOnDisk'
    BY <2>u DEF TargetOnDisk, Whole, Names
  <2>. QED BY <2>Shapes, <2>SavesOnly, <2>CallsApart, <2>EntriesKnown, <2>UnopenedUnnamed, <2>HoldsName, <2>HoldsTarget, <2>NotYetTarget, <2>RenamesWhole, <2>TargetOnDisk
<1>unchanged. CASE UNCHANGED writeVars
  BY <1>unchanged DEF writeVars, fileVars, diskVars, callVars, Shapes, DirectoryTypeOK, ContentTypeOK, WriterTypeOK, SavesOnly, CallsApart, EntriesKnown, UnopenedUnnamed, HoldsName, HoldsTarget, NotYetTarget, RenamesWhole, TargetOnDisk, Whole
<1>. QED
  BY <1>WriteBackDirectory, <1>WriteBackFile, <1>PowerLoss, <1>Save, <1>SaveNew, <1>Open, <1>OpenFails, <1>WritePart, <1>WriteAll, <1>WriteFails, <1>Sync, <1>Rename, <1>RenameFails, <1>Remove, <1>SyncDirectory, <1>Die, <1>unchanged
  DEF WriteNext, WriterNext

-----------------------------------------------------------------------------
\* However the writers interleave, die or lose power, and in whatever order the
\* system writes directories and data back, a save leaves under the target's
\* name a whole document or nothing (write_bytes_atomically).
THEOREM TargetWholeCorrect ==
  WriteSpec => []TargetIsWhole
<1>1. WriteInit => WriteInv
  BY WriteInitInv
<1>2. WriteInv /\ [WriteNext]_writeVars => WriteInv'
  BY WriteStepInv
<1>3. WriteInv => TargetIsWhole
  BY DEF WriteInv, TargetOnDisk, TargetIsWhole
<1>. QED BY <1>1, <1>2, <1>3, PTL DEF WriteSpec


\* No call replaces or removes a file that is not its own, but for the save's file
\* that save_new finds in the place of its own (create_and_fill_bytes): the name
\* is the call's own from create_new on.
THEOREM OwnFilesOnlyCorrect == WriteSpec => OwnFilesOnly
<1>1. WriteInit => WriteInv
  BY WriteInitInv
<1>2. WriteInv /\ [WriteNext]_writeVars => WriteInv'
  BY WriteStepInv
<1>3. ASSUME WriteInv, [WriteNext]_writeVars,
             NEW n \in Names, entry[n] # NoFile, entry'[n] # entry[n]
      PROVE  RightlyLost(n)
  <2>1. CASE PowerLoss
    BY <2>1 DEF RightlyLost
  <2>2. CASE \E w \in Writers : Open(w)
    BY <1>3, <2>2 DEF Open, Creatable, WriteInv, Shapes, DirectoryTypeOK, WriterTypeOK
  <2>3. CASE \E w \in Writers : Rename(w)
    <3>. PICK w \in Writers : Rename(w)
      BY <2>3
    <3>1. n = Target \/ n = path[w]
      BY <1>3 DEF Rename, WriteInv, Shapes, DirectoryTypeOK, WriterTypeOK
    <3>2. step[w] = "rename" /\ entry[path[w]] = call[w]
      BY <1>3 DEF Rename, WriteInv, RenamesWhole, HoldsName, Holding
    <3>. QED BY <3>1, <3>2 DEF RightlyLost
  <2>4. CASE \E w \in Writers : Remove(w)
    <3>. PICK w \in Writers : Remove(w)
      BY <2>4
    <3>1. step[w] = "remove" /\ path[w] = n
      BY <1>3 DEF Remove, WriteInv, Shapes, DirectoryTypeOK, WriterTypeOK
    <3>2. kind[w] = "save" => entry[n] = call[w]
      BY <1>3, <3>1 DEF WriteInv, HoldsName, Holding
    <3>3. kind[w] = "new" => entry[n] = call[w] \/ entry[n] \notin filled \union {0}
      BY <1>3, <3>1 DEF WriteInv, HoldsTarget, SavesOnly, Active, Holding
    <3>4. kind[w] \in {"save", "new"}
      BY <1>3 DEF WriteInv, Shapes, WriterTypeOK
    <3>. QED BY <3>1, <3>2, <3>3, <3>4 DEF RightlyLost
  <2>. QED
    BY <1>3, <2>1, <2>2, <2>3, <2>4
    DEF WriteNext, WriterNext, WriteBackDirectory, WriteBackFile, Save, SaveNew, OpenFails, WritePart,
        WriteAll, WriteFails, Sync, RenameFails, SyncDirectory, Die, writeVars, fileVars
<1>4. WriteInv /\ [WriteNext]_writeVars =>
          [\A n \in Names : entry[n] # NoFile /\ entry'[n] # entry[n] => RightlyLost(n)]_writeVars
  BY <1>3
<1>. QED BY <1>1, <1>2, <1>4, PTL DEF WriteSpec, OwnFilesOnly

-----------------------------------------------------------------------------

(***************************************************************************)
(* Lifecycle, for any keys, layers, deployments, number of threads and number*)
(* of restarts.  The first part is about which checks lie between a source *)
(* and the cell, or the disk, on every path and across every crash, and leaves*)
(* open what a merge computes; the second is about the merge itself, a     *)
(* recursive function over the layers.                                     *)
(***************************************************************************)
USE DEF cellVars, threadVars, bounds, Goto

\* The threads' variables are functions on the threads.
Shape ==
    /\ pc = [t \in Threads |-> pc[t]]
    /\ value = [t \in Threads |-> value[t]]
    /\ op = [t \in Threads |-> op[t]]

\* A configuration that is about to be installed has been validated.
PendingIsValid ==
    \A t \in Threads : pc[t] \in {"install", "restore"} => Valid(value[t])

\* A thread that is about to recover, or to write, is one that may.
PendingMay ==
    \A t \in Threads :
        /\ pc[t] = "restore" => builder.mode \in {"Full", "Redacted"}
        /\ pc[t] = "write" => MayWrite

LifeInv ==
    /\ Shape /\ PendingIsValid /\ PendingMay
    /\ ServingIsValid /\ MarkedCacheIsRedacted /\ OnlyARecoveringModeRecovers

\* The inductive invariant holds initially and is kept by every step.
LEMMA LifeInvHolds == Spec => []LifeInv
<1>1. Init => LifeInv
  BY DEF Init, LifeInv, Shape, PendingIsValid, PendingMay, ServingIsValid,
     MarkedCacheIsRedacted, OnlyARecoveringModeRecovers
<1>2. LifeInv /\ [Next]_vars => LifeInv'
  <2> SUFFICES ASSUME LifeInv, [Next]_vars PROVE LifeInv'
    OBVIOUS
  <2> USE DEF LifeInv
  <2>a. ASSUME UNCHANGED disk PROVE MarkedCacheIsRedacted'
    BY <2>a DEF MarkedCacheIsRedacted
  <2>b. ASSUME UNCHANGED <<serving, reason>> PROVE ServingIsValid'
    BY <2>b DEF ServingIsValid
  <2>c. ASSUME UNCHANGED <<reason, builder>>
        PROVE  OnlyARecoveringModeRecovers'
    BY <2>c DEF OnlyARecoveringModeRecovers
  <2>d. ASSUME UNCHANGED value,
               \A t \in Threads : pc'[t] \in {"install", "restore"} => pc'[t] = pc[t]
        PROVE  PendingIsValid'
    BY <2>d DEF PendingIsValid
  <2>e. ASSUME UNCHANGED builder,
               \A t \in Threads : pc'[t] \in {"restore", "write"} => pc'[t] = pc[t]
        PROVE  PendingMay'
    BY <2>e DEF PendingMay, MayWrite, MayRedact
  <2>1. ASSUME NEW l \in LayerNames, Change(l) PROVE LifeInv'
    <3>1. Shape'
      BY <2>1 DEF Change, Shape
    <3>2. PendingIsValid'
      BY <2>1, <2>d DEF Change
    <3>3. PendingMay'
      BY <2>1, <2>e DEF Change
    <3>4. ServingIsValid'
      BY <2>1, <2>b DEF Change
    <3>5. MarkedCacheIsRedacted'
      BY <2>1, <2>a DEF Change
    <3>6. OnlyARecoveringModeRecovers'
      BY <2>1, <2>c DEF Change
    <3> QED
      BY <3>1, <3>2, <3>3, <3>4, <3>5, <3>6
  <2>2. ASSUME Restart PROVE LifeInv'
    <3>1. Shape'
      BY <2>2 DEF Restart, Shape
    <3>2. PendingIsValid'
      BY <2>2, <2>d DEF Restart, Shape
    <3>3. PendingMay'
      BY <2>2 DEF Restart, PendingMay
    <3>4. ServingIsValid'
      BY <2>2 DEF Restart, ServingIsValid
    <3>5. MarkedCacheIsRedacted'
      BY <2>2, <2>a DEF Restart
    <3>6. OnlyARecoveringModeRecovers'
      BY <2>2 DEF Restart, OnlyARecoveringModeRecovers
    <3> QED
      BY <3>1, <3>2, <3>3, <3>4, <3>5, <3>6
  <2>3. ASSUME NEW t \in Threads, CallInit(t) PROVE LifeInv'
    <3>1. Shape'
      BY <2>3 DEF CallInit, Call, Shape
    <3>2. PendingIsValid'
      BY <2>3, <2>d DEF CallInit, Call, Shape
    <3>3. PendingMay'
      BY <2>3, <2>e DEF CallInit, Call, Shape
    <3>4. ServingIsValid'
      BY <2>3, <2>b DEF CallInit, Call
    <3>5. MarkedCacheIsRedacted'
      BY <2>3, <2>a DEF CallInit, Call
    <3>6. OnlyARecoveringModeRecovers'
      BY <2>3, <2>c DEF CallInit, Call
    <3> QED
      BY <3>1, <3>2, <3>3, <3>4, <3>5, <3>6
  <2>4. ASSUME NEW t \in Threads, CallReload(t) PROVE LifeInv'
    <3>1. Shape'
      BY <2>4 DEF CallReload, Call, Shape
    <3>2. PendingIsValid'
      BY <2>4, <2>d DEF CallReload, Call, Shape
    <3>3. PendingMay'
      BY <2>4, <2>e DEF CallReload, Call, Shape
    <3>4. ServingIsValid'
      BY <2>4, <2>b DEF CallReload, Call
    <3>5. MarkedCacheIsRedacted'
      BY <2>4, <2>a DEF CallReload, Call
    <3>6. OnlyARecoveringModeRecovers'
      BY <2>4, <2>c DEF CallReload, Call
    <3> QED
      BY <3>1, <3>2, <3>3, <3>4, <3>5, <3>6
  <2>5. ASSUME NEW t \in Threads, LoadOk(t) PROVE LifeInv'
    <3>1. Shape'
      BY <2>5 DEF LoadOk, Shape
    <3>2. PendingIsValid'
      BY <2>5 DEF LoadOk, Shape, PendingIsValid
    <3>3. PendingMay'
      BY <2>5, <2>e DEF LoadOk, Shape
    <3>4. ServingIsValid'
      BY <2>5, <2>b DEF LoadOk
    <3>5. MarkedCacheIsRedacted'
      BY <2>5, <2>a DEF LoadOk
    <3>6. OnlyARecoveringModeRecovers'
      BY <2>5, <2>c DEF LoadOk
    <3> QED
      BY <3>1, <3>2, <3>3, <3>4, <3>5, <3>6
  <2>6. ASSUME NEW t \in Threads, LoadFails(t) PROVE LifeInv'
    <3>1. Shape'
      BY <2>6 DEF LoadFails, Shape
    <3>2. PendingIsValid'
      BY <2>6, <2>d DEF LoadFails, Shape
    <3>3. PendingMay'
      BY <2>6, <2>e DEF LoadFails, Shape
    <3>4. ServingIsValid'
      BY <2>6, <2>b DEF LoadFails
    <3>5. MarkedCacheIsRedacted'
      BY <2>6, <2>a DEF LoadFails
    <3>6. OnlyARecoveringModeRecovers'
      BY <2>6, <2>c DEF LoadFails
    <3> QED
      BY <3>1, <3>2, <3>3, <3>4, <3>5, <3>6
  <2>7. ASSUME NEW t \in Threads, Install(t) PROVE LifeInv'
    <3>1. Shape'
      BY <2>7 DEF Install, Shape
    <3>2. PendingIsValid'
      BY <2>7, <2>d DEF Install, Shape
    <3>3. PendingMay'
      BY <2>7, <2>e DEF Install, Shape
    <3>4. ServingIsValid'
      BY <2>7 DEF Install, PendingIsValid, ServingIsValid
    <3>5. MarkedCacheIsRedacted'
      BY <2>7, <2>a DEF Install
    <3>6. OnlyARecoveringModeRecovers'
      BY <2>7 DEF Install, OnlyARecoveringModeRecovers
    <3> QED
      BY <3>1, <3>2, <3>3, <3>4, <3>5, <3>6
  <2>8. ASSUME NEW t \in Threads, NotCached(t) PROVE LifeInv'
    <3>1. Shape'
      BY <2>8 DEF NotCached, Finish, Shape
    <3>2. PendingIsValid'
      BY <2>8, <2>d DEF NotCached, Finish, Shape
    <3>3. PendingMay'
      BY <2>8, <2>e DEF NotCached, Finish, Shape
    <3>4. ServingIsValid'
      BY <2>8, <2>b DEF NotCached, Finish
    <3>5. MarkedCacheIsRedacted'
      BY <2>8, <2>a DEF NotCached, Finish
    <3>6. OnlyARecoveringModeRecovers'
      BY <2>8, <2>c DEF NotCached, Finish
    <3> QED
      BY <3>1, <3>2, <3>3, <3>4, <3>5, <3>6
  <2>9. ASSUME NEW t \in Threads, Snapshot(t) PROVE LifeInv'
    <3>1. Shape'
      BY <2>9 DEF Snapshot, Shape
    <3>2. PendingIsValid'
      BY <2>9 DEF Snapshot, Shape, PendingIsValid
    <3>3. PendingMay'
      BY <2>9 DEF Snapshot, Shape, PendingMay, MayWrite, MayRedact
    <3>4. ServingIsValid'
      BY <2>9, <2>b DEF Snapshot
    <3>5. MarkedCacheIsRedacted'
      BY <2>9, <2>a DEF Snapshot
    <3>6. OnlyARecoveringModeRecovers'
      BY <2>9, <2>c DEF Snapshot
    <3> QED
      BY <3>1, <3>2, <3>3, <3>4, <3>5, <3>6
  <2>10. ASSUME NEW t \in Threads, WriteCache(t) PROVE LifeInv'
    <3>1. Shape'
      BY <2>10 DEF WriteCache, Finish, Shape
    <3>2. PendingIsValid'
      BY <2>10, <2>d DEF WriteCache, Finish, Shape
    <3>3. PendingMay'
      BY <2>10, <2>e DEF WriteCache, Finish, Shape
    <3>4. ServingIsValid'
      BY <2>10, <2>b DEF WriteCache, Finish
    <3>5. MarkedCacheIsRedacted'
      <4>1. MayWrite
        BY <2>10 DEF WriteCache, PendingMay
      <4>2. CASE UNCHANGED disk
        BY <4>2, <2>a
      <4>3. CASE disk' = [mode |-> builder.mode,
                          doc |-> CacheDocument(value[t])]
        BY <4>1, <4>3 DEF MarkedCacheIsRedacted, CacheDocument, Without,
           MayWrite, MayRedact
      <4> QED
        BY <4>2, <4>3, <2>10 DEF WriteCache
    <3>6. OnlyARecoveringModeRecovers'
      BY <2>10, <2>c DEF WriteCache, Finish
    <3> QED
      BY <3>1, <3>2, <3>3, <3>4, <3>5, <3>6
  <2>11. ASSUME NEW t \in Threads, RecoverOk(t) PROVE LifeInv'
    <3>1. Shape'
      BY <2>11 DEF RecoverOk, Shape
    <3>2. PendingIsValid'
      BY <2>11 DEF RecoverOk, Shape, PendingIsValid, Accepts
    <3>3. PendingMay'
      BY <2>11 DEF RecoverOk, Shape, PendingMay, MayWrite, MayRedact,
         MayRecover
    <3>4. ServingIsValid'
      BY <2>11, <2>b DEF RecoverOk
    <3>5. MarkedCacheIsRedacted'
      BY <2>11, <2>a DEF RecoverOk
    <3>6. OnlyARecoveringModeRecovers'
      BY <2>11, <2>c DEF RecoverOk
    <3> QED
      BY <3>1, <3>2, <3>3, <3>4, <3>5, <3>6
  <2>12. ASSUME NEW t \in Threads, RecoverFails(t) PROVE LifeInv'
    <3>1. Shape'
      BY <2>12 DEF RecoverFails, Shape
    <3>2. PendingIsValid'
      BY <2>12, <2>d DEF RecoverFails, Shape
    <3>3. PendingMay'
      BY <2>12, <2>e DEF RecoverFails, Shape
    <3>4. ServingIsValid'
      BY <2>12, <2>b DEF RecoverFails
    <3>5. MarkedCacheIsRedacted'
      BY <2>12, <2>a DEF RecoverFails
    <3>6. OnlyARecoveringModeRecovers'
      BY <2>12, <2>c DEF RecoverFails
    <3> QED
      BY <3>1, <3>2, <3>3, <3>4, <3>5, <3>6
  <2>13. ASSUME NEW t \in Threads, InstallRecovered(t) PROVE LifeInv'
    <3>1. Shape'
      BY <2>13 DEF InstallRecovered, Finish, Shape
    <3>2. PendingIsValid'
      BY <2>13, <2>d DEF InstallRecovered, Finish, Shape
    <3>3. PendingMay'
      BY <2>13, <2>e DEF InstallRecovered, Finish, Shape
    <3>4. ServingIsValid'
      BY <2>13 DEF InstallRecovered, Finish, PendingIsValid, ServingIsValid
    <3>5. MarkedCacheIsRedacted'
      BY <2>13, <2>a DEF InstallRecovered, Finish
    <3>6. OnlyARecoveringModeRecovers'
      BY <2>13 DEF InstallRecovered, Finish, OnlyARecoveringModeRecovers,
         PendingMay
    <3> QED
      BY <3>1, <3>2, <3>3, <3>4, <3>5, <3>6
  <2>14. CASE UNCHANGED vars
    BY <2>14, <2>a, <2>b, <2>c, <2>d, <2>e DEF vars, Shape
  <2> QED
    BY <2>1, <2>2, <2>3, <2>4, <2>5, <2>6, <2>7, <2>8, <2>9, <2>10, <2>11,
       <2>12, <2>13, <2>14 DEF Next, ThreadNext
<1> QED
  BY <1>1, <1>2, PTL DEF Spec

\* Whatever the sources, the cache and the crashes, only a configuration
\* that deserializes and passes validate is served.
THEOREM ServingIsValidCorrect == Spec => []ServingIsValid
<1>1. LifeInv => ServingIsValid
  BY DEF LifeInv
<1> QED
  BY <1>1, LifeInvHolds, PTL

\* No path writes a value that the mode of the cache file says it withholds.
THEOREM MarkedCacheIsRedactedCorrect == Spec => []MarkedCacheIsRedacted
<1>1. LifeInv => MarkedCacheIsRedacted
  BY DEF LifeInv
<1> QED
  BY <1>1, LifeInvHolds, PTL

\* Only a deployment whose own mode recovers ever serves a recovered value.
THEOREM OnlyARecoveringModeRecoversCorrect ==
    Spec => []OnlyARecoveringModeRecovers
<1>1. LifeInv => OnlyARecoveringModeRecovers
  BY DEF LifeInv
<1> QED
  BY <1>1, LifeInvHolds, PTL

-----------------------------------------------------------------------------
(* What a load reads: the last layer that sets a key wins it.             *)

\* A set of numbers has a smallest one.
LEMMA SmallestNat ==
  ASSUME NEW T \in SUBSET Nat, T # {}
  PROVE  \E m \in T : \A n \in T : m <= n
<1>. DEFINE R == {ss \in Nat \X Nat : ss[1] < ss[2]}
<1>1. IsWellFoundedOn(R, Nat)
  BY NatLessThanWellFounded DEF OpToRel
<1>2. \A m, n \in T : <<n, m>> \in R <=> n < m
  OBVIOUS
<1>. HIDE DEF R
<1>3. PICK m \in T : \A n \in T : ~(<<n, m>> \in R)
  BY <1>1, WFMin
<1>4. ASSUME NEW n \in T PROVE m <= n
  <2>1. n \in Nat /\ m \in Nat
    OBVIOUS
  <2>2. ~(n < m)
    BY <1>2, <1>3
  <2>. QED BY <2>1, <2>2
<1>. QED BY <1>4

\* Induction, for a set of numbers.
LEMMA NatInductionOnSet ==
  ASSUME NEW S, 0 \in S, \A n \in Nat : n \in S => n + 1 \in S
  PROVE  \A n \in Nat : n \in S
<1>. SUFFICES ASSUME Nat \ S # {} PROVE FALSE
  OBVIOUS
<1>1. PICK m \in Nat \ S : \A n \in Nat \ S : m <= n
  BY SmallestNat
<1>2. m # 0 /\ m - 1 \in Nat /\ m - 1 \notin Nat \ S
  BY <1>1
<1>. QED BY <1>1, <1>2

\* up is the documents of a base and the first layers of an order over it.
IsMerge(up, len, base, order, held) ==
    up = [n \in 0..len |->
             IF n = 0 THEN base ELSE Merge(up[n - 1], held[order[n]].doc)]

\* The function that MergedOver reads its result from exists.
LEMMA MergeIsRecursive ==
  ASSUME NEW len \in Nat, NEW base, NEW order, NEW held
  PROVE  \E up : IsMerge(up, len, base, order, held)
<1>. DEFINE S == {n \in Nat : \E g : IsMerge(g, n, base, order, held)}
<1>1. 0 \in S
  <2>1. IsMerge([k \in 0..0 |-> base], 0, base, order, held)
    BY DEF IsMerge
  <2>. QED BY <2>1
<1>2. ASSUME NEW n \in Nat, n \in S PROVE n + 1 \in S
  <2>1. PICK g : IsMerge(g, n, base, order, held)
    BY <1>2
  <2>. DEFINE nth(k, b) == Merge(b, held[order[k]].doc)
              h == [k \in 0..(n + 1) |-> IF k = n + 1 THEN nth(n + 1, g[n]) ELSE g[k]]
  <2>2. \A k \in 0..n : g[k] = IF k = 0 THEN base ELSE nth(k, g[k - 1])
    BY <2>1 DEF IsMerge
  <2>. HIDE DEF nth
  <2>3. \A k \in 0..n : h[k] = g[k]
    OBVIOUS
  <2>4. h[n + 1] = nth(n + 1, g[n])
    OBVIOUS
  <2>5. \A k \in 0..(n + 1) : h[k] = IF k = 0 THEN base ELSE nth(k, h[k - 1])
    <3>1. ASSUME NEW k \in 0..n, k # 0 PROVE h[k] = nth(k, h[k - 1])
      <4>1. k - 1 \in 0..n /\ h[k - 1] = g[k - 1]
        BY <3>1, <2>3
      <4>. QED BY <3>1, <4>1, <2>2, <2>3
    <3>2. h[0] = base
      BY <2>2, <2>3
    <3>3. h[n + 1] = nth(n + 1, h[(n + 1) - 1])
      BY <2>3, <2>4
    <3>. HIDE DEF h
    <3>4. \A k \in 0..(n + 1) : k = 0 \/ k = n + 1 \/ (k \in 0..n /\ k # 0)
      OBVIOUS
    <3>. QED BY <3>1, <3>2, <3>3, <3>4
  <2>6. h = [k \in 0..(n + 1) |-> h[k]]
    OBVIOUS
  <2>. HIDE DEF h
  <2>7. h = [k \in 0..(n + 1) |-> IF k = 0 THEN base ELSE nth(k, h[k - 1])]
    BY <2>5, <2>6
  <2>8. IsMerge(h, n + 1, base, order, held)
    BY <2>7 DEF IsMerge, nth
  <2>. QED BY <2>8
<1>3. len \in S
  <2>. HIDE DEF S
  <2>. QED BY <1>1, <1>2, NatInductionOnSet
<1>. QED BY <1>3

\* MergedOver is the last of such documents.
LEMMA MergedIsTheLast ==
  ASSUME NEW base, NEW order, NEW held, Len(order) \in Nat
  PROVE  \E up : /\ IsMerge(up, Len(order), base, order, held)
                 /\ MergedOver(base, order, held) = up[Len(order)]
<1>. DEFINE len == Len(order)
            up == CHOOSE f : IsMerge(f, len, base, order, held)
<1>1. IsMerge(up, len, base, order, held)
  <2>1. \E f : IsMerge(f, len, base, order, held)
    BY MergeIsRecursive
  <2>. QED BY <2>1
<1>2. MergedOver(base, order, held) = up[len]
  BY DEF MergedOver, IsMerge
<1>. QED BY <1>1, <1>2

\* Whatever documents are merged, in whatever order: a key has the value of the
\* last layer that sets it.
THEOREM LastLayerWins ==
  ASSUME NEW base, NEW order, NEW held, Len(order) \in Nat,
         NEW i \in 1..Len(order), NEW k \in DOMAIN held[order[i]].doc,
         \A j \in (i + 1)..Len(order) : k \notin DOMAIN held[order[j]].doc
  PROVE  /\ k \in DOMAIN MergedOver(base, order, held)
         /\ MergedOver(base, order, held)[k] = held[order[i]].doc[k]
<1>. DEFINE len == Len(order)  doc(n) == held[order[n]].doc
<1>1. PICK up : IsMerge(up, len, base, order, held)
                /\ MergedOver(base, order, held) = up[len]
  BY MergedIsTheLast
<1>2. \A n \in 1..len : up[n] = Merge(up[n - 1], doc(n))
  BY <1>1 DEF IsMerge
<1>3. /\ i \in Nat /\ i >= 1 /\ i <= len /\ len \in Nat /\ k \in DOMAIN doc(i)
      /\ \A j \in (i + 1)..len : k \notin DOMAIN doc(j)
  OBVIOUS
<1>. HIDE DEF doc
<1>. DEFINE Set(n) == k \in DOMAIN up[n] /\ up[n][k] = doc(i)[k]
            S == {n \in Nat : i + n <= len => Set(i + n)}
<1>4. 0 \in S
  <2>1. up[i] = Merge(up[i - 1], doc(i))
    BY <1>2
  <2>2. Set(i)
    BY <2>1, <1>3 DEF Merge
  <2>. QED BY <2>2, <1>3
<1>5. ASSUME NEW n \in Nat, n \in S PROVE n + 1 \in S
  <2>. SUFFICES ASSUME i + (n + 1) <= len PROVE Set(i + (n + 1))
    OBVIOUS
  <2>1. /\ i + n <= len /\ i + (n + 1) \in 1..len /\ i + (n + 1) \in (i + 1)..len
        /\ (i + (n + 1)) - 1 = i + n
    BY <1>3
  <2>2. Set(i + n)
    BY <1>5, <2>1
  <2>3. up[i + (n + 1)] = Merge(up[i + n], doc(i + (n + 1)))
    BY <1>2, <2>1
  <2>4. k \notin DOMAIN doc(i + (n + 1))
    BY <1>3, <2>1
  <2>. QED BY <2>2, <2>3, <2>4 DEF Merge
<1>6. len - i \in S
  <2>1. len - i \in Nat
    BY <1>3
  <2>. HIDE DEF S
  <2>. QED BY <2>1, <1>4, <1>5, NatInductionOnSet
<1>7. i + (len - i) = len
  BY <1>3
<1>8. Set(len)
  BY <1>3, <1>6, <1>7
<1>. QED BY <1>1, <1>8 DEF doc

\* Merged documents are documents.
LEMMA MergedIsDocument ==
  ASSUME NEW base \in Documents, NEW order, NEW held, Len(order) \in Nat,
         \A n \in 1..Len(order) : held[order[n]].doc \in Documents
  PROVE  MergedOver(base, order, held) \in Documents
<1>. DEFINE len == Len(order)  doc(n) == held[order[n]].doc
<1>1. PICK up : IsMerge(up, len, base, order, held)
                /\ MergedOver(base, order, held) = up[len]
  BY MergedIsTheLast
<1>2. up[0] = base /\ \A n \in 1..len : up[n] = Merge(up[n - 1], doc(n))
  BY <1>1 DEF IsMerge
<1>3. \A n \in 1..len : doc(n) \in Documents
  OBVIOUS
<1>. HIDE DEF doc
<1>. DEFINE S == {n \in Nat : n <= len => up[n] \in Documents}
<1>4. 0 \in S
  BY <1>2
<1>5. ASSUME NEW n \in Nat, n \in S PROVE n + 1 \in S
  <2>. SUFFICES ASSUME n + 1 <= len PROVE up[n + 1] \in Documents
    OBVIOUS
  <2>1. n + 1 \in 1..len /\ (n + 1) - 1 = n /\ n <= len
    OBVIOUS
  <2>2. up[n + 1] = Merge(up[n], doc(n + 1)) /\ doc(n + 1) \in Documents /\ up[n] \in Documents
    BY <1>2, <1>3, <1>5, <2>1
  <2>3. ASSUME NEW a \in Documents, NEW b \in Documents PROVE Merge(a, b) \in Documents
    <3>1. PICK D \in SUBSET Keys, E \in SUBSET Keys : a \in [D -> Values] /\ b \in [E -> Values]
      BY DEF Documents
    <3>2. Merge(a, b) \in [(D \union E) -> Values]
      BY <3>1 DEF Merge
    <3>3. (D \union E) \in SUBSET Keys
      OBVIOUS
    <3>. QED BY <3>2, <3>3 DEF Documents
  <2>. QED BY <2>2, <2>3
<1>6. len \in S
  <2>. HIDE DEF S
  <2>. QED BY <1>4, <1>5, NatInductionOnSet
<1>. QED BY <1>1, <1>6

\* What a thread is about to install is what it read.
PendingIsBuilt ==
    /\ read = [t \in Threads |-> read[t]]
    /\ \A t \in Threads : pc[t] = "install" => value[t] = Build(read[t])

LEMMA BuiltStep == Shape /\ PendingIsBuilt /\ [Next]_vars => PendingIsBuilt'
<1> SUFFICES ASSUME Shape, PendingIsBuilt, [Next]_vars PROVE PendingIsBuilt'
  OBVIOUS
<1>1. ASSUME UNCHANGED read, \A t \in Threads : pc'[t] = "install" => pc[t] = "install" /\ value'[t] = value[t]
      PROVE  PendingIsBuilt'
  BY <1>1 DEF PendingIsBuilt
<1>2. CASE UNCHANGED vars
  BY <1>1, <1>2 DEF vars
<1>3. CASE Restart \/ \E l \in LayerNames : Change(l)
  BY <1>1, <1>3 DEF Restart, Change
<1>4. ASSUME NEW t \in Threads, ThreadNext(t) PROVE PendingIsBuilt'
  <2>1. CASE CallInit(t) \/ CallReload(t) \/ LoadFails(t) \/ Install(t)
    BY <1>1, <2>1 DEF Shape, CallInit, CallReload, Call, LoadFails, Install
  <2>2. CASE NotCached(t) \/ Snapshot(t) \/ WriteCache(t)
    BY <1>1, <2>2 DEF Shape, NotCached, Snapshot, WriteCache, Finish
  <2>3. CASE RecoverFails(t) \/ InstallRecovered(t)
    BY <1>1, <2>3 DEF Shape, RecoverFails, InstallRecovered, Finish
  <2>4. CASE LoadOk(t)
    BY <2>4 DEF Shape, PendingIsBuilt, LoadOk
  <2>5. CASE RecoverOk(t)
    BY <2>5 DEF Shape, PendingIsBuilt, RecoverOk
  <2>. QED BY <1>4, <2>1, <2>2, <2>3, <2>4, <2>5 DEF ThreadNext
<1>. QED BY <1>2, <1>3, <1>4 DEF Next

\* With any keys, values and layers: what a load is about to install has, key by
\* key, the value of the last layer that sets it, so an override always wins.
THEOREM LoadsRespectPrecedenceCorrect == Spec => []LoadsRespectPrecedence
<1>1. Init => PendingIsBuilt
  BY DEF Init, PendingIsBuilt
<1>2. LifeInv /\ PendingIsBuilt /\ [Next]_vars => PendingIsBuilt'
  BY BuiltStep DEF LifeInv
<1>3. PendingIsBuilt => LoadsRespectPrecedence
  <2>. SUFFICES ASSUME PendingIsBuilt, NEW t \in Threads, pc[t] = "install",
                       NEW i \in 1..Len(LAYERS), NEW k \in DOMAIN read[t][LAYERS[i]].doc,
                       \A j \in (i + 1)..Len(LAYERS) : k \notin DOMAIN read[t][LAYERS[j]].doc
                PROVE  value[t][k] = read[t][LAYERS[i]].doc[k]
    BY DEF LoadsRespectPrecedence
  <2>1. value[t] = MergedOver(Nothing, LAYERS, read[t])
    BY DEF PendingIsBuilt, Build
  <2>2. Len(LAYERS) \in Nat
    BY DEF LAYERS
  <2>. QED BY <2>1, <2>2, LastLayerWins
<1>. QED BY <1>1, <1>2, <1>3, LifeInvHolds, PTL DEF Spec

\* What the documents of layers, cache and merges are.
LEMMA DocumentFacts ==
  /\ Nothing \in Documents /\ Quiet \in Layer
  /\ Len(LAYERS) \in Nat /\ \A n \in 1..Len(LAYERS) : LAYERS[n] \in LayerNames
  /\ Len(RECOVERED) \in Nat /\ \A n \in 1..Len(RECOVERED) : RECOVERED[n] \in LayerNames
<1>1. Nothing \in Documents
  <2>1. Nothing \in [{} -> Values] /\ {} \in SUBSET Keys
    BY DEF Nothing
  <2>. QED BY <2>1 DEF Documents
<1>2. Quiet \in Layer
  BY <1>1 DEF Quiet, Layer
<1>3. Len(LAYERS) \in Nat /\ \A n \in 1..Len(LAYERS) : LAYERS[n] \in LayerNames
  BY DEF LAYERS, LayerNames
<1>4. Len(RECOVERED) \in Nat /\ \A n \in 1..Len(RECOVERED) : RECOVERED[n] \in LayerNames
  BY DEF RECOVERED, LayerNames
<1>. QED BY <1>1, <1>2, <1>3, <1>4

\* A load, a recovery and what is cached of either are documents.
LEMMA LoadsAreDocuments ==
  ASSUME NEW held \in [LayerNames -> Layer], NEW doc \in Documents
  PROVE  /\ Build(held) \in Documents /\ Recovered(doc, held) \in Documents
         /\ CacheDocument(doc) \in Documents
<1>1. \A l \in LayerNames : held[l].doc \in Documents
  BY DEF Layer
<1>2. Build(held) \in Documents
  BY <1>1, DocumentFacts, MergedIsDocument DEF Build
<1>3. Recovered(doc, held) \in Documents
  BY <1>1, DocumentFacts, MergedIsDocument DEF Recovered
<1>4. ASSUME NEW secrets PROVE Without(doc, secrets) \in Documents
  <2>1. PICK D \in SUBSET Keys : doc \in [D -> Values]
    BY DEF Documents
  <2>2. Without(doc, secrets) \in [(D \ secrets) -> Values] /\ (D \ secrets) \in SUBSET Keys
    BY <2>1 DEF Without
  <2>. QED BY <2>2 DEF Documents
<1>5. CacheDocument(doc) \in Documents
  BY <1>4, DocumentFacts DEF CacheDocument
<1>. QED BY <1>2, <1>3, <1>5

\* Every variable keeps its type, across changes of the layers, of the cache and
\* of the deployment.
THEOREM TypeCorrect == Spec => []TypeOK
<1>1. Init => TypeOK
  <2> SUFFICES ASSUME Init PROVE TypeOK
    OBVIOUS
  <2>1. layers \in [LayerNames -> Layer] /\ Nothing \in Documents
    BY DocumentFacts DEF Init
  <2>2. builder \in Deployment
    BY ChoicesAreLayers DEF Init
  <2>3. SourceTypeOK
    BY <2>1, <2>2 DEF Init, SourceTypeOK
  <2>4. CellTypeOK /\ ThreadTypeOK
    BY <2>1 DEF Init, CellTypeOK, ThreadTypeOK
  <2>. QED BY <2>3, <2>4 DEF Init, TypeOK
<1>2. LifeInv /\ TypeOK /\ [Next]_vars => TypeOK'
  <2> SUFFICES ASSUME LifeInv, TypeOK, [Next]_vars PROVE TypeOK'
    OBVIOUS
  <2> USE BoundsAreNaturals DEF TypeOK, CellTypeOK, SourceTypeOK, ThreadTypeOK
  <2>1. CASE UNCHANGED vars
    BY <2>1 DEF vars
  <2>2. ASSUME NEW l \in LayerNames, Change(l) PROVE TypeOK'
    <3>1. PICK held \in Layer : layers' = [layers EXCEPT ![l] = held]
      BY <2>2, ChoicesAreLayers DEF Change
    <3>. QED BY <2>2, <3>1 DEF Change
  <2>3. CASE Restart
    <3>1. layers' \in [LayerNames -> Layer]
      BY <2>3, DocumentFacts DEF Restart
    <3>2. builder' \in Deployment /\ serving' \in Documents
      BY <2>3, DocumentFacts, ChoicesAreLayers DEF Restart
    <3>3. CellTypeOK'
      BY <2>3, <3>2 DEF Restart
    <3>4. SourceTypeOK'
      BY <2>3, <3>1, <3>2 DEF Restart
    <3>5. ThreadTypeOK' /\ changes' \in Nat /\ calls' \in Nat /\ crashes' \in Nat
      BY <2>3 DEF Restart
    <3>. QED BY <3>3, <3>4, <3>5
  <2>4. ASSUME NEW t \in Threads, ThreadNext(t) PROVE TypeOK'
    <3>0. layers \in [LayerNames -> Layer] /\ value[t] \in Documents /\ disk.doc \in Documents
      OBVIOUS
    <3>1. CASE CallInit(t) \/ CallReload(t)
      <4>1. PICK what \in {"init", "reload"} : Call(t, what)
        BY <3>1 DEF CallInit, CallReload
      <4>2. /\ pc' = [pc EXCEPT ![t] = "load"] /\ op' = [op EXCEPT ![t] = what]
            /\ calls' = calls + 1
        BY <4>1 DEF Call
      <4>3. CellTypeOK' /\ SourceTypeOK'
        BY <4>1 DEF Call
      <4>4. ThreadTypeOK'
        BY <4>1, <4>2 DEF Call
      <4>5. changes' \in Nat /\ calls' \in Nat /\ crashes' \in Nat
        BY <4>1, <4>2 DEF Call
      <4>. QED BY <4>3, <4>4, <4>5
    <3>7. CASE LoadFails(t)
      <4>1. (IF op[t] = "init" THEN "recover" ELSE "idle") \in {"idle", "recover"}
        OBVIOUS
      <4>2. pc' \in [Threads -> {"idle", "load", "install", "snapshot", "write",
                                 "recover", "restore"}]
        BY <3>7, <4>1 DEF LoadFails
      <4>. QED BY <3>7, <4>2 DEF LoadFails
    <3>2. CASE LoadOk(t) \/ Snapshot(t)
      <4>1. Build(layers) \in Documents
        BY <3>0, LoadsAreDocuments
      <4>. QED BY <3>2, <4>1 DEF LoadOk, Snapshot
    <3>3. CASE Install(t) \/ InstallRecovered(t)
      BY <3>3 DEF Install, InstallRecovered, Finish
    <3>4. CASE NotCached(t) \/ RecoverFails(t)
      BY <3>4 DEF NotCached, RecoverFails, Finish
    <3>5. CASE RecoverOk(t)
      <4>1. Recovered(disk.doc, layers) \in Documents
        BY <3>0, LoadsAreDocuments
      <4>. QED BY <3>5, <4>1 DEF RecoverOk
    <3>6. CASE WriteCache(t)
      <4>1. /\ CacheDocument(value[t]) \in Documents
            /\ builder.mode \in CacheMode
        BY <3>0, <3>6, LoadsAreDocuments
        DEF Deployment, CacheMode, LifeInv, PendingMay, MayWrite, WriteCache
      <4>2. disk' \in [mode : CacheMode \union {"absent"}, doc : Documents]
        <5>1. CASE UNCHANGED disk
          BY <5>1
        <5>2. CASE ~UNCHANGED disk
          BY <3>6, <4>1, <5>2 DEF WriteCache
        <5>. QED BY <5>1, <5>2
      <4>. QED BY <3>6, <4>2 DEF WriteCache, Finish
    <3>. QED BY <2>4, <3>1, <3>2, <3>3, <3>4, <3>5, <3>6, <3>7 DEF ThreadNext
  <2>. QED BY <2>1, <2>2, <2>3, <2>4 DEF Next
<1>. QED BY <1>1, <1>2, LifeInvHolds, PTL DEF Spec

=============================================================================
