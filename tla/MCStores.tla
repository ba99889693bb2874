------------------------------ MODULE MCStores ------------------------------
(***************************************************************************)
(* The store crates, one question at a time: stage says which part of them  *)
(* a behaviour is about, and the other parts are at rest in it.             *)
(***************************************************************************)
EXTENDS StoreWatch, Credential, Documents, Material, GitWorking

VARIABLE stage

InitialContents == <<"a", "b">>

\* Trees of up to two leaves, on paths that meet in every way two can.
Paths == {<<"a">>, <<"a", "b">>, <<"a", "c">>}
PathSets == {d \in SUBSET Paths : \A p, q \in d : ~Under(p, q)} \ {{}}
SmallTexts == UNION {[d -> {<<"1">>, EmptyTable}] : d \in PathSets}
                  \union {Garbage}

Blob(size) == [kind |-> "blob", size |-> size]
SmallTrees == {<<Blob(2), Blob(1)>>, <<Blob(2), Blob(2)>>,
               <<[kind |-> "link", size |-> 1]>>}

\* Parts at rest.
NoWatch ==
    /\ source = [store |-> "s3", shape |-> "several", format |-> TRUE,
                 capable |-> TRUE]
    /\ hist = <<[k \in MyKeys |-> Initial[k]]>>
    /\ index = 1 /\ up = TRUE /\ token = TRUE /\ faults = 0
    /\ handle = "held" /\ pc = "ended"
    /\ w = NewWatch /\ names = Unlisted /\ part = NothingRead /\ doc = NoDoc
    /\ base = 0 /\ fetched = NothingRead /\ told = NoDoc
    /\ failing = FALSE /\ why = "refused" /\ late = 0 /\ skipped = FALSE

NoCalls ==
    /\ CredentialInit
    /\ auth = [at |-> "consul", kind |-> "anonymous"] /\ allowed

NoMaterial ==
    /\ MaterialInit
    /\ given = [at |-> "consul", tls |-> [ca |-> "none", client |-> "none"],
                secure |-> FALSE, agent |-> FALSE, picky |-> TRUE]
    /\ disk.pem = "missing"

NoGit == GitInit /\ ~foreign /\ branch = <<CHOOSE t \in Trees : TRUE>>

MCInit ==
    \/ /\ stage = "watch" /\ StoreWatchInit
       /\ NoCalls /\ texts = <<>> /\ NoMaterial /\ NoGit
    \/ /\ stage = "credential" /\ CredentialInit
       /\ NoWatch /\ texts = <<>> /\ NoMaterial /\ NoGit
    \/ /\ stage = "documents" /\ DocumentsInit
       /\ NoWatch /\ NoCalls /\ NoMaterial /\ NoGit
    \/ /\ stage = "material" /\ MaterialInit
       /\ NoWatch /\ NoCalls /\ texts = <<>> /\ NoGit
    \/ /\ stage = "git" /\ GitInit
       /\ NoWatch /\ NoCalls /\ texts = <<>> /\ NoMaterial

MCWatch == stage = "watch" /\ StoreWatchNext
           /\ UNCHANGED <<stage, credentialVars, texts, materialVars, gitVars>>
MCCredential == stage = "credential" /\ CredentialNext
                /\ UNCHANGED <<stage, watchVars, texts, materialVars, gitVars>>
MCMaterial == stage = "material" /\ MaterialNext
              /\ UNCHANGED <<stage, watchVars, credentialVars, texts, gitVars>>
MCGit == stage = "git" /\ GitNext
         /\ UNCHANGED <<stage, watchVars, credentialVars, texts, materialVars>>

MCNext == MCWatch \/ MCCredential \/ MCMaterial \/ MCGit

MCSpec ==
    /\ MCInit
    /\ [][MCNext]_<<stage, watchVars, credentialVars, texts, materialVars,
                    gitVars>>
    /\ WF_watchVars(WatcherNext)
=============================================================================
