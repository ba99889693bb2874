---------------------------- MODULE MCLifecycle -----------------------------
(***************************************************************************)
(* The lifecycle and the writing of files, one to a behaviour.               *)
(*                                                                         *)
(* Small instances of Lifecycle: a plain key and a secret one, a file that   *)
(* may be good, changed, refused by validate or unreadable, an environment   *)
(* that supplies the secret, and a runtime override.                         *)
(***************************************************************************)
EXTENDS Lifecycle, AtomicWrite, TLC

CONSTANT Parts      \* of "lifecycle" and "write"

VARIABLE part

host == "host"
password == "password"
MCKeys == {host, password}

Holds(doc) == [ok |-> TRUE, doc |-> doc]
Unreadable == [ok |-> FALSE, doc |-> Nothing]
Complete(v) == Holds([k \in MCKeys |-> v])
Secret(v) == Holds([k \in {password} |-> v])
Host(v) == Holds([k \in {host} |-> v])

\* Good files and a refused one; layers above it that set the same
\* keys: the environment and a runtime override.
LayeredChoices ==
    [l \in LayerNames |->
        CASE l = "file" -> {Complete(1), Complete(3), Unreadable}
          [] l = "environment" -> {Secret(2)}
          [] l = "override" -> {Host(2)}
          [] OTHER -> {}]

\* Files and a runtime override.
OverrideChoices ==
    [l \in LayerNames |->
        CASE l = "file" -> {Complete(1), Unreadable}
          [] l = "override" -> {Host(2), Quiet}
          [] OTHER -> {}]

FullOnly == {[mode |-> "Full", declared |-> TRUE]}
EveryDeployment == Deployment

Symmetric == Permutations(Threads)

-----------------------------------------------------------------------------
SuiteInit ==
    /\ part \in Parts
    /\ Init /\ (part = "write" => builder = CHOOSE d \in Deployments : TRUE)
    /\ WriteInit /\ (part = "lifecycle" => entry[Target] = NoFile)

SuiteNext ==
    \/ part = "lifecycle" /\ Next /\ UNCHANGED <<part, writeVars>>
    \/ part = "write" /\ WriteNext /\ UNCHANGED <<part, vars>>

SuiteSpec == SuiteInit /\ [][SuiteNext]_<<part, vars, writeVars>>

=============================================================================
