------------------------------ MODULE MCServer ------------------------------
(***************************************************************************)
(* The server's process and, in behaviours of one state each, every         *)
(* configuration of Admission.                                              *)
(***************************************************************************)
EXTENDS Server, Admission

VARIABLE part

\* No configuration at all.
Resting == [roster |-> [PlainRoster EXCEPT !.sections = <<>>],
            network |-> PlainNetwork]

MCInit ==
    \/ /\ part = "process" /\ config = Resting
       /\ ServerInit
       /\ present \in {Peers, {CHOOSE p \in Peers : TRUE}}
    \/ /\ part = "admission" /\ AdmissionInit
       /\ ServerInit /\ ~tls /\ present = {}

MCNext == part = "process" /\ ServerNext /\ UNCHANGED <<part, config>>

MCSpec ==
    /\ MCInit
    /\ [][MCNext]_<<serverVars, part, config>>
    /\ ServerFairness
=============================================================================
