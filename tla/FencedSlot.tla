----------------------------- MODULE FencedSlot -----------------------------
(***************************************************************************)
(* What the remote slot of one configuration type promises, with no         *)
(* fetches, sinks or threads: the slot holds at most one document, and only *)
(* one that the present owner produced.  Replacing the owner or clearing    *)
(* the slot empties it in the same step.  A document that was asked for     *)
(* (a fetch) is accepted only in the epoch in which it was asked for; a     *)
(* document that was pushed only has to come from the owner.                *)
(***************************************************************************)
EXTENDS Naturals

VARIABLES
    owner,  \* how often the source has been replaced: the source's identity
    epoch,  \* how often the slot has been cleared
    doc     \* the document held, or Empty

Empty == [via |-> "nobody", gen |-> 0, epoch |-> 0]
Documents == [via : {"fetch", "push"}, gen : Nat, epoch : Nat]

Init == owner = 0 /\ epoch = 0 /\ doc = Empty

Replace == owner' = owner + 1 /\ doc' = Empty /\ UNCHANGED epoch

Clear == epoch' = epoch + 1 /\ doc' = Empty /\ UNCHANGED owner

Accept ==
    /\ doc' \in Documents
    /\ doc'.gen = owner
    /\ doc'.via = "fetch" => doc'.epoch = epoch
    /\ UNCHANGED <<owner, epoch>>

Next == Replace \/ Clear \/ Accept

Spec == Init /\ [][Next]_<<owner, epoch, doc>>

=============================================================================
