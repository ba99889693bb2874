------------------------------ MODULE MCRemote ------------------------------
(* Small instances of Remote.  Threads of one role are interchangeable. *)
EXTENDS Remote, TLC

Symmetric == Permutations(Fetchers) \union Permutations(Sinks)

=============================================================================
