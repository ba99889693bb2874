---------------------------- MODULE MCConfigCell ----------------------------
(***************************************************************************)
(* Small instances of ConfigCell.  Hooks, failures and tasks share no state  *)
(* but the stores': a behaviour has stores and one of the three.             *)
(***************************************************************************)
EXTENDS ConfigCell

VARIABLE part

SuiteInit == Init /\ part \in {"hooks", "failures", "tasks"}

SuiteNext ==
    /\ \/ \E w \in Writers : BeginStore(w) \/ StoreStep(w)
       \/ /\ part = "failures"
          /\ \E r \in Reporters : ReadCount(r) \/ CompareExchange(r) \/ PublishFailure(r)
       \/ /\ part = "hooks"
          /\ \E o \in Owners : AllocateToken(o) \/ Register(o) \/ Unregister(o)
       \/ /\ part = "tasks"
          /\ \E k \in Tasks :
                \/ Subscribe(k) \/ ReadCurrent(k) \/ Poll(k) \/ PollStep(k)
                \/ Cancel(k)
    /\ UNCHANGED part

SuiteSpec ==
    /\ SuiteInit /\ [][SuiteNext]_<<vars, part>>
    /\ \A w \in Writers : WF_vars(StoreStep(w))
    /\ \A k \in Tasks : WF_vars(Poll(k)) /\ WF_vars(PollStep(k))

=============================================================================
