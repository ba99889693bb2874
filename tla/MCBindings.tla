----------------------------- MODULE MCBindings -----------------------------
(***************************************************************************)
(* The bindings, one part to a behaviour: publishing what the engine         *)
(* installed, and Python's stores.                                           *)
(***************************************************************************)
EXTENDS Bindings, PythonStores

VARIABLE part

suiteVars == <<part, bindingVars, pythonVars>>

SuiteInit ==
    /\ part \in {"publish", "stores"}
    /\ IF part = "publish" THEN BindingsInit
       ELSE /\ runtime = "node" /\ edit = 1 /\ bad = {} /\ installs = <<>>
            /\ staged = <<>> /\ next_sequence = 0 /\ last_committed = 0
            /\ cache = NoModel /\ generation = 0 /\ replaced = 0
            /\ thread = [t \in Threads |-> AtRest]
            /\ calls = 0
    /\ IF part = "stores" THEN PythonInit
       ELSE /\ kept = [store |-> "consul", kind |-> "anonymous"]
            /\ rotation = 1 /\ built = NoClient /\ lock = NoThread
            /\ slot = NoKeys /\ reading = NoThread
            /\ installed = TRUE /\ failure = NoThread
            /\ refresher = [t \in Refreshers |-> Resting]
            /\ refreshes = 0

SuiteNext ==
    \/ /\ part = "publish" /\ BindingsNext
       /\ UNCHANGED <<part, pythonVars>>
    \/ /\ part = "stores" /\ PythonNext
       /\ UNCHANGED <<part, bindingVars>>

SuiteSpec == SuiteInit /\ [][SuiteNext]_suiteVars

=============================================================================
