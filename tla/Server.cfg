\* The configuration server: streams, documents, shutdown, restart, admission.
CONSTANTS
    Peers = {p1, p2}
    max_streams = 1
    MaxBusy = 3
    MaxLives = 2
    MaxLosses = 1
    Applications = {"a", "b"}
    Unroutable = "../x"
    ClientNames = {"n1", "n2"}
    Tokens = {"t1", "t2"}
    Weak = "short"
    MaxSections = 2
    MaxClients = 2
SPECIFICATION MCSpec
CHECK_DEADLOCK FALSE
INVARIANTS CeilingHolds LabelNeverLeads AnswersFollowGrants
PROPERTIES SubscribersCatchUp ShutdownEnds
