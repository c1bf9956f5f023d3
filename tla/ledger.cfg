\* Two replicas seed the chart and post the entries of a day; anything may fail.
SPECIFICATION FairSpec
CONSTANTS
    Replicas = {p1, p2}
    Codes = {1, 2, 3, 4, 5}
    Class <- StandardClass
    Journals <- DailyJournals
    Faulty = TRUE
INVARIANTS
    TypeOK
    AccountingIdentity
    PostedOnce
PROPERTIES
    EveryReplicaComesUp
