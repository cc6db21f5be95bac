SPECIFICATION MCSpec
CONSTANTS
    Txs <- SubmittedTxs
    ManagerPolicy <- Policy
    ServicePolicy <- Policy
    MaxDeliveries = 4
    MaxFailures = 1
    Names = {"tm_ship", "tm_slap"}
    Callers = {"c1", "c2"}
    Syncers = {"s1", "s2"}
    Carrier <- CarrierTopic
    Published <- EarlierAds
    Reentrant = FALSE
    MaxChanges = 2
    MaxSyncs = 3
    MaxOutages = 1
    Outpoints = {"a", "b", "c", "d", "e", "n"}
    Topics = {"t1", "t2"}
    Source <- Diamond
    NoBeef = {"n"}
    Mined = {"c"}
    Selected <- SelectedAt
    Formulas <- AskedFormulas
    MaxEdits = 2
    MaxErrors = 1
    Records <- IndexedRecords
    Queries <- AskedQueries
    MaxResults = 3
    MaxOffset = 2
INVARIANTS RegistryAndAdsAgree HistoryIsExact ProjectionFollowsAdmission AnswersTheQuestion
CHECK_DEADLOCK FALSE
