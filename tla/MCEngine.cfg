SPECIFICATION MCSpec
CONSTANTS
    w1 = w1
    w2 = w2
    None = None
    Nobody = Nobody
    NoProof = NoProof
    Callers = {"c1", "c2"}
    Topics <- TopicList
    Submitted <- ChainTxs
    Coins <- ChainCoins
    Spends <- ChainSpends
    Admits <- ChainAdmits
    SubmitMayFail = TRUE
    MaxSubmits = 2
    Handlers = {"h1", "h2"}
    Mined <- MinedTxs
    InputsOf <- MinedInputs
    ConsumedBy <- MinedConsumers
    Heights = {1, 2}
    Branches = {1, 2}
    HandlerMayFail = TRUE
    MaxProofs = 3
    MaxReorgs = 2
    Peers = {"p1"}
    Self = "self"
    Sessions = {"s1", "s2"}
    Outputs = {1, 2, 3}
    PeerTxs <- TwoPeerTxs
    Answers <- LookupAnswers
    Topic = "tm_ship"
    Limit = 2
    Concurrency = 1
    MaxClock = 2
    Txs <- LineTxs
    Outpoints <- LineOutpoints
    TxOf <- LineTxOf
    Inputs <- LineInputs
    Topical <- LineInputs
    Proven = {"origin"}
    Roots = {"o0", "p0", "c0"}
    PeerHolds <- LineOutpoints
    Slots = {w1, w2}
    QueueCap = 1
    MaxCalls = 3
    Limits <- GraphLimits
SYMMETRY Symmetry
INVARIANTS
    SubmitsAreWhole
    ProofsAreOwn
    QuietWritesAgree
    LossIsExplained
    TraversalsAreSound
PROPERTY InputsFirst
CHECK_DEADLOCK FALSE
