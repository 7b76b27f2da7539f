CONSTANTS
    a = a
    b = b
    c = c
    u = u
    v = v
    i = i
    Accounts = {a, b, c}
    FirstSigners <- MCFirstSigners
    Actions <- MCActions
    Expiration = 1
    MaxProposals = 2
    MaxTime = 2
    None = None
    Users = {u, v}
    Hashes = {h1, h2}
    DefaultTimelock = 2
    Durations = {0, 1}
    VotingPeriod = 1
    Implementations = {i, j}
    Versions = {2}
    Councils <- MCCouncils
    MaxMotions = 2
    MaxUpgrades = 2
SPECIFICATION MCSpec
INVARIANTS TypesOK OutcomeIsTheVote
PROPERTIES ThresholdInReach RunsWhatWasAgreed OnlyByAgreement UpgradeAsScheduled
CHECK_DEADLOCK FALSE
