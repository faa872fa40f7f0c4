SPECIFICATION Spec
CONSTANTS
    Wallets <- MCWallets
    Configs <- MCConfigs
    Fixtures <- MCFixtures
    Candidates <- MCCandidates
    MaxPages = 2
    MaxSteps = 10
    None = None
    usdc = usdc
    meth = meth
    a1 = a1
    a2 = a2
    a3 = a3
    t1 = t1
    t2 = t2
    row = row
INVARIANTS TypeOK GapIsNotSafe CoverageIsHonest MaliciousPauses
           HighIsActedOn FindingsNeverHelp NothingIsRefused
           EvidenceHasItsRow ExplanationIsGrounded
CHECK_DEADLOCK FALSE
