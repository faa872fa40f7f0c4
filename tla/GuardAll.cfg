SPECIFICATION Spec
CONSTANTS
    Leverages = {0, 4, 9, 10, 20}
    Margins = {9, 59, 60, 150}
    Amounts = {500}
    MaxFigures = 2
    Modes = {"demo_scenario", "live_read_only", "unknown"}
    None = None
INVARIANTS TypeOK UnknownIsNotSafe HardLimitsHold NeverStricterForLess ProposalHelps
CHECK_DEADLOCK FALSE
