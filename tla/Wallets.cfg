CONSTANTS
    funder = funder
    fund = fund
    Funder = funder
    Command = fund
    NoVU = NoVU
    Outside = Outside
    Wallets = {funder}
    VUs = {fund}
    Passwords = {"secret", "other"}
    NoPassword = ""
    GapPolicy = "queue"
    MaxExternal = 1
    LostReplies = TRUE
    Count = 2
    MaxGenerates = 2
    MaxFunds = 2
SPECIFICATION FairSpec
CHECK_DEADLOCK FALSE
INVARIANTS LoadedWasSaved ExitMeansFunded NonceIsNext
PROPERTIES FundReturns
