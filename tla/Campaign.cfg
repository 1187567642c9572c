\* All three contracts, with every goal, cap and ceiling a few steps away.
SPECIFICATION Spec
CONSTANTS
    BareGoal = 2
    SeedGoal = 2
    RebirthGoal = 2
    StartPlots = 1
    LandMax = 2
    LeanMax = 1
    ZonePlots = 1
    MaxScarecrows = 1
    UnlockRebirths <- ScarecrowGates
    UpgradeLevels = 1
    BaseRebirths = 1
    BaseEarnings = 1
    MinEarnings = 1
    Divisor = 1
    Payouts = {1}
    MaxCoin = 3
    MaxRebirths = 4
VIEW LiveParts
INVARIANT
    CampaignInv
PROPERTIES
    SealsAreEarned
    ProgressIsKept
    RebirthPaysPreview
    ImplementsFarmSeen
