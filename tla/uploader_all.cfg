SPECIFICATION FairSpec
CONSTANTS
    f1 = f1
    f2 = f2
    Files = {f1, f2}
    MaxPicks = 2
    MaxChoices = 3
    MaxCount = 2
    None = None
    Retrying = TRUE
INVARIANTS TypeOK NothingLost StoredAsChosen
PROPERTIES CompletedWithPhotos ChosenIsSent
CHECK_DEADLOCK FALSE
