SPECIFICATION FairSpec
CONSTANTS
    MaxSignals = 3
    Units = 3
INVARIANT ScreenIsKept
PROPERTY StopIsObeyed
