CONSTANTS
    Off = Off
    MaxPubs = 2
    MaxResult = 2
    MaxReads = 2
    MaxGestures = 2
    MaxFaults = 1
    Burst = 1
    Stale = 1
    Grace = 1
    Hide = 1
SPECIFICATION MCSpec
INVARIANTS NewestIsIngested NothingUnseenHidden
PROPERTIES ReadsNeverRegress NothingUnseenConsumed BoardGoesOffline HiddenCardsReturn
