SPECIFICATION Spec
CONSTANTS
    Horizon = 8
    Lookback = 5
    MaxCount = 9
    Firings <- MCNoFirings
    WindowSpecs <- MCWindowSpecs
PROPERTIES
    NeverFiresNeverActivated
CHECK_DEADLOCK FALSE
