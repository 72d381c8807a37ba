SPECIFICATION Spec
CONSTANTS
    Horizon = 8
    Lookback = 5
    MaxCount = 9
    Firings <- MCFirings
    WindowSpecs <- MCWindowSpecs
INVARIANTS
    SearchIsExact
    DueWindowIsOpen
    OpenWindowIsDue
PROPERTIES
    OncePerWindow
CHECK_DEADLOCK FALSE
