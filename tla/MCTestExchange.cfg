SPECIFICATION ExchangeSpec
CONSTANTS
    OptionSets <- MCOptionSets
    Listeners <- MCListeners
INVARIANTS OrderFree SameTest HeaderCovers AckMatched
CHECK_DEADLOCK FALSE
