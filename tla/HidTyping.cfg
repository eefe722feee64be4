SPECIFICATION SpecTyping
CONSTANTS
    PRESSED_SLOTS = 4
    REPORT_KEYS = 3
    HidCodes = {4}
    ModifierBits = {1}
    MediaBits = {}
    Characters <- MCCharacters
    Texts <- MCTexts
    HostKeepsPace = TRUE
    Faults = FALSE
    MaxTyped = 6
INVARIANTS
    TypedInOrder
PROPERTIES
    AllIsTyped
