SPECIFICATION SpecScan
CONSTANTS
    PRESSED_SLOTS = 4
    REPORT_KEYS = 4
    ModifierBits = {1}
    MediaBits = {}
    Characters = {}
    Texts = {}
    NUM_KEYS = 3
    HidCodes = {4}
    Holds <- MCClashHolds
    Macros <- MCClashMacros
    HostKeepsPace = FALSE
    Faults = TRUE
INVARIANTS
    NothingStuck
