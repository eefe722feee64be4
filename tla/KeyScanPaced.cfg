SPECIFICATION SpecScan
CONSTANTS
    PRESSED_SLOTS = 4
    REPORT_KEYS = 4
    ModifierBits = {1}
    MediaBits = {}
    Characters = {}
    Texts = {}
    NUM_KEYS = 3
    HidCodes = {4, 5, 30}
    Holds <- MCHolds
    Macros <- MCMacros
    HostKeepsPace = TRUE
    Faults = FALSE
INVARIANTS
    HeldMatchesKeys
PROPERTIES
    HostFollowsKeys
    ShutdownReleases
