SPECIFICATION Spec
CONSTANTS
    PRESSED_SLOTS = 3
    REPORT_KEYS = 2
    HidCodes = {4}
    ModifierBits = {0}
    MediaBits = {4}
    Characters <- MCCharacters
    Texts <- MCShortTexts
    HostKeepsPace = FALSE
    Faults = TRUE
INVARIANTS
    HostAgrees
PROPERTIES
    ReportMirrors
