SPECIFICATION Spec
CONSTANTS
    PRESSED_SLOTS = 4
    REPORT_KEYS = 3
    HidCodes = {4, 5}
    ModifierBits = {1}
    MediaBits = {4}
    Characters <- MCCharacters
    Texts <- MCTexts
    HostKeepsPace = TRUE
    Faults = FALSE
INVARIANTS
    OneSlotPerKey
    EveryHeldKeyReported
    ClosedReleasesKeys
PROPERTIES
    HostCatchesUp
