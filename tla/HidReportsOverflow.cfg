SPECIFICATION FirmwareSpec
CONSTANTS
    PRESSED_SLOTS = 2
    REPORT_KEYS = 1
    HidCodes = {4, 5, 6}
    ModifierBits = {}
    MediaBits = {}
    Characters <- MCCharacters
    Texts <- MCTexts
    HostKeepsPace = FALSE
    Faults = FALSE
INVARIANTS
    TextRestores
PROPERTIES
    CallsReturn
