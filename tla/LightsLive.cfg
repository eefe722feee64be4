SPECIFICATION Spec
CONSTANTS
    Pictures <- MCPictures
    DefaultPng = "default"
    WidthOf <- MCWidthOf
    HeightOf <- MCHeightOf
    NoPicture = "none"
    MaxLuaCalls = 1
PROPERTIES
    ShutdownJoins
    PatternIsShown
