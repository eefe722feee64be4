SPECIFICATION Spec
CONSTANTS
    Pictures <- MCPictures
    DefaultPng = "default"
    WidthOf <- MCWidthOf
    HeightOf <- MCHeightOf
    NoPicture = "none"
    MaxLuaCalls = 2
INVARIANTS
    
    RowInBounds
    FrameCoherent
    SetupLightsStick
    AtMostOneStaleFrame
