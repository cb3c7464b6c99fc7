CONSTANTS
    Widths <- MCWidths
    Heights <- MCHeights
    FirstWindow <- MCFirstWindow
    Controls <- MCControls
    Offset <- MCOffset
    PanelHeight <- MCPanelHeight
    MaxDepth = 4
SPECIFICATION Spec
INVARIANT
    SmallWindowHidesPanel
CHECK_DEADLOCK FALSE
