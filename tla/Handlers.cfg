CONSTANTS
    Widths <- MCWidths
    Heights <- MCHeights
    FirstWindow <- MCFirstWindow
    Controls <- MCControls
    Offset <- MCOffset
    PanelHeight <- MCPanelHeight
    MaxDepth = 4
    NRows = 2
    NCols = 2
    Pixels <- MCPixels
    World <- MCWorld
    MaxPan = 1
    MaxZoom = 1
SPECIFICATION HandlersSpec
INVARIANTS
    AreaFitsWindow
    OneNestedCall
    CursorInMatrix
    DragNeedsButton
    GripKept
PROPERTY
    EventsEnd
CHECK_DEADLOCK FALSE
