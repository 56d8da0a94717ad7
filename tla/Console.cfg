CONSTANTS
    Width = 2
    Height = 3
    Tab = 2
    Byte = 7
    Keys = {"letter", "newline", "tab", "backspace", "null"}
    ExtKeys = {"newline", "null"}
    TypeAhead = 3
    Leftovers = {{}, {6, 7, 8, 9, 10, 11, 12, 13}}
SPECIFICATION Spec
INVARIANTS CursorOnScreen
PROPERTIES BackspaceUndoes WritesNearScreen
