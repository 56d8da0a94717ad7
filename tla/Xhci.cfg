CONSTANTS
    XHCI_MAX_COMMANDS = 4
    XHCI_MAX_EVENTS = 4
    Commands <- MCCommands
    Ports <- MCPorts
SPECIFICATION Spec
INVARIANTS CommandsInOrder
PROPERTIES ImplementsEventQueue CommandsComplete
CHECK_DEADLOCK FALSE
