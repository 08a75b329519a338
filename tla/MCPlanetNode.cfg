SPECIFICATION NodeSpec
CONSTANTS
    Flags <- MCFlags
    BaseUsers <- MCUsers
    Dirs <- MCDirs
    Left <- MCLeft
    Commands <- MCCommands
    Numbers <- MCNumbers
    Devices = {sda}
    Faults = {}
    Buffer = 3
    MaxPolls = 1
    MaxEvents = 3
INVARIANTS
    NodeTypeOK ConfigApplied  NothingLeftRunning
PROPERTIES
    EntersRunning CommandsReturn  DevicesFollow
CHECK_DEADLOCK FALSE
