SPECIFICATION Spec
CONSTANTS
    Absent = Absent
    Torn = Torn
    MaxRuns = 2
    Faults = {"group", "user", "member", "data", "tls", "sudoers", "prove", "clear", "keep", "binary", "cert", "key", "vhost", "check", "unit", "reloadUnit", "reloadProxy", "enable", "restart", "wait", "confirm", "removeVhost", "forgetVhost", "disable", "removeUnit", "forgetUnit", "removeSudoers", "removeBinary", "removePrevious", "removeTls", "removeUser", "removeGroup", "removeData", "kill"}
    UndoFaults = {"service", "unit", "vhost"}
    Halves = {"user", "data", "tls", "cert", "key", "unit", "enable"}
CHECK_DEADLOCK FALSE
INVARIANTS FilesAreRestored InstalledIsRunning NginxCanStart RerunCompletes NothingRemains
PROPERTIES DatabaseIsKept
