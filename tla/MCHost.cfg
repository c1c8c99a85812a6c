SPECIFICATION HostFairSpec
CONSTANTS
    MaxSignals = 1
    SourceLists <- MCSourceLists
    Logs <- MCLogs
    Disk <- MCDisk
    Engines = {"MSSQLSERVER", "MSSQL$B"}
    Since = 1
    Cap = 1
    TailBytes = 2
    Budget = 2
    StepFiles = 2
    Steps = 2
INVARIANT HostKeepsItsWord
INVARIANT WhatIsReadIsTold
PROPERTY HostReturns
CHECK_DEADLOCK FALSE
