\* Every client call and mode, two addresses, one alias, lost waits, and
\* one ExecContainer of every kind alongside.
CONSTANTS
    MaxAddr = 2
    a1 = a1
    AliasNames <- MCAliasNames
    LostWait = TRUE
SPECIFICATION ClientSpec
\* The client makes one call and one exec; once they and their goroutines
\* have returned and the servers have finished, nothing is left to happen
\* (a session whose sockets were not all connected is never finished).
CHECK_DEADLOCK FALSE
INVARIANTS
    TypeOK
    ReportedOutcomeSound
    ExecDataDoneAfterOutput
PROPERTIES
    RemoteOpCompletes
    ExecDataDoneEventually
