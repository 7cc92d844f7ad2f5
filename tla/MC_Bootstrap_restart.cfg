\* The supervisor starts the four processes in any order and restarts them;
\* two ends, SIGINT or not: does every process serve again?
CONSTANTS
    MaxStops = 2
SPECIFICATION Spec
PROPERTY Recovers
\* A host whose processes are all down behind stale socket files has no
\* step left; Recovers is the property that reports it.
CHECK_DEADLOCK FALSE
