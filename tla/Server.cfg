SPECIFICATION FairSpec
CONSTANT MaxCmdId = 3
\* Without requests of pages the server is idle.
CHECK_DEADLOCK FALSE
INVARIANT EntriesTimed
PROPERTY OneVerdict
PROPERTY RequestAnswered
