SPECIFICATION FairSpec
CONSTANTS
  None = None
  MaxPolls = 2
  MaxFlight = 2
INVARIANT TypeOK
INVARIANT ShownWasReported
PROPERTY PageConverges
PROPERTY PollingEnds
