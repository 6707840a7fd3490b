SPECIFICATION FairSpec
CONSTANTS
  Kinds = {blink, success, failure}
  BlinkRed = blink
  blink = blink
  success = success
  failure = failure
  LED_QUEUE_SIZE = 4
INVARIANT SleepsOnlyIdle
INVARIANT OneWorker
PROPERTY KeepsPromise
PROPERTY QueueServed
PROPERTY ShutdownReturns
