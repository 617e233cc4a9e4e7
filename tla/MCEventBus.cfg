SPECIFICATION LiveSpec
CONSTANTS
  t1 = t1
  t2 = t2
  None = none
  N = 3
  Tasks <- MCTwoTasks
  Cap = 2
  MaxSent = 2
INVARIANTS TypeOK OneOwner SourceOrder StartedBeforeMessages
PROPERTIES Broadcasts AcceptedIsDelivered PushEnds
