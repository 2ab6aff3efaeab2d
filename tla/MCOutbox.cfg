CONSTANTS
  m1 = m1
  m2 = m2
  Messages = {m1, m2}
  Numberings <- MCNumberings
  MaxRetries = 1
  MaxRelaunches = 1
  MaxRefusals = 1
  Faulty = {m2}
SPECIFICATION MCSpec
CHECK_DEADLOCK FALSE
INVARIANTS OneInFlight SentIsAcceptedAndSaved SpinnerHasOwner QueuedMeansOffline
PROPERTIES ImplementsDelivery TransmittedOnce SendingEnds
