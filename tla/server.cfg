SPECIFICATION FairSpec
CONSTANTS
  MaxAccepts = 2
  MaxRequests = 1
CHECK_DEADLOCK FALSE
INVARIANTS
  TypeOK
  NeverEarlier
  FinishesOnlyContinued
PROPERTIES
  HangsUpOnTheLeft
  SignalEnds
  DescriptorReturned
  WindsDown
