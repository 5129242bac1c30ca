CONSTANTS
  MaxSeq = 1
  Length = 1
  Repeated = {}
  Deliveries <- MCDeliveries
SPECIFICATION FairSpec
PROPERTY PopAudioReturns
CHECK_DEADLOCK FALSE
