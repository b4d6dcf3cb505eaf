SPECIFICATION FairSpec
CONSTANTS
  Capacity = 3
  MaxPush = 7
INVARIANTS TypeOK Occupancy LoadSeesOwnElement IInv PopsInOrder
PROPERTIES IsBoundedFifo EveryPushPopped
