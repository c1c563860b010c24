SPECIFICATION Spec
CHECK_DEADLOCK FALSE
CONSTANTS
  Senders = {s1, s2}
  Receivers = {r1, r2}
  Capacity = 2
  Items = {x1, x2, x3}
  NoItem = NoItem
  MaxPos = 5
INVARIANTS
  TypeOK
  AcceptedItemsStored
  ReceivedOnce
  SlotOwned
