SPECIFICATION FairSpec
CONSTANTS
  Senders = {s1, s2}
  Receivers = {r1}
  Capacity = 2
  Items = {x1, x2}
  NoItem = NoItem
  MaxPos = 100
PROPERTIES
  AcceptedItemsReceived
