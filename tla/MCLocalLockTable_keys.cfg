SPECIFICATION SlotSpec
CONSTANTS
  Clients = {c1, c2, c3}
  c1 = c1 c2 = c2 c3 = c3 k1 = k1 k2 = k2
  SlotKeys = {k1, k2}
  NoKey = NoKey
  TicketMod = 4
  Programs <- MCTwoKeys
CHECK_DEADLOCK FALSE
INVARIANT WritesOwnKey
