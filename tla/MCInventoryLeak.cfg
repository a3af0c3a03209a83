\* Creative puts into occupied slots: CD_MapPut hands back the stack it
\* replaced, and inventoryCreative drops it.
CONSTANTS
  Slots <- MCSlots
  ItemIds <- MCItemIds
  Counts <- MCCounts
  InitialSlot = 0
  MaxStacks = 3

SPECIFICATION Spec

INVARIANT NoLeak
