\* One player's inventory events: hold changes in and out of range, creative
\* puts into free slots, and drops.
CONSTANTS
  Slots <- MCSlots
  ItemIds <- MCItemIds
  Counts <- MCCounts
  InitialSlot = 0
  MaxStacks = 3

SPECIFICATION Spec

INVARIANT TypeOK
INVARIANT ClientViewMatches
INVARIANT StoredStacksLive
