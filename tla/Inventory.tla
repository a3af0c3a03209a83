------------------------------ MODULE Inventory ------------------------------
(***************************************************************************)
(* The inventory callbacks of the survival plugin                           *)
(* (src/plugins/survival/base/inventory.c) for one player: Player.holdChange,*)
(* Player.inventoryCreative and Player.dropItem.  The events of one         *)
(* connection are handled one at a time, in order (spec.md 5), so each     *)
(* callback is one action.  player->inventory is a ConcurrentMap from slot *)
(* to an SVItemStack on the heap; get, put and delete behave as spec.md    *)
(* 4.3 says (Map.c is not in this tree): put returns the stack it replaced *)
(* and frees nothing.  CD_EventDispatch runs the callbacks of an event     *)
(* before it returns, so the hold change dropItem dispatches is part of    *)
(* the drop.                                                               *)
(*                                                                         *)
(* The client keeps its own view of its inventory: it changes a slot when  *)
(* it puts a stack there in creative mode, and when it receives a SetSlot  *)
(* packet for it.                                                          *)
(***************************************************************************)
EXTENDS Integers, Sequences, FiniteSets, Functions, TLC

CONSTANTS
  Slots,        \* the slot numbers clients use
  ItemIds,      \* item ids
  Counts,       \* stack counts a client may send (an SVByte)
  InitialSlot,  \* player->currentSlot when the player is created
  MaxStacks     \* bound on the stacks allocated

ASSUME /\ InitialSlot \in Int /\ MaxStacks \in Nat

VARIABLES
  inventory,    \* slot -> the stack object stored there, for the slots in the map
  heap,         \* stack object -> [id, count] for every stack allocated
  freed,        \* the stacks CD_free'd (their memory still reads as it was)
  allocated,    \* the number of stacks CD_malloc'd so far (the next object's name)
  currentSlot,  \* player->currentSlot
  equipment,    \* the item id last broadcast as held (EntityEquipment)
  view          \* slot -> what the client believes it holds there

vars == <<inventory, heap, freed, allocated, currentSlot, equipment, view>>

\* The not-found sentinel of a map lookup and the item id of an empty slot.
NotFound == 0
Empty == -1

\* CD_MapGet(player->inventory, slot).
MapGet(slot) == IF slot \in DOMAIN inventory THEN inventory[slot] ELSE NotFound

\* A stack as the client sees it.
Seen(id, count) == [id |-> id, count |-> count]
Nothing == Seen(Empty, 0)

\* What the server holds in a slot, as a SetSlot packet would show it.
Held(slot) ==
  IF slot \in DOMAIN inventory THEN Seen(heap[inventory[slot]].id, heap[inventory[slot]].count)
  ELSE Nothing

\* Mutation of HoldChangeEffect: the range check on slot left out.
HoldChangeEffectNoRangeCheck(slot, inv, hp) ==
  /\ currentSlot' = slot + 36
  /\ equipment' = IF slot + 36 \in DOMAIN inv THEN hp[inv[slot + 36]].id ELSE Empty

\* The body of cdsurvival_PlayerHoldChange(slot), on the values of the
\* inventory and current slot after the caller's own changes: slots outside
\* 0..8 are ignored; otherwise the held slot becomes slot + 36 and the item
\* held there is broadcast to the region.
HoldChangeEffect(slot, inv, hp) ==
  IF slot < 0 \/ slot > 8
  THEN /\ currentSlot' = currentSlot
       /\ equipment' = equipment
  ELSE /\ currentSlot' = slot + 36
       /\ equipment' = IF slot + 36 \in DOMAIN inv THEN hp[inv[slot + 36]].id ELSE Empty

Init ==
  /\ inventory = <<>>
  /\ heap = <<>>
  /\ freed = {}
  /\ allocated = 0
  /\ currentSlot = InitialSlot
  /\ equipment = Empty
  /\ view = [s \in Slots |-> Nothing]

\* Player.holdChange with the slot number the client sent (an SVShort).
PlayerHoldChange(slot) ==
  /\ HoldChangeEffect(slot, inventory, heap)
  /\ UNCHANGED <<inventory, heap, freed, allocated, view>>

\* Player.inventoryCreative: the client put a stack in a slot (slot -1:
\* none).  A copy is CD_malloc'd and put in the map; CD_MapPut's result, the
\* stack it replaced, is discarded.
PlayerInventoryCreative(slot, id, count) ==
  /\ IF slot > -1
     THEN LET copy == allocated + 1
          IN  /\ allocated < MaxStacks
              /\ allocated' = copy
              /\ heap' = heap @@ (copy :> [id |-> id, count |-> count])
              /\ inventory' = (slot :> copy) @@ inventory
              /\ view' = [view EXCEPT ![slot] = Seen(id, count)]
     ELSE UNCHANGED <<allocated, heap, inventory, view>>
  /\ UNCHANGED <<freed, currentSlot, equipment>>

\* Mutation of PlayerDropItem: the SetSlot packet carries the count before
\* the decrement.
PlayerDropItemOldCount ==
  LET current == MapGet(currentSlot)
      left    == IF current # NotFound THEN heap[current].count - 1 ELSE 0
      emptied == current # NotFound /\ left <= 0
      inv     == IF emptied THEN [s \in DOMAIN inventory \ {currentSlot} |-> inventory[s]]
                 ELSE inventory
      hp      == IF current # NotFound THEN [heap EXCEPT ![current].count = left] ELSE heap
  IN  /\ inventory' = inv
      /\ heap' = hp
      /\ freed' = IF emptied THEN freed \cup {current} ELSE freed
      /\ view' = IF current # NotFound /\ currentSlot \in Slots
                 THEN [view EXCEPT ![currentSlot] =
                         IF emptied THEN Nothing ELSE Seen(heap[current].id, heap[current].count)]
                 ELSE view
      /\ HoldChangeEffect(currentSlot - 36, inv, hp)
      /\ UNCHANGED allocated

\* Mutation of PlayerDropItem: the emptied stack is freed but left in the map.
PlayerDropItemNoDelete ==
  LET current == MapGet(currentSlot)
      left    == IF current # NotFound THEN heap[current].count - 1 ELSE 0
      emptied == current # NotFound /\ left <= 0
      inv     == inventory
      hp      == IF current # NotFound THEN [heap EXCEPT ![current].count = left] ELSE heap
  IN  /\ inventory' = inv
      /\ heap' = hp
      /\ freed' = IF emptied THEN freed \cup {current} ELSE freed
      /\ view' = IF current # NotFound /\ currentSlot \in Slots
                 THEN [view EXCEPT ![currentSlot] =
                         IF emptied THEN Nothing ELSE Seen(heap[current].id, left)]
                 ELSE view
      /\ HoldChangeEffect(currentSlot - 36, inv, hp)
      /\ UNCHANGED allocated

\* Player.dropItem: the held stack loses one item; the client is sent a
\* SetSlot packet with the new count, or, when none is left, the stack is
\* deleted from the map and freed and the packet carries id -1.  Then
\* Player.holdChange is dispatched with currentSlot - 36.
PlayerDropItem ==
  LET current == MapGet(currentSlot)
      left    == IF current # NotFound THEN heap[current].count - 1 ELSE 0
      emptied == current # NotFound /\ left <= 0
      inv     == IF emptied THEN [s \in DOMAIN inventory \ {currentSlot} |-> inventory[s]]
                 ELSE inventory
      hp      == IF current # NotFound THEN [heap EXCEPT ![current].count = left] ELSE heap
  IN  /\ inventory' = inv
      /\ heap' = hp
      /\ freed' = IF emptied THEN freed \cup {current} ELSE freed
      /\ view' = IF current # NotFound /\ currentSlot \in Slots
                 THEN [view EXCEPT ![currentSlot] =
                         IF emptied THEN Nothing ELSE Seen(heap[current].id, left)]
                 ELSE view
      /\ HoldChangeEffect(currentSlot - 36, inv, hp)
      /\ UNCHANGED allocated

Next ==
  \/ \E slot \in {s - 36 : s \in Slots} \cup {-1, 9} : PlayerHoldChange(slot)
  \/ \E slot \in Slots \cup {-1}, id \in ItemIds, count \in Counts :
       PlayerInventoryCreative(slot, id, count)
  \/ PlayerDropItem

Spec == Init /\ [][Next]_vars

-----------------------------------------------------------------------------

\* The held slot is the one the player was created with or a hotbar slot:
\* holdChange only accepts slots 0..8.
TypeOK ==
  /\ currentSlot \in {InitialSlot} \cup 36..44
  /\ DOMAIN inventory \subseteq Slots
  /\ \A o \in DOMAIN heap : heap[o].id \in ItemIds

\* After every callback the client's view of each slot is what the server
\* holds there: the SetSlot packet of a drop carries the count after the
\* decrement, and id -1 once the stack is gone.
ClientViewMatches == \A s \in Slots : view[s] = Held(s)

\* Every stack the inventory map points to is still allocated: a freed
\* stack has been deleted from the map first.
StoredStacksLive == Range(inventory) \cap freed = {}

\* Every allocated stack is in the inventory map: a stack that leaves the
\* map is freed (spec.md 4.3: put hands the replaced value back to the
\* caller to dispose of).
NoLeak == DOMAIN heap \ freed \subseteq Range(inventory)

=============================================================================
