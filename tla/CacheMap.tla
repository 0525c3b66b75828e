------------------------------ MODULE CacheMap ------------------------------
(***************************************************************************)
(* The cache as it is built: an open-addressing table with linear probing  *)
(* and no tombstones.  Where KVS sees a map that gives up an entry of its  *)
(* own choice (CacheTable), this is which entry that can be, where the     *)
(* entries lie, and how they are found.                                    *)
(***************************************************************************)
EXTENDS Probing

CONSTANTS
  CACHE_MAP_SIZE,    \* number of slots
  OfferedPtr         \* the pointers that putOrDisplace is called with

ASSUME CacheMapAssumption ==
  /\ CACHE_MAP_SIZE \in Nat \ {0}
  /\ OfferedPtr \subseteq Ptr \ {EMPTY_PTR}

VARIABLES
  data,         \* the slots
  usedSize,     \* how many of them are used, as the map counts
  displaced     \* what the last call of putOrDisplace returned

Slot == 0 .. CACHE_MAP_SIZE - 1

TypeOK ==
  /\ data \in Table(CACHE_MAP_SIZE)
  /\ usedSize \in 0 .. CACHE_MAP_SIZE
  /\ IsOptional(displaced, [key : Key, ptr : Ptr \ {EMPTY_PTR}])

Init ==
  /\ data = EmptyTable(CACHE_MAP_SIZE)
  /\ usedSize = 0
  /\ displaced = {}

IsFull == IsOverloaded(usedSize, CACHE_MAP_SIZE)

(***************************************************************************)
(* The slot that is given up for a random number: from a used slot, the    *)
(* last one before the next free slot; from a free slot, the previous used *)
(* one.  Both are the end of a cluster.                                    *)
(***************************************************************************)
VictimSlotAtRandom(random) ==    \* mutant: the random slot itself, if used
  IF random \in UsedSlots(data)
    THEN random
    ELSE FindPrevious(data, random, UsedSlots(data))

VictimSlotAfter(random) ==    \* mutant: one slot too far
  IF random \in UsedSlots(data)
    THEN FindNext(data, random, FreeSlots(data))
    ELSE FindPrevious(data, random, UsedSlots(data))

VictimSlot(random) ==
  IF random \in UsedSlots(data)
    THEN (FindNext(data, random, FreeSlots(data)) - 1) % CACHE_MAP_SIZE
    ELSE FindPrevious(data, random, UsedSlots(data))

(***************************************************************************)
(* putOrDisplace(entry).  The entry may be put into the slot that has just *)
(* been given up, and even replace the entry of its own key there.         *)
(***************************************************************************)
StoreIn(table, used, entry) ==
  LET slot == SlotForPut(table, entry.key) IN
  /\ data' = [table EXCEPT ![slot] = entry]
  /\ usedSize' = IF slot \in FreeSlots(table) THEN used + 1 ELSE used

PutOrDisplace(entry) ==
  \/ /\ ~IsFull
     /\ StoreIn(data, usedSize, entry)
     /\ displaced' = {}
  \/ /\ IsFull
     /\ \E victim \in {VictimSlot(random) : random \in Slot} :
          /\ StoreIn([data EXCEPT ![victim] = FreeEntry], usedSize - 1, entry)
          /\ displaced' = {data[victim]}

(***************************************************************************)
(* get(key): the home slot if it has the key, else the next slot that has  *)
(* it or is free.                                                          *)
(***************************************************************************)
SlotForGet(key) ==
  LET home == HomeSlot(data, key) IN
  IF data[home].key = key
    THEN home
    ELSE FindNext(data, home, SlotsOf(data, key) \cup FreeSlots(data))

Get(key) == data[SlotForGet(key)].ptr

(***************************************************************************)
(* setValuePresent through the Ptr& that get() returned.                   *)
(***************************************************************************)
Mark(key, isPresent) ==
  /\ PointsToValue(Get(key))
  /\ data' = [data EXCEPT ![SlotForGet(key)].ptr = SetValuePresent(@, isPresent)]
  /\ displaced' = {}
  /\ UNCHANGED usedSize

ClearForgetsUsedSize ==    \* mutant: only the slots are reset
  /\ data' = EmptyTable(CACHE_MAP_SIZE)
  /\ displaced' = {}
  /\ UNCHANGED usedSize

Clear ==
  /\ data' = EmptyTable(CACHE_MAP_SIZE)
  /\ usedSize' = 0
  /\ displaced' = {}

Next ==
  \/ \E key \in Key :
       \/ \E ptr \in OfferedPtr : PutOrDisplace([key |-> key, ptr |-> ptr])
       \/ \E isPresent \in BOOLEAN : Mark(key, isPresent)
  \/ Clear

Spec == Init /\ [][Next]_<<data, usedSize, displaced>>

-----------------------------------------------------------------------------
(***************************************************************************)
(* Giving up the last entry of a cluster never cuts the probe sequence of  *)
(* another entry, whatever collides with whatever: each entry stays        *)
(* reachable, and no key is stored twice.  (CacheMap::putOrDisplace.)      *)
(***************************************************************************)
ProbeChainsIntact == IsProbeTable(data)

(***************************************************************************)
(* The counter that decides about displacement is the number of used       *)
(* slots.  (CacheMap::usedSize.)                                           *)
(***************************************************************************)
UsedSizeExact == usedSize = Cardinality(UsedSlots(data))

(***************************************************************************)
(* The asserts of the map: for every random number a full map has an entry *)
(* to give up, a put finds a slot, and a get ends at the key or at a free  *)
(* slot behind its home slot.  (CacheMap.cpp:44, 60, 62, 76, 95, 109.)     *)
(***************************************************************************)
GetFinds(key) ==
  \/ data[HomeSlot(data, key)].key = key
  \/ SlotForGet(key) # HomeSlot(data, key)

GetsEnd == \A key \in Key : GetFinds(key)

ProbesEnd ==
  /\ GetsEnd
  /\ FreeSlots(data) # {}
  /\ IsFull => \A random \in Slot : VictimSlot(random) \in UsedSlots(data)

(***************************************************************************)
(* The map is the bounded map CacheTable: a put changes its own key and at *)
(* most one other, nobody else's lookup; whether it gives up an entry      *)
(* depends on the number of entries only.                                  *)
(***************************************************************************)
CacheTable == INSTANCE CacheTable WITH cacheMap <- [key \in Key |-> Get(key)]

ImplementsCacheTable == CacheTable!CacheSpec

(***************************************************************************)
(* No entry disappears unnoticed: what a lookup no longer finds has been   *)
(* returned to the caller, who pushes it to its shard, or the map has been *)
(* cleared.  (CacheMap::putOrDisplace, KVS::pushOperation.)                *)
(***************************************************************************)
LostEntriesAreReturned ==
  [][\A key \in Key :
       Get(key) # Get(key)' /\ usedSize' # 0 =>
         \/ [key |-> key, ptr |-> Get(key)] \in displaced'
         \/ Get(key)' # EMPTY_PTR]_<<data, usedSize, displaced>>

=============================================================================
