------------------------------ MODULE Probing ------------------------------
(***************************************************************************)
(* Linear probing, as both hash tables of the store do it.  A table is a   *)
(* function from its slots 0 .. n - 1 to entries.  A free slot holds an    *)
(* entry with EMPTY_PTR and the key that Key() constructs, which is a key  *)
(* that a client may use as well.                                          *)
(***************************************************************************)
EXTENDS KeyValueTypes, FiniteSets

CONSTANTS
  HashOf,        \* hashKey, as a function from keys to numbers
  DefaultKey     \* Key()

ASSUME ProbingAssumption ==
  /\ HashOf \in [Key -> Nat]
  /\ DefaultKey \in Key

FreeEntry == [key |-> DefaultKey, ptr |-> EMPTY_PTR]

Table(size) == [0 .. size - 1 -> Entry]

EmptyTable(size) == [slot \in 0 .. size - 1 |-> FreeEntry]

Size(table) == Cardinality(DOMAIN table)

FreeSlots(table) == {slot \in DOMAIN table : table[slot].ptr = EMPTY_PTR}

UsedSlots(table) == DOMAIN table \ FreeSlots(table)

SlotsOf(table, key) == {slot \in DOMAIN table : table[slot].key = key}

HomeSlot(table, key) == HashOf[key] % Size(table)

(***************************************************************************)
(* findNextByPredicate: the first slot strictly behind `from', round the   *)
(* table, that is in `wanted', or `from' if there is none.  FindPrevious   *)
(* looks in the other direction.                                           *)
(***************************************************************************)
Nearest(steps) == CHOOSE d \in steps : \A e \in steps : d <= e

FindNext(table, from, wanted) ==
  LET n == Size(table)
      steps == {d \in 1 .. n - 1 : (from + d) % n \in wanted}
  IN IF steps = {} THEN from ELSE (from + Nearest(steps)) % n

FindPrevious(table, from, wanted) ==
  LET n == Size(table)
      steps == {d \in 1 .. n - 1 : (from - d) % n \in wanted}
  IN IF steps = {} THEN from ELSE (from - Nearest(steps)) % n

(***************************************************************************)
(* The slot that put() stores a key in: its home slot if that is free or   *)
(* has the key, else the next such slot.                                   *)
(***************************************************************************)
SlotForPut(table, key) ==
  LET wanted == SlotsOf(table, key) \cup FreeSlots(table)
      home == HomeSlot(table, key)
  IN IF home \in wanted THEN home ELSE FindNext(table, home, wanted)

(***************************************************************************)
(* usedSize * MAP_LOAD_FACTOR > data.size(), with MAP_LOAD_FACTOR = 3/2.   *)
(***************************************************************************)
IsOverloaded(used, size) == 3 * used > 2 * size

-----------------------------------------------------------------------------
(***************************************************************************)
(* What a lookup relies on: a used slot is reached from the home slot of   *)
(* its key without crossing a free one, and no key has two used slots.     *)
(***************************************************************************)
Reachable(table, slot) ==
  LET n == Size(table)
      home == HomeSlot(table, table[slot].key)
  IN \A d \in 0 .. (slot - home) % n : (home + d) % n \in UsedSlots(table)

IsProbeTable(table) ==
  /\ \A slot \in UsedSlots(table) : Reachable(table, slot)
  /\ \A slot, other \in UsedSlots(table) :
       table[slot].key = table[other].key => slot = other

=============================================================================
