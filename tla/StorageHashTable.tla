-------------------------- MODULE StorageHashTable --------------------------
(***************************************************************************)
(* The index of one shard as it is built: an open-addressing table that    *)
(* doubles once, and the file it is kept in between two operations.  Every *)
(* operation of a shard reads the file, changes one entry and writes the   *)
(* whole file again.  The file is described by the table that was written  *)
(* last and by the number of its bytes that have reached the file: a       *)
(* failing write leaves a prefix.                                          *)
(***************************************************************************)
EXTENDS Probing, PtrByte, Sequences

CONSTANTS
  STORAGE_HASH_TABLE_INITIAL_SIZE,
  STORAGE_HASH_TABLE_MAX_SIZE,
  KeyAsSize,        \* the first eight bytes of a key, read as a size_t
  SIZE_T_MAX,       \* the greatest size_t
  OfferedOffset,    \* the offsets of the records that put() is called with
  WritesMayFail     \* whether a write may leave a prefix of the file

(***************************************************************************)
(* An entry takes KEY_SIZE bytes and one for the pointer; the counter      *)
(* comes last.                                                             *)
(***************************************************************************)
ENTRY_SIZE == 17

COUNTER_SIZE == 8

(***************************************************************************)
(* A file that is written in full is not longer than a size_t can say.     *)
(***************************************************************************)
ASSUME StorageHashTableAssumption ==
  /\ STORAGE_HASH_TABLE_INITIAL_SIZE \in Nat \ {0}
  /\ STORAGE_HASH_TABLE_MAX_SIZE = 2 * STORAGE_HASH_TABLE_INITIAL_SIZE
  /\ KeyAsSize \in [Key -> Nat]
  /\ SIZE_T_MAX \in Nat
  /\ SIZE_T_MAX >= STORAGE_HASH_TABLE_MAX_SIZE * ENTRY_SIZE + COUNTER_SIZE
  /\ OfferedOffset \subseteq {VALUE_SIZE * index : index \in 0 .. MAX_PTR_INDEX}
  /\ WritesMayFail \in BOOLEAN

VARIABLES
  data,           \* the slots, as written last
  usedSize,       \* the counter, as written last
  length,         \* the number of bytes in the file
  terminated      \* the process has died in put()

vars == <<data, usedSize, length, terminated>>

FullLength(table) == Size(table) * ENTRY_SIZE + COUNTER_SIZE

IsComplete == length = FullLength(data)

TypeOK ==
  /\ \/ data \in Table(STORAGE_HASH_TABLE_INITIAL_SIZE)
     \/ data \in Table(STORAGE_HASH_TABLE_MAX_SIZE)
  /\ usedSize \in 0 .. Size(data)
  /\ length \in 0 .. FullLength(data)
  /\ terminated \in BOOLEAN

-----------------------------------------------------------------------------
(***************************************************************************)
(* Deserialization.  The length without the counter is an unsigned number: *)
(* for a file of less than eight bytes it wraps.                           *)
(***************************************************************************)
WithoutUsedSize == (length - COUNTER_SIZE) % (SIZE_T_MAX + 1)

IsRejected == WithoutUsedSize % ENTRY_SIZE # 0

ReadSize == WithoutUsedSize \div ENTRY_SIZE

(***************************************************************************)
(* A wrapped size asks for more memory than a vector can have: resize()    *)
(* throws an exception of the standard library.                            *)
(***************************************************************************)
IsTooLong == ~IsRejected /\ length < COUNTER_SIZE

IsAccepted == ~IsRejected /\ ~IsTooLong

ReadData ==
  [slot \in 0 .. ReadSize - 1 |->
     [data[slot] EXCEPT !.ptr = Decode(Encode(@))]]

(***************************************************************************)
(* The last eight bytes: the counter, or the beginning of a key.           *)
(***************************************************************************)
ReadUsedSize ==
  IF IsComplete THEN usedSize ELSE KeyAsSize[data[ReadSize].key]

-----------------------------------------------------------------------------
(***************************************************************************)
(* get(key) on the table that is read: the home slot if it has the key,    *)
(* else the next slot that has it, else the global EMPTY_PTR.  A lookup    *)
(* does not stop at a free slot.                                           *)
(***************************************************************************)
SlotForGet(table, key) ==
  LET home == HomeSlot(table, key) IN
  IF home \in SlotsOf(table, key)
    THEN home
    ELSE FindNext(table, home, SlotsOf(table, key))

LookupUnchecked(table, key) ==    \* mutant: "not found" is not told apart
  table[SlotForGet(table, key)].ptr

Lookup(table, key) ==
  IF SlotForGet(table, key) \in SlotsOf(table, key)
    THEN table[SlotForGet(table, key)].ptr
    ELSE EMPTY_PTR

(***************************************************************************)
(* getEntries(): the entries of the used slots, in the order of the slots. *)
(***************************************************************************)
EntriesBehind(table, slot) ==
  Cardinality({used \in UsedSlots(table) : used < slot})

GetEntries(table) ==
  [i \in 1 .. Cardinality(UsedSlots(table)) |->
     table[CHOOSE slot \in UsedSlots(table) : EntriesBehind(table, slot) = i - 1]]

(***************************************************************************)
(* put() without the expansion, on a table and its counter.                *)
(***************************************************************************)
InsertAlwaysCounts(state, entry) ==    \* mutant: an overwritten slot is counted
  [table |-> [state.table EXCEPT ![SlotForPut(state.table, entry.key)] = entry],
   used |-> state.used + 1]

Insert(state, entry) ==
  LET slot == SlotForPut(state.table, entry.key) IN
  [table |-> [state.table EXCEPT ![slot] = entry],
   used |-> IF slot \in FreeSlots(state.table) THEN state.used + 1 ELSE state.used]

(***************************************************************************)
(* expand(): the entries are put, one after the other, into an empty table *)
(* of twice the size.  The element i of the result is the state after i    *)
(* entries.                                                                *)
(***************************************************************************)
RefillKeepsUsedSize(entries, size) ==    \* mutant: usedSize = 0 is missing
  LET states[i \in 0 .. Len(entries)] ==
        IF i = 0
          THEN [table |-> EmptyTable(size), used |-> Len(entries)]
          ELSE Insert(states[i - 1], entries[i])
  IN states

Refill(entries, size) ==
  LET states[i \in 0 .. Len(entries)] ==
        IF i = 0
          THEN [table |-> EmptyTable(size), used |-> 0]
          ELSE Insert(states[i - 1], entries[i])
  IN states

IsOver(state) == IsOverloaded(state.used, Size(state.table))

-----------------------------------------------------------------------------
(***************************************************************************)
(* An operation of a shard ends with the whole table written to the file,  *)
(* which has been truncated before.                                        *)
(***************************************************************************)
WriteFile(table, used) ==
  /\ data' = table
  /\ usedSize' = used
  /\ length' \in {FullLength(table)}
                   \cup (IF WritesMayFail THEN 0 .. FullLength(table) - 1 ELSE {})
  /\ UNCHANGED terminated

Init ==
  /\ data = EmptyTable(STORAGE_HASH_TABLE_INITIAL_SIZE)
  /\ usedSize = 0
  /\ length = FullLength(data)
  /\ terminated = FALSE

(***************************************************************************)
(* put(entry) on the table that is read.  A table that is already expanded *)
(* cannot grow, and expand() must not run into itself: either throws out   *)
(* of a noexcept function.                                                 *)
(***************************************************************************)
Inserted(entry) == Insert([table |-> ReadData, used |-> ReadUsedSize], entry)

Expansion(entry) ==
  LET entries == GetEntries(Inserted(entry).table)
  IN Refill(entries, 2 * Size(ReadData))

CannotExpandAgain(entry) ==    \* mutant: the greatest size is not checked
  \E i \in DOMAIN Expansion(entry) : IsOver(Expansion(entry)[i])

CannotExpand(entry) ==
  \/ 2 * Size(ReadData) > STORAGE_HASH_TABLE_MAX_SIZE
  \/ \E i \in DOMAIN Expansion(entry) : IsOver(Expansion(entry)[i])

IsUsable == IsComplete /\ IsAccepted /\ ~terminated

Put(entry) ==
  /\ IsUsable
  /\ \/ /\ ~IsOver(Inserted(entry))
        /\ WriteFile(Inserted(entry).table, Inserted(entry).used)
     \/ /\ IsOver(Inserted(entry))
        /\ ~CannotExpand(entry)
        /\ LET expanded == Expansion(entry)[Cardinality(DOMAIN Expansion(entry)) - 1]
           IN WriteFile(expanded.table, expanded.used)

Overflow(entry) ==
  /\ IsUsable
  /\ IsOver(Inserted(entry))
  /\ CannotExpand(entry)
  /\ terminated' = TRUE
  /\ UNCHANGED <<data, usedSize, length>>

(***************************************************************************)
(* setValuePresent through the Ptr& that get() returned, on its byte.      *)
(***************************************************************************)
Mark(key, isPresent) ==
  /\ IsUsable
  /\ PointsToValue(Lookup(ReadData, key))
  /\ WriteFile([ReadData EXCEPT ![SlotForGet(ReadData, key)].ptr =
                  Decode(SetRawPresent(Encode(@), isPresent))],
               ReadUsedSize)

(***************************************************************************)
(* A new table, for a new shard or for one that is rebuilt.                *)
(***************************************************************************)
Renew ==
  /\ ~terminated
  /\ WriteFile(EmptyTable(STORAGE_HASH_TABLE_INITIAL_SIZE), 0)

Next ==
  \/ \E key \in Key :
       \/ \E offset \in OfferedOffset :
            LET entry == [key |-> key, ptr |-> Decode(RawPtrTo(offset, TRUE))]
            IN Put(entry) \/ Overflow(entry)
       \/ \E isPresent \in BOOLEAN : Mark(key, isPresent)
  \/ Renew

Spec == Init /\ [][Next]_vars

-----------------------------------------------------------------------------
(***************************************************************************)
(* Every entry stays reachable from the home slot of its key, before and   *)
(* after the expansion, no key is stored twice, and the counter is the     *)
(* number of used slots.  (StorageHashTable::put, expand.)                 *)
(***************************************************************************)
TableSound == IsProbeTable(data) /\ usedSize = Cardinality(UsedSlots(data))

(***************************************************************************)
(* The table is the map IndexTable: the bytes of a complete file and the   *)
(* probing give every key the pointer that was put for it last, also the   *)
(* key that equals the key of a free slot; the expansion loses and moves   *)
(* nothing, does not run into itself, and the process dies exactly when    *)
(* the number of keys asks for a second one.  (All of StorageHashTable.)   *)
(***************************************************************************)
Index ==
  INSTANCE IndexTable WITH
    index <- [key \in Key |-> Lookup(data, key)],
    OfferedPtr <- {PtrTo(offset \div VALUE_SIZE, TRUE) : offset \in OfferedOffset}

ImplementsIndexTable == Index!Spec

(***************************************************************************)
(* A file that a failed write has cut short, where it is accepted and has  *)
(* a slot at all, may have forgotten a key, but it never gives a key a     *)
(* pointer that was not written for it, although every home slot is        *)
(* another one.  (StorageHashTable(ByteArray), get.)                       *)
(***************************************************************************)
TornIndexNeverLies ==
  IsAccepted /\ ReadSize > 0 =>
    \A key \in Key : Lookup(ReadData, key) \in {EMPTY_PTR, Lookup(data, key)}

(***************************************************************************)
(* "calling this method a second time causes a SHARD_OVERFLOW typed        *)
(* KVSException", which a caller could handle.  (StorageHashTable.h:66.)   *)
(***************************************************************************)
OverflowIsReported == ~terminated

=============================================================================
