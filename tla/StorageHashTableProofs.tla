------------------------ MODULE StorageHashTableProofs ------------------------
(***************************************************************************)
(* What is true of the index of a shard and of its file for every set of   *)
(* keys, every hash, every initial size of the table and every size_t that *)
(* can say how long the file is.                                           *)
(*                                                                         *)
(* The first part is about the byte of a Ptr, the second about a lookup    *)
(* and an insertion, the third about the expansion, the last about the     *)
(* operations: the inductive invariant, and the abstract map.              *)
(***************************************************************************)
EXTENDS StorageHashTable, ProbingProofs, SequenceTheorems, FunctionTheorems

(***************************************************************************)
(* The flag and the seven bits of a byte below 128 and of one above.       *)
(***************************************************************************)
LEMMA LowByte ==
  ASSUME NEW raw \in 0 .. 127
  PROVE  ~IsValuePresent(raw) /\ GetIndex(raw) = raw
BY DEF IsValuePresent, GetIndex, CONTROL_MASK

LEMMA HighByte ==
  ASSUME NEW index \in 0 .. 127
  PROVE  IsValuePresent(index + 128) /\ GetIndex(index + 128) = index
BY DEF IsValuePresent, GetIndex, CONTROL_MASK

(***************************************************************************)
(* The byte of an index that an assert of the constructor lets through,    *)
(* read back with its flag.                                                *)
(***************************************************************************)
LEMMA ValueByte ==
  ASSUME NEW index \in 0 .. MAX_PTR_INDEX, NEW isPresent \in BOOLEAN
  PROVE  LET raw == index + (IF isPresent THEN CONTROL_MASK ELSE 0)
         IN  /\ raw \in 0 .. 255
             /\ GetIndex(raw) = index
             /\ Decode(raw) = PtrTo(index, isPresent)
<1>1. index \in 0 .. 125
  BY MaxPtrIndexAssumption
<1>2. CASE isPresent
  <2>1. IsValuePresent(index + 128) /\ GetIndex(index + 128) = index
    BY <1>1, HighByte
  <2> QED
    BY <1>1, <1>2, <2>1 DEF Decode, GetType, PtrTo, CONTROL_MASK, EMPTY_PTR_V, NONEXISTENT_V
<1>3. CASE ~isPresent
  <2>1. ~IsValuePresent(index) /\ GetIndex(index) = index
    BY <1>1, LowByte
  <2> QED
    BY <1>1, <1>3, <2>1 DEF Decode, GetType, PtrTo, CONTROL_MASK, EMPTY_PTR_V, NONEXISTENT_V
<1> QED
  BY <1>2, <1>3

(***************************************************************************)
(* getRaw() of a pointer fits a byte, and a Ptr made from that byte is the *)
(* same pointer: what an index file holds is what was put into it.         *)
(* (Ptr::getRaw, Ptr::Ptr(ptr_t), Ptr::getType, Ptr::getIndex.)            *)
(***************************************************************************)
THEOREM RawRoundTrip ==
  ASSUME NEW p \in ValidPtr
  PROVE  Encode(p) \in 0 .. 255 /\ Decode(Encode(p)) = p
<1>1. CASE p = EMPTY_PTR
  BY <1>1, LowByte
  DEF Encode, Decode, GetType, EMPTY_PTR, EMPTY_PTR_V, NONEXISTENT_V
<1>2. CASE p = NONEXISTENT
  BY <1>2, LowByte
  DEF Encode, Decode, GetType, NONEXISTENT, EMPTY_PTR_V, NONEXISTENT_V
<1>3. CASE p \in [type : {"PRESENT", "DELETED"}, index : 0 .. MAX_PTR_INDEX]
  <2>1. PICK isPresent \in BOOLEAN, index \in 0 .. MAX_PTR_INDEX :
          p = PtrTo(index, isPresent)
    <3>1. p = PtrTo(p.index, p.type = "PRESENT")
      BY <1>3 DEF PtrTo
    <3> QED
      BY <1>3, <3>1
  <2>2. Encode(p) = index + (IF isPresent THEN CONTROL_MASK ELSE 0)
    BY <2>1 DEF Encode, PtrTo
  <2> QED
    BY <2>1, <2>2, ValueByte
<1> QED
  BY <1>1, <1>2, <1>3 DEF ValidPtr

(***************************************************************************)
(* Marking a pointer to a value sets its flag and keeps its index, and     *)
(* never makes it one of the reserved values.  (Ptr::setValuePresent.)     *)
(***************************************************************************)
THEOREM MarkingKeepsIndex ==
  ASSUME NEW index \in 0 .. MAX_PTR_INDEX, NEW was \in BOOLEAN, NEW isPresent \in BOOLEAN
  PROVE  Decode(SetRawPresent(Encode(PtrTo(index, was)), isPresent))
           = SetValuePresent(PtrTo(index, was), isPresent)
<1>1. Encode(PtrTo(index, was)) = index + (IF was THEN CONTROL_MASK ELSE 0)
  BY DEF Encode, PtrTo
<1>2. GetIndex(Encode(PtrTo(index, was))) = index
  BY <1>1, ValueByte
<1>3. Decode(SetRawPresent(Encode(PtrTo(index, was)), isPresent)) = PtrTo(index, isPresent)
  BY <1>2, ValueByte DEF SetRawPresent
<1> QED
  BY <1>3 DEF SetValuePresent, PtrTo

(***************************************************************************)
(* A pointer made from the offset of a record leads back to that offset.   *)
(* (Ptr::Ptr(size_t, bool), Ptr::getOffset.)                               *)
(***************************************************************************)
THEOREM OffsetRoundTrip ==
  ASSUME NEW index \in 0 .. MAX_PTR_INDEX, NEW isPresent \in BOOLEAN
  PROVE  /\ Decode(RawPtrTo(VALUE_SIZE * index, isPresent)) = PtrTo(index, isPresent)
         /\ GetOffset(RawPtrTo(VALUE_SIZE * index, isPresent)) = VALUE_SIZE * index
<1>1. index \in 0 .. 125 /\ VALUE_SIZE \in Nat \ {0}
  BY MaxPtrIndexAssumption, ValueSizeAssumption
<1>2. (VALUE_SIZE * index) \div VALUE_SIZE = index
  BY <1>1
<1>3. GetIndex(index) = index
  BY <1>1, LowByte
<1>4. RawPtrTo(VALUE_SIZE * index, isPresent)
        = index + (IF isPresent THEN CONTROL_MASK ELSE 0)
  <2>1. ((VALUE_SIZE * index) \div VALUE_SIZE) % 256 = index
    BY <1>1, <1>2
  <2> QED
    BY <1>3, <2>1 DEF RawPtrTo, SetRawPresent
<1>5. GetIndex(RawPtrTo(VALUE_SIZE * index, isPresent)) = index
  BY <1>4, ValueByte
<1> QED
  BY <1>1, <1>4, <1>5, ValueByte DEF GetOffset

-----------------------------------------------------------------------------
(***************************************************************************)
(* A lookup finds a slot that has the key, if there is one.                *)
(***************************************************************************)
LEMMA LookupFinds ==
  ASSUME NEW n \in Nat \ {0}, NEW table \in Table(n), NEW key \in Key
  PROVE  LET slot == SlotForGet(table, key) IN
         /\ slot \in 0 .. n - 1
         /\ SlotsOf(table, key) # {} => slot \in SlotsOf(table, key)
         /\ slot \in SlotsOf(table, key) =>
              \A d \in 0 .. Gap(n, HomeSlot(table, key), slot) - 1 :
                Step(n, HomeSlot(table, key), d) \notin SlotsOf(table, key)
<1> DEFINE home == HomeSlot(table, key)
           slot == SlotForGet(table, key)
           wanted == SlotsOf(table, key)
<1>1. home \in 0 .. n - 1  BY HomeInTable
<1>2. wanted \in SUBSET (0 .. n - 1)  BY TableSize
<1>3. slot = IF home \in wanted THEN home ELSE FindNext(table, home, wanted)
  BY DEF SlotForGet
<1> HIDE DEF home, wanted, slot
<1>4. CASE home \in wanted
  <2>1. Gap(n, home, slot) = 0  BY <1>1, <1>3, <1>4, Around
  <2> QED  BY <1>1, <1>3, <1>4, <2>1 DEF slot, home, wanted
<1>5. CASE home \notin wanted
  <2> DEFINE found == FindNext(table, home, wanted)
  <2>1. /\ found \in 0 .. n - 1
        /\ found = home => wanted \subseteq {home}
        /\ found # home =>
             /\ found \in wanted
             /\ \A d \in 1 .. Gap(n, home, found) - 1 : Step(n, home, d) \notin wanted
    BY <1>1, <1>2, FindNextFinds
  <2>2. found = slot  BY <1>3, <1>5
  <2> HIDE DEF found
  <2>3. wanted # {} => slot \in wanted  BY <1>5, <2>1, <2>2
  <2>4. Gap(n, home, slot) \in 0 .. n - 1  BY <1>1, <2>1, <2>2, Around
  <2>5. ASSUME slot \in wanted, NEW d \in 0 .. Gap(n, home, slot) - 1
        PROVE  Step(n, home, d) \notin wanted
    <3>1. CASE d = 0
      <4>1. Step(n, home, d) = home  BY <1>1, <3>1 DEF Step
      <4> QED  BY <1>5, <4>1
    <3>2. CASE d # 0  BY <1>5, <2>1, <2>2, <2>5, <3>2
    <3> QED  BY <3>1, <3>2
  <2> QED  BY <2>1, <2>2, <2>3, <2>5 DEF slot, home, wanted
<1> QED  BY <1>4, <1>5

(***************************************************************************)
(* A key that is stored is found where it is stored, also the key that     *)
(* free slots have.                                                        *)
(***************************************************************************)
LEMMA StoredIsFound ==
  ASSUME NEW n \in Nat \ {0}, NEW table \in Table(n), IsProbeTable(table),
         NEW stored \in UsedSlots(table)
  PROVE  /\ stored \in 0 .. n - 1 /\ table[stored].key \in Key
         /\ SlotForGet(table, table[stored].key) = stored
         /\ Lookup(table, table[stored].key) = table[stored].ptr
         /\ Lookup(table, table[stored].key) # EMPTY_PTR
<1> DEFINE key == table[stored].key
           home == HomeSlot(table, key)
           slot == SlotForGet(table, key)
<1>1. stored \in 0 .. n - 1  BY TableSize
<1>2. key \in Key  BY <1>1 DEF Table, Entry
<1>3. home \in 0 .. n - 1  BY <1>2, HomeInTable
<1>4. stored \in SlotsOf(table, key)  BY <1>1, TableSize DEF SlotsOf
<1>5. /\ slot \in 0 .. n - 1 /\ slot \in SlotsOf(table, key)
      /\ \A d \in 0 .. Gap(n, home, slot) - 1 : Step(n, home, d) \notin SlotsOf(table, key)
  BY <1>2, <1>4, LookupFinds
<1>6. \A d \in 0 .. Gap(n, home, stored) : Step(n, home, d) \in UsedSlots(table)
  BY <1>1, ReachableSteps DEF IsProbeTable
<1>7. \A s \in UsedSlots(table) : table[s].key = key => s = stored
  BY DEF IsProbeTable
<1>8. table[slot].key = key  BY <1>5 DEF SlotsOf
<1> HIDE DEF key, home, slot
<1>9. Gap(n, home, slot) \in 0 .. n - 1 /\ Step(n, home, Gap(n, home, slot)) = slot
  <2>1. slot \in 0 .. n - 1  BY <1>5
  <2> QED  BY <1>3, <2>1 DEF Gap, Step
<1>10. Gap(n, home, stored) \in 0 .. n - 1 /\ Step(n, home, Gap(n, home, stored)) = stored
  BY <1>1, <1>3 DEF Gap, Step
<1>11. ~(Gap(n, home, stored) < Gap(n, home, slot))
  BY <1>4, <1>5, <1>9, <1>10
<1>12. slot \in UsedSlots(table)  BY <1>6, <1>9, <1>10, <1>11
<1>13. slot = stored  BY <1>7, <1>8, <1>12
<1>14. table[stored].ptr # EMPTY_PTR  BY DEF UsedSlots, FreeSlots
<1> QED  BY <1>1, <1>2, <1>4, <1>13, <1>14 DEF Lookup, key, slot

(***************************************************************************)
(* A key that is not stored is looked up as EMPTY_PTR: if a slot has it at *)
(* all, that slot is free.                                                 *)
(***************************************************************************)
LEMMA AbsentIsEmpty ==
  ASSUME NEW n \in Nat \ {0}, NEW table \in Table(n), NEW key \in Key,
         \A s \in UsedSlots(table) : table[s].key # key
  PROVE  Lookup(table, key) = EMPTY_PTR
<1> DEFINE slot == SlotForGet(table, key)
<1>1. CASE slot \in SlotsOf(table, key)
  <2>1. slot \in DOMAIN table /\ table[slot].key = key  BY <1>1 DEF SlotsOf
  <2>2. slot \notin UsedSlots(table)  BY <2>1
  <2> QED  BY <1>1, <2>1, <2>2 DEF UsedSlots, FreeSlots, Lookup
<1>2. CASE slot \notin SlotsOf(table, key)  BY <1>2 DEF Lookup
<1> QED  BY <1>1, <1>2

(***************************************************************************)
(* What a lookup answers is the entry of the only slot used for the key.   *)
(***************************************************************************)
LEMMA LookupMeansStored ==
  ASSUME NEW n \in Nat \ {0}, NEW table \in Table(n), IsProbeTable(table),
         NEW key \in Key
  PROVE  /\ Lookup(table, key) # EMPTY_PTR <=>
              \E s \in UsedSlots(table) : table[s].key = key
         /\ Lookup(table, key) # EMPTY_PTR =>
              /\ SlotForGet(table, key) \in UsedSlots(table)
              /\ table[SlotForGet(table, key)] = [key |-> key, ptr |-> Lookup(table, key)]
<1>1. CASE \E s \in UsedSlots(table) : table[s].key = key
  <2>1. PICK s \in UsedSlots(table) : table[s].key = key  BY <1>1
  <2>2. /\ s \in 0 .. n - 1 /\ SlotForGet(table, key) = s
        /\ Lookup(table, key) = table[s].ptr /\ Lookup(table, key) # EMPTY_PTR
    BY <2>1, StoredIsFound
  <2>3. table[s] = [key |-> table[s].key, ptr |-> table[s].ptr]
    BY <2>2 DEF Table, Entry
  <2> QED  BY <2>1, <2>2, <2>3
<1>2. CASE ~ \E s \in UsedSlots(table) : table[s].key = key
  BY <1>2, AbsentIsEmpty
<1> QED  BY <1>1, <1>2

(***************************************************************************)
(* A table whose counter is right.                                         *)
(***************************************************************************)
IsSound(state, n) ==
  /\ state.table \in Table(n)
  /\ IsProbeTable(state.table)
  /\ state.used = Cardinality(UsedSlots(state.table))

(***************************************************************************)
(* What an insertion does: the key gets the pointer, the others keep       *)
(* theirs, and the counter counts a key that is new.                       *)
(***************************************************************************)
IsInsertion(state, inserted, entry, n) ==
  /\ IsSound(inserted, n)
  /\ \A key \in Key :
       Lookup(inserted.table, key) =
         IF key = entry.key THEN entry.ptr ELSE Lookup(state.table, key)
  /\ inserted.used =
       IF Lookup(state.table, entry.key) = EMPTY_PTR THEN state.used + 1 ELSE state.used
  /\ \A slot \in 0 .. n - 1 : inserted.table[slot] \in {state.table[slot], entry}

(***************************************************************************)
(* put() without the expansion.                                            *)
(***************************************************************************)
LEMMA InsertKeeps ==
  ASSUME NEW n \in Nat \ {0}, NEW state, IsSound(state, n),
         FreeSlots(state.table) # {}, NEW entry \in Entry, entry.ptr # EMPTY_PTR
  PROVE  IsInsertion(state, Insert(state, entry), entry, n)
<1> DEFINE table == state.table
           slot == SlotForPut(table, entry.key)
           stored == [table EXCEPT ![slot] = entry]
           inserted == Insert(state, entry)
<1>1. table \in Table(n) /\ IsProbeTable(table) /\ state.used = Cardinality(UsedSlots(table))
  BY DEF IsSound
<1>2. entry.key \in Key /\ entry.ptr \in Ptr  BY DEF Entry
<1>3. /\ slot \in 0 .. n - 1
      /\ stored \in Table(n)
      /\ UsedSlots(stored) = UsedSlots(table) \cup {slot}
      /\ IsProbeTable(stored)
  BY <1>1, StoreKeeps
<1>4. slot \in FreeSlots(table) \/ table[slot].key = entry.key
  BY <1>1, <1>2, SlotForPutFinds
<1>5. /\ inserted.table = stored
      /\ inserted.used = IF slot \in FreeSlots(table) THEN state.used + 1 ELSE state.used
  BY DEF Insert
<1>6. /\ DOMAIN table = 0 .. n - 1
      /\ IsFiniteSet(UsedSlots(table))
      /\ \A s \in 0 .. n - 1 : s \in FreeSlots(table) <=> s \notin UsedSlots(table)
      /\ UsedSlots(table) \subseteq 0 .. n - 1
  BY <1>1, TableSize
<1>7. \A s \in 0 .. n - 1 : stored[s] = IF s = slot THEN entry ELSE table[s]
  BY <1>6
<1> HIDE DEF stored, inserted, slot, table
<1>8. inserted.used = Cardinality(UsedSlots(stored)) /\ state.used \in Nat
  BY <1>1, <1>3, <1>5, <1>6, FS_AddElement, FS_CardinalityType
<1>9. slot \in UsedSlots(stored) /\ stored[slot] = entry  BY <1>3, <1>7
<1>10. Lookup(stored, entry.key) = entry.ptr
  BY <1>3, <1>9, StoredIsFound
<1>11. ASSUME NEW key \in Key \ {entry.key}
       PROVE  Lookup(stored, key) = Lookup(table, key)
  <2>1. CASE \E s \in UsedSlots(table) : table[s].key = key
    <3>1. PICK s \in UsedSlots(table) : table[s].key = key  BY <2>1
    <3>2. s # slot  BY <1>4, <1>6, <1>11, <3>1
    <3>3. s \in UsedSlots(stored) /\ stored[s] = table[s]  BY <1>3, <1>6, <1>7, <3>2
    <3>4. Lookup(table, key) = table[s].ptr  BY <1>1, <3>1, StoredIsFound
    <3>5. Lookup(stored, key) = stored[s].ptr  BY <1>3, <3>1, <3>3, StoredIsFound
    <3> QED  BY <3>3, <3>4, <3>5
  <2>2. CASE ~ \E s \in UsedSlots(table) : table[s].key = key
    <3>1. \A s \in UsedSlots(stored) : stored[s].key # key
      BY <1>3, <1>6, <1>7, <1>11, <2>2
    <3>2. Lookup(stored, key) = EMPTY_PTR  BY <1>3, <3>1, AbsentIsEmpty
    <3>3. Lookup(table, key) = EMPTY_PTR  BY <1>1, <2>2, AbsentIsEmpty
    <3> QED  BY <3>2, <3>3
  <2> QED  BY <2>1, <2>2
<1>12. Lookup(table, entry.key) = EMPTY_PTR <=> slot \in FreeSlots(table)
  <2>1. CASE slot \in FreeSlots(table)
    <3>1. ASSUME NEW s \in UsedSlots(table) PROVE table[s].key # entry.key
      <4>1. s # slot /\ s \in UsedSlots(stored) /\ stored[s] = table[s]
        BY <1>3, <1>6, <1>7, <2>1
      <4> QED  BY <1>3, <1>9, <4>1 DEF IsProbeTable
    <3> QED  BY <1>1, <1>2, <2>1, <3>1, AbsentIsEmpty
  <2>2. CASE slot \notin FreeSlots(table)
    <3>1. slot \in UsedSlots(table) /\ table[slot].key = entry.key
      BY <1>3, <1>4, <1>6, <2>2
    <3> QED  BY <1>1, <2>2, <3>1, StoredIsFound
  <2> QED  BY <2>1, <2>2
<1>13. IsSound(inserted, n)  BY <1>3, <1>5, <1>8 DEF IsSound
<1>14. \A s \in 0 .. n - 1 : inserted.table[s] \in {table[s], entry}
  BY <1>5, <1>7
<1>15. inserted.used =
         IF Lookup(table, entry.key) = EMPTY_PTR THEN state.used + 1 ELSE state.used
  BY <1>5, <1>12
<1>16. \A key \in Key :
         Lookup(inserted.table, key) =
           IF key = entry.key THEN entry.ptr ELSE Lookup(table, key)
  BY <1>5, <1>10, <1>11
<1> QED  BY <1>13, <1>14, <1>15, <1>16 DEF IsInsertion, inserted, table

-----------------------------------------------------------------------------
(***************************************************************************)
(* getEntries() lists the used slots in their order: each of them stands   *)
(* behind a number of others that no other one stands behind.              *)
(***************************************************************************)
LEMMA RanksAreBijective ==
  ASSUME NEW n \in Nat \ {0}, NEW table \in Table(n)
  PROVE  LET count == Cardinality(UsedSlots(table)) IN
         /\ count \in Nat
         /\ \A i \in 0 .. count - 1 : \E slot \in UsedSlots(table) : EntriesBehind(table, slot) = i
         /\ \A slot \in UsedSlots(table) : EntriesBehind(table, slot) \in 0 .. count - 1
         /\ \A slot, other \in UsedSlots(table) :
              EntriesBehind(table, slot) = EntriesBehind(table, other) => slot = other
<1> DEFINE used == UsedSlots(table)
           count == Cardinality(used)
           below(slot) == {s \in used : s < slot}
           rank == [slot \in used |-> EntriesBehind(table, slot)]
<1>1. /\ used \subseteq 0 .. n - 1 /\ IsFiniteSet(used)
      /\ count \in Nat
  BY TableSize, FS_CardinalityType
<1>2. \A slot \in used : EntriesBehind(table, slot) = Cardinality(below(slot))
  BY DEF EntriesBehind
<1> HIDE DEF used
<1>3. \A slot \in used : /\ IsFiniteSet(below(slot)) /\ Cardinality(below(slot)) \in Nat
                         /\ IsFiniteSet(below(slot) \cup {slot})
                         /\ Cardinality(below(slot) \cup {slot}) = Cardinality(below(slot)) + 1
  <2>1. TAKE slot \in used
  <2>2. below(slot) \in SUBSET used /\ slot \notin below(slot)
    <3>1. slot \in Int  BY <1>1
    <3> QED  BY <3>1
  <2>3. IsFiniteSet(below(slot))  BY <1>1, <2>2, FS_Subset
  <2> HIDE DEF below
  <2> QED  BY <2>2, <2>3, FS_CardinalityType, FS_AddElement
<1>4. \A slot \in used : Cardinality(below(slot)) \in 0 .. count - 1
  <2>1. TAKE slot \in used
  <2>2. below(slot) \cup {slot} \in SUBSET used  OBVIOUS
  <2>3. Cardinality(below(slot) \cup {slot}) <= count  BY <1>1, <2>2, FS_Subset
  <2>4. Cardinality(below(slot)) \in Nat
        /\ Cardinality(below(slot) \cup {slot}) = Cardinality(below(slot)) + 1
    BY <1>3
  <2> HIDE DEF below, count
  <2> QED  BY <1>1, <2>3, <2>4
<1>5. ASSUME NEW slot \in used, NEW other \in used, slot < other
      PROVE  Cardinality(below(slot)) # Cardinality(below(other))
  <2>1. below(slot) \cup {slot} \in SUBSET below(other)
    <3>1. slot \in Int /\ other \in Int /\ \A s \in used : s \in Int  BY <1>1
    <3>2. ASSUME NEW s \in used, s < slot PROVE s < other  BY <1>5, <3>1, <3>2
    <3> QED  BY <1>5, <3>2
  <2>2. Cardinality(below(slot) \cup {slot}) <= Cardinality(below(other))
    BY <1>3, <2>1, FS_Subset
  <2>3. /\ Cardinality(below(slot)) \in Nat /\ Cardinality(below(other)) \in Nat
        /\ Cardinality(below(slot) \cup {slot}) = Cardinality(below(slot)) + 1
    BY <1>3
  <2> HIDE DEF below
  <2> QED  BY <2>2, <2>3
<1>6. \A slot, other \in used :
        Cardinality(below(slot)) = Cardinality(below(other)) => slot = other
  <2>1. TAKE slot, other \in used
  <2>2. slot \in Int /\ other \in Int  BY <1>1
  <2>3. slot < other \/ other < slot \/ slot = other  BY <2>2
  <2> QED  BY <1>5, <2>3
<1> HIDE DEF below
<1>7. rank \in Injection(used, 0 .. count - 1)
  <2>1. rank \in [used -> 0 .. count - 1]  BY <1>2, <1>4
  <2>2. \A a, b \in used : rank[a] = rank[b] => a = b  BY <1>2, <1>6
  <2> HIDE DEF rank
  <2> QED  BY <2>1, <2>2, Fun_IsInj
<1>8. IsFiniteSet(0 .. count - 1) /\ Cardinality(0 .. count - 1) = count
  <2>1. 0 \in Int /\ count - 1 \in Int
        /\ (IF 0 > count - 1 THEN 0 ELSE count - 1 - 0 + 1) = count
    BY <1>1
  <2> HIDE DEF count
  <2> QED  BY <2>1, FS_Interval
<1>9. rank \in Surjection(used, 0 .. count - 1)
  BY <1>7, <1>8, FS_Injection
<1>10. \A i \in 0 .. count - 1 : \E slot \in used : EntriesBehind(table, slot) = i
  <2>1. \A i \in 0 .. count - 1 : \E slot \in used : rank[slot] = i
    <3> HIDE DEF rank
    <3> QED  BY <1>9, Fun_SurjectionProperties
  <2> QED  BY <2>1
<1> QED  BY <1>1, <1>2, <1>4, <1>6, <1>10 DEF used

(***************************************************************************)
(* getEntries() returns every entry of the table, and each once.           *)
(***************************************************************************)
LEMMA EntriesOfTable ==
  ASSUME NEW n \in Nat \ {0}, NEW table \in Table(n), IsProbeTable(table)
  PROVE  LET entries == GetEntries(table)
             count == Cardinality(UsedSlots(table)) IN
         /\ count \in Nat
         /\ entries \in [1 .. count -> Entry] /\ Len(entries) = count
         /\ \A i \in 1 .. count : \E slot \in UsedSlots(table) : entries[i] = table[slot]
         /\ \A slot \in UsedSlots(table) : \E i \in 1 .. count : entries[i] = table[slot]
         /\ \A i, j \in 1 .. count : entries[i].key = entries[j].key => i = j
<1> DEFINE used == UsedSlots(table)
           count == Cardinality(used)
           entries == GetEntries(table)
           slotAt(i) == CHOOSE slot \in used : EntriesBehind(table, slot) = i - 1
<1>1. /\ count \in Nat
      /\ \A i \in 0 .. count - 1 : \E slot \in used : EntriesBehind(table, slot) = i
      /\ \A slot \in used : EntriesBehind(table, slot) \in 0 .. count - 1
      /\ \A slot, other \in used :
           EntriesBehind(table, slot) = EntriesBehind(table, other) => slot = other
  BY RanksAreBijective
<1>2. entries = [i \in 1 .. count |-> table[slotAt(i)]]  BY DEF GetEntries
<1>3. \A slot \in used : slot \in 0 .. n - 1 /\ table[slot] \in Entry
  BY TableSize DEF Table
<1> HIDE DEF used, entries, count
<1>4. \A i \in 1 .. count : slotAt(i) \in used /\ EntriesBehind(table, slotAt(i)) = i - 1
  <2>1. TAKE i \in 1 .. count
  <2>2. i - 1 \in 0 .. count - 1  BY <1>1
  <2>3. \E slot \in used : EntriesBehind(table, slot) = i - 1  BY <1>1, <2>2
  <2> QED  BY <2>3
<1> HIDE DEF slotAt
<1>5. /\ entries \in [1 .. count -> Entry]
      /\ \A i \in 1 .. count : entries[i] = table[slotAt(i)]
  BY <1>2, <1>3, <1>4
<1>6. Len(entries) = count
  <2>1. entries \in Seq(Entry)  BY <1>1, <1>5, SeqDef
  <2>2. Len(entries) \in Nat /\ DOMAIN entries = 1 .. Len(entries)  BY <2>1, LenProperties
  <2> QED  BY <1>1, <1>5, <2>2
<1>7. ASSUME NEW slot \in used PROVE \E i \in 1 .. count : entries[i] = table[slot]
  <2> DEFINE i == EntriesBehind(table, slot) + 1
  <2>1. EntriesBehind(table, slot) \in 0 .. count - 1  BY <1>1
  <2>2. i \in 1 .. count /\ i - 1 = EntriesBehind(table, slot)  BY <1>1, <2>1
  <2> HIDE DEF i
  <2>3. slotAt(i) = slot  BY <1>1, <1>4, <2>2
  <2> QED  BY <1>5, <2>2, <2>3
<1>8. ASSUME NEW i \in 1 .. count, NEW j \in 1 .. count, entries[i].key = entries[j].key
      PROVE  i = j
  <2>1. slotAt(i) = slotAt(j)  BY <1>4, <1>5, <1>8 DEF IsProbeTable, used
  <2>2. i - 1 = j - 1  BY <1>4, <2>1
  <2> QED  BY <2>2
<1>9. \A i \in 1 .. count : \E slot \in used : entries[i] = table[slot]  BY <1>4, <1>5
<1> QED  BY <1>1, <1>5, <1>6, <1>7, <1>8, <1>9 DEF used, entries, count

-----------------------------------------------------------------------------
(***************************************************************************)
(* The states that expand() goes through, up to one of them.               *)
(***************************************************************************)
IsRefill(f, entries, size, last) ==
  f = [i \in 0 .. last |->
         IF i = 0 THEN [table |-> EmptyTable(size), used |-> 0]
                  ELSE Insert(f[i - 1], entries[i])]

(***************************************************************************)
(* The recursion of Refill defines a function, whatever the number of      *)
(* entries: were there none for some number, there would be none for a     *)
(* least one, and the function for one entry less has an extension.        *)
(***************************************************************************)
LEMMA RefillExists ==
  ASSUME NEW entries, NEW size, NEW last \in Nat
  PROVE  \E f : IsRefill(f, entries, size, last)
<1> DEFINE start == [table |-> EmptyTable(size), used |-> 0]
           failing == {m \in Nat : ~ \E f : IsRefill(f, entries, size, m)}
<1> SUFFICES ASSUME failing # {} PROVE FALSE  OBVIOUS
<1> DEFINE m == Nearest(failing)
<1>1. m \in failing /\ \A k \in failing : m <= k  BY NearestIsLeast
<1>2. m \in Nat /\ ~ \E f : IsRefill(f, entries, size, m)  BY <1>1
<1>3. \A k \in Nat : k < m => \E f : IsRefill(f, entries, size, k)
  <2>1. TAKE k \in Nat
  <2>2. HAVE k < m
  <2>3. k \notin failing  BY <1>1, <1>2, <2>2
  <2> QED  BY <2>3
<1> HIDE DEF failing, m
<1>4. CASE m = 0
  <2> DEFINE f == [i \in 0 .. 0 |-> start]
  <2>1. \A i \in 0 .. 0 : i = 0  OBVIOUS
  <2>2. IsRefill(f, entries, size, 0)  BY <2>1 DEF IsRefill
  <2> QED  BY <1>2, <1>4, <2>2
<1>5. CASE m # 0
  <2>1. m - 1 \in Nat /\ m - 1 < m  BY <1>2, <1>5
  <2>2. PICK f : IsRefill(f, entries, size, m - 1)  BY <1>3, <2>1
  <2> DEFINE g == [i \in 0 .. m |-> IF i = m THEN Insert(f[m - 1], entries[m]) ELSE f[i]]
  <2>3. ASSUME NEW i \in 0 .. m
        PROVE  g[i] = IF i = 0 THEN start ELSE Insert(g[i - 1], entries[i])
    <3>1. CASE i = m
      <4>1. m - 1 \in 0 .. m /\ m - 1 # m  BY <1>2, <2>1
      <4>2. g[i - 1] = f[m - 1]  BY <3>1, <4>1
      <4> QED  BY <1>5, <3>1, <4>2
    <3>2. CASE i # m
      <4>1. i \in 0 .. m - 1  BY <1>2, <3>2
      <4>2. f[i] = IF i = 0 THEN start ELSE Insert(f[i - 1], entries[i])
        BY <2>2, <4>1 DEF IsRefill
      <4>3. i # 0 => g[i - 1] = f[i - 1]
        <5>1. i # 0 => i - 1 \in 0 .. m /\ i - 1 # m  BY <1>2, <4>1
        <5> QED  BY <5>1
      <4> QED  BY <3>2, <4>2, <4>3
    <3> QED  BY <3>1, <3>2
  <2>4. g = [i \in 0 .. m |-> g[i]]  OBVIOUS
  <2> HIDE DEF g
  <2>5. IsRefill(g, entries, size, m)  BY <2>3, <2>4 DEF IsRefill
  <2> QED  BY <1>2, <2>5
<1> QED  BY <1>4, <1>5

(***************************************************************************)
(* What expand() does with the first entry, and with each one after it.    *)
(***************************************************************************)
LEMMA RefillSteps ==
  ASSUME NEW entries, Len(entries) \in Nat, NEW size
  PROVE  LET states == Refill(entries, size) IN
         /\ DOMAIN states = 0 .. Len(entries)
         /\ states[0] = [table |-> EmptyTable(size), used |-> 0]
         /\ \A i \in 1 .. Len(entries) : states[i] = Insert(states[i - 1], entries[i])
<1> DEFINE states == Refill(entries, size)
<1>1. IsRefill(states, entries, size, Len(entries))
  <2>1. PICK f : IsRefill(f, entries, size, Len(entries))  BY RefillExists
  <2> QED  BY <2>1 DEF IsRefill, Refill
<1> HIDE DEF states
<1>2. /\ DOMAIN states = 0 .. Len(entries)
      /\ \A i \in 0 .. Len(entries) :
           states[i] = IF i = 0 THEN [table |-> EmptyTable(size), used |-> 0]
                       ELSE Insert(states[i - 1], entries[i])
  BY <1>1 DEF IsRefill
<1>3. 0 \in 0 .. Len(entries) /\ \A i \in 1 .. Len(entries) : i \in 0 .. Len(entries) /\ i # 0
  OBVIOUS
<1> QED  BY <1>2, <1>3 DEF states

(***************************************************************************)
(* A table that holds the first i of some entries, and nothing else.       *)
(***************************************************************************)
HoldsFirst(state, entries, size, i) ==
  /\ IsSound(state, size)
  /\ state.used = i
  /\ \A key \in Key :
       /\ (\A j \in 1 .. i : entries[j].key # key) => Lookup(state.table, key) = EMPTY_PTR
       /\ \A j \in 1 .. i : entries[j].key = key => Lookup(state.table, key) = entries[j].ptr
  /\ \A slot \in 0 .. size - 1 :
       state.table[slot].ptr \in {EMPTY_PTR} \cup {entries[j].ptr : j \in 1 .. i}

(***************************************************************************)
(* The empty table holds nothing.                                          *)
(***************************************************************************)
LEMMA RefillStarts ==
  ASSUME NEW size \in Nat \ {0}, NEW entries
  PROVE  HoldsFirst([table |-> EmptyTable(size), used |-> 0], entries, size, 0)
<1> DEFINE start == [table |-> EmptyTable(size), used |-> 0]
<1>1. /\ EmptyTable(size) \in Table(size) /\ UsedSlots(EmptyTable(size)) = {}
      /\ IsProbeTable(EmptyTable(size))
  BY EmptyTableIsProbeTable
<1>2. start.table = EmptyTable(size) /\ start.used = 0  OBVIOUS
<1> HIDE DEF start
<1>3. IsSound(start, size)  BY <1>1, <1>2, FS_EmptySet DEF IsSound
<1>4. \A key \in Key : Lookup(start.table, key) = EMPTY_PTR
  BY <1>1, <1>2, AbsentIsEmpty
<1>5. \A slot \in 0 .. size - 1 : start.table[slot].ptr = EMPTY_PTR
  BY <1>2 DEF EmptyTable, FreeEntry
<1>6. 1 .. 0 = {}  OBVIOUS
<1> QED  BY <1>2, <1>3, <1>4, <1>5, <1>6 DEF HoldsFirst, start

(***************************************************************************)
(* An entry with a new key is one entry more.                              *)
(***************************************************************************)
LEMMA RefillContinues ==
  ASSUME NEW size \in Nat \ {0}, NEW count \in Nat, count <= size,
         NEW entries \in [1 .. count -> Entry],
         \A j \in 1 .. count : entries[j].ptr # EMPTY_PTR,
         \A j, k \in 1 .. count : entries[j].key = entries[k].key => j = k,
         NEW i \in 1 .. count, NEW state, HoldsFirst(state, entries, size, i - 1)
  PROVE  HoldsFirst(Insert(state, entries[i]), entries, size, i)
<1> DEFINE entry == entries[i]
           next == Insert(state, entry)
<1>1. IsSound(state, size) /\ state.used = i - 1  BY DEF HoldsFirst
<1>2. entry \in Entry /\ entry.key \in Key /\ entry.ptr # EMPTY_PTR  BY DEF Entry
<1>3. FreeSlots(state.table) # {}
  <2>1. /\ Cardinality(FreeSlots(state.table)) + Cardinality(UsedSlots(state.table)) = size
        /\ Cardinality(UsedSlots(state.table)) = i - 1
    BY <1>1, TableSize DEF IsSound
  <2>2. FreeSlots(state.table) = {} => Cardinality(FreeSlots(state.table)) = 0
    BY FS_EmptySet
  <2> QED  BY <2>1, <2>2
<1> HIDE DEF entry
<1>4. /\ IsSound(next, size)
      /\ \A key \in Key :
           Lookup(next.table, key) = IF key = entry.key THEN entry.ptr ELSE Lookup(state.table, key)
      /\ next.used = IF Lookup(state.table, entry.key) = EMPTY_PTR THEN state.used + 1 ELSE state.used
      /\ \A s \in 0 .. size - 1 : next.table[s] \in {state.table[s], entry}
  <2>1. IsSound(state, size) /\ entry \in Entry /\ entry.ptr # EMPTY_PTR  BY <1>1, <1>2
  <2>2. IsInsertion(state, next, entry, size)  BY <1>3, <2>1, InsertKeeps
  <2> HIDE DEF next
  <2> QED  BY <2>2 DEF IsInsertion
<1> HIDE DEF next
<1>5. /\ 1 .. i = (1 .. i - 1) \cup {i}
      /\ i \notin 1 .. i - 1
      /\ 1 .. i \subseteq 1 .. count
  OBVIOUS
<1>6. \A j \in 1 .. i - 1 : entries[j].key # entry.key  BY <1>5 DEF entry
<1>7. next.used = i
  <2>1. Lookup(state.table, entry.key) = EMPTY_PTR  BY <1>2, <1>6 DEF HoldsFirst
  <2> QED  BY <1>1, <1>4, <2>1
<1>8. ASSUME NEW key \in Key, \A j \in 1 .. i : entries[j].key # key
      PROVE  Lookup(next.table, key) = EMPTY_PTR
  <2>1. entry.key # key /\ \A j \in 1 .. i - 1 : entries[j].key # key
    BY <1>5, <1>8 DEF entry
  <2> QED  BY <1>4, <2>1 DEF HoldsFirst
<1>9. ASSUME NEW key \in Key, NEW j \in 1 .. i, entries[j].key = key
      PROVE  Lookup(next.table, key) = entries[j].ptr
  <2>1. CASE j = i  BY <1>4, <1>9, <2>1 DEF entry
  <2>2. CASE j # i
    <3>1. j \in 1 .. i - 1  BY <1>5, <2>2
    <3>2. entry.key # key  BY <1>6, <1>9, <3>1
    <3> QED  BY <1>4, <1>9, <3>1, <3>2 DEF HoldsFirst
  <2> QED  BY <2>1, <2>2
<1>10. ASSUME NEW slot \in 0 .. size - 1
       PROVE  next.table[slot].ptr \in {EMPTY_PTR} \cup {entries[j].ptr : j \in 1 .. i}
  <2>1. state.table[slot].ptr \in {EMPTY_PTR} \cup {entries[j].ptr : j \in 1 .. i - 1}
    BY DEF HoldsFirst
  <2>2. next.table[slot] \in {state.table[slot], entries[i]}  BY <1>4 DEF entry
  <2> QED  BY <1>5, <2>1, <2>2
<1> QED  BY <1>4, <1>7, <1>8, <1>9, <1>10 DEF HoldsFirst, next, entry

(***************************************************************************)
(* Every state that expand() goes through holds the entries put so far: a  *)
(* first one that does not would follow one that does.                     *)
(***************************************************************************)
LEMMA RefillHolds ==
  ASSUME NEW size \in Nat \ {0}, NEW count \in Nat, count <= size,
         NEW entries \in [1 .. count -> Entry], Len(entries) = count,
         \A j \in 1 .. count : entries[j].ptr # EMPTY_PTR,
         \A j, k \in 1 .. count : entries[j].key = entries[k].key => j = k
  PROVE  LET states == Refill(entries, size) IN
         /\ DOMAIN states = 0 .. count
         /\ \A i \in 0 .. count : HoldsFirst(states[i], entries, size, i)
<1> DEFINE states == Refill(entries, size)
           failing == {i \in 0 .. count : ~HoldsFirst(states[i], entries, size, i)}
<1>1. /\ DOMAIN states = 0 .. count
      /\ states[0] = [table |-> EmptyTable(size), used |-> 0]
      /\ \A i \in 1 .. count : states[i] = Insert(states[i - 1], entries[i])
  BY RefillSteps
<1> HIDE DEF states
<1>2. ASSUME failing # {} PROVE FALSE
  <2> DEFINE i == Nearest(failing)
  <2>1. failing \in SUBSET Nat  OBVIOUS
  <2>2. i \in failing /\ \A j \in failing : i <= j
    <3> HIDE DEF failing
    <3> QED  BY <1>2, <2>1, NearestIsLeast
  <2>3. i \in 0 .. count /\ ~HoldsFirst(states[i], entries, size, i)  BY <2>2
  <2>4. \A j \in 0 .. count : j < i => HoldsFirst(states[j], entries, size, j)
    <3>1. TAKE j \in 0 .. count
    <3>2. HAVE j < i
    <3>3. j \notin failing  BY <2>2, <2>3, <3>2
    <3> QED  BY <3>3
  <2> HIDE DEF failing, i
  <2>5. i # 0  BY <1>1, <2>3, RefillStarts
  <2>6. i \in 1 .. count /\ i - 1 \in 0 .. count /\ i - 1 < i  BY <2>3, <2>5
  <2>7. HoldsFirst(states[i - 1], entries, size, i - 1)  BY <2>4, <2>6
  <2>8. HoldsFirst(Insert(states[i - 1], entries[i]), entries, size, i)
    BY <2>6, <2>7, RefillContinues
  <2> QED  BY <1>1, <2>3, <2>6, <2>8
<1> QED  BY <1>1, <1>2 DEF states

(***************************************************************************)
(* expand() does not run into itself, and the table of twice the size      *)
(* answers every lookup as the one before it did.                          *)
(***************************************************************************)
LEMMA ExpansionKeeps ==
  ASSUME NEW n \in Nat \ {0}, NEW state, IsSound(state, n)
  PROVE  LET states == Refill(GetEntries(state.table), 2 * n)
             last == Cardinality(DOMAIN states) - 1
             expanded == states[last] IN
         /\ \A i \in DOMAIN states : ~IsOver(states[i])
         /\ last \in DOMAIN states
         /\ IsSound(expanded, 2 * n) /\ expanded.used = state.used
         /\ state.used \in 0 .. n
         /\ \A key \in Key : Lookup(expanded.table, key) = Lookup(state.table, key)
         /\ \A slot \in 0 .. 2 * n - 1 :
              \/ expanded.table[slot].ptr = EMPTY_PTR
              \/ \E s \in 0 .. n - 1 : expanded.table[slot].ptr = state.table[s].ptr
<1> DEFINE table == state.table
           entries == GetEntries(table)
           count == state.used
           states == Refill(entries, 2 * n)
           last == Cardinality(DOMAIN states) - 1
<1>1. /\ table \in Table(n) /\ IsProbeTable(table) /\ count = Cardinality(UsedSlots(table))
      /\ 2 * n \in Nat \ {0}
  BY DEF IsSound
<1> HIDE DEF table, count
<1>2. /\ count \in Nat /\ entries \in [1 .. count -> Entry] /\ Len(entries) = count
      /\ \A i \in 1 .. count : \E slot \in UsedSlots(table) : entries[i] = table[slot]
      /\ \A slot \in UsedSlots(table) : \E i \in 1 .. count : entries[i] = table[slot]
      /\ \A i, j \in 1 .. count : entries[i].key = entries[j].key => i = j
  BY <1>1, EntriesOfTable
<1> HIDE DEF entries
<1>3. /\ \A slot \in UsedSlots(table) : slot \in 0 .. n - 1 /\ table[slot].ptr # EMPTY_PTR
      /\ count <= n
  <2>1. /\ UsedSlots(table) \subseteq 0 .. n - 1 /\ IsFiniteSet(FreeSlots(table))
        /\ Cardinality(FreeSlots(table)) + count = n
    BY <1>1, TableSize
  <2>2. Cardinality(FreeSlots(table)) \in Nat  BY <2>1, FS_CardinalityType
  <2>3. count <= n  BY <1>2, <2>1, <2>2
  <2>4. \A slot \in UsedSlots(table) : table[slot].ptr # EMPTY_PTR
    BY DEF UsedSlots, FreeSlots
  <2> QED  BY <2>1, <2>3, <2>4
<1>4. count <= 2 * n /\ \A i \in 1 .. count : entries[i].ptr # EMPTY_PTR
  BY <1>2, <1>3
<1>5. /\ DOMAIN states = 0 .. count
      /\ \A i \in 0 .. count : HoldsFirst(states[i], entries, 2 * n, i)
  BY <1>1, <1>2, <1>4, RefillHolds
<1> HIDE DEF states
<1>6. last = count
  <2>1. 0 \in Int /\ count \in Int /\ ~(0 > count) /\ count - 0 + 1 - 1 = count  BY <1>2
  <2> QED  BY <1>5, <2>1, FS_Interval
<1>7. ASSUME NEW i \in 0 .. count PROVE ~IsOver(states[i])
  <2>1. states[i].used = i /\ states[i].table \in Table(2 * n)
    BY <1>5 DEF HoldsFirst, IsSound
  <2>2. Size(states[i].table) = 2 * n  BY <1>1, <2>1, TableSize
  <2> QED  BY <1>2, <1>3, <2>1, <2>2 DEF IsOver, IsOverloaded
<1>8. count \in 0 .. count  BY <1>2
<1>9. HoldsFirst(states[count], entries, 2 * n, count)  BY <1>5, <1>8
<1>10. ASSUME NEW key \in Key PROVE Lookup(states[count].table, key) = Lookup(table, key)
  <2>1. CASE \E slot \in UsedSlots(table) : table[slot].key = key
    <3>1. PICK slot \in UsedSlots(table) : table[slot].key = key  BY <2>1
    <3>2. PICK j \in 1 .. count : entries[j] = table[slot]  BY <1>2
    <3>3. Lookup(table, key) = table[slot].ptr  BY <1>1, <3>1, StoredIsFound
    <3> QED  BY <1>9, <3>1, <3>2, <3>3 DEF HoldsFirst
  <2>2. CASE ~ \E slot \in UsedSlots(table) : table[slot].key = key
    <3>1. ASSUME NEW j \in 1 .. count PROVE entries[j].key # key
      <4>1. PICK slot \in UsedSlots(table) : entries[j] = table[slot]  BY <1>2
      <4> QED  BY <2>2, <4>1
    <3>2. Lookup(table, key) = EMPTY_PTR  BY <1>1, <2>2, AbsentIsEmpty
    <3> QED  BY <1>9, <3>1, <3>2 DEF HoldsFirst
  <2> QED  BY <2>1, <2>2
<1>11. ASSUME NEW slot \in 0 .. 2 * n - 1
       PROVE  \/ states[count].table[slot].ptr = EMPTY_PTR
              \/ \E s \in 0 .. n - 1 : states[count].table[slot].ptr = table[s].ptr
  <2>1. states[count].table[slot].ptr \in {EMPTY_PTR} \cup {entries[j].ptr : j \in 1 .. count}
    BY <1>9 DEF HoldsFirst
  <2>2. \A j \in 1 .. count : \E s \in 0 .. n - 1 : entries[j].ptr = table[s].ptr
    BY <1>2, <1>3
  <2> QED  BY <2>1, <2>2
<1>12. count \in 0 .. n /\ IsSound(states[count], 2 * n) /\ states[count].used = count
  BY <1>2, <1>3, <1>9 DEF HoldsFirst
<1> HIDE DEF last
<1> QED  BY <1>5, <1>6, <1>7, <1>8, <1>10, <1>11, <1>12 DEF states, entries, table, count, last

-----------------------------------------------------------------------------
(***************************************************************************)
(* The counter of a table counts the keys that a lookup finds.             *)
(***************************************************************************)
LEMMA KeysAreCounted ==
  ASSUME NEW n \in Nat \ {0}, NEW state, IsSound(state, n)
  PROVE  Cardinality({key \in Key : Lookup(state.table, key) # EMPTY_PTR}) = state.used
<1> DEFINE table == state.table
           used == UsedSlots(table)
           found == {key \in Key : Lookup(table, key) # EMPTY_PTR}
           keyOf == [slot \in used |-> table[slot].key]
<1>1. /\ table \in Table(n) /\ IsProbeTable(table) /\ IsFiniteSet(used)
      /\ state.used = Cardinality(used)
  <2>1. table \in Table(n)  BY DEF IsSound
  <2>2. IsFiniteSet(used)  BY <2>1, TableSize
  <2> QED  BY <2>1, <2>2 DEF IsSound
<1>2. \A slot \in used : table[slot].key \in found
  <2>1. TAKE slot \in used
  <2> QED  BY <1>1, StoredIsFound
<1>3. \A key \in found : \E slot \in used : table[slot].key = key
  BY <1>1, LookupMeansStored
<1>4. \A s, t \in used : table[s].key = table[t].key => s = t
  BY <1>1 DEF IsProbeTable
<1> HIDE DEF used, table, found
<1>5. keyOf \in Bijection(used, found)
  <2>1. keyOf \in [used -> found]  BY <1>2
  <2>2. \A s, t \in used : keyOf[s] = keyOf[t] => s = t  BY <1>4
  <2>3. \A key \in found : \E s \in used : keyOf[s] = key  BY <1>3
  <2> HIDE DEF keyOf
  <2> QED  BY <2>1, <2>2, <2>3, Fun_IsBij
<1>6. ExistsBijection(used, found)  BY <1>5, Fun_ExistsBij
<1>7. Cardinality(used) = Cardinality(found)  BY <1>1, <1>6, FS_Bijection
<1> QED  BY <1>1, <1>7 DEF found, table

-----------------------------------------------------------------------------
(***************************************************************************)
(* The pointers an index ever holds, and a table of them.                  *)
(***************************************************************************)
StoredPtr == ValidPtr \ {NONEXISTENT}

IsStored(state, n) ==
  /\ IsSound(state, n)
  /\ \A slot \in 0 .. n - 1 : state.table[slot].ptr \in StoredPtr

(***************************************************************************)
(* The inductive invariant: no operation leaves a table behind that is     *)
(* over its load factor, so that the next one finds a free slot; and every *)
(* pointer is one that its byte gives back.                                *)
(***************************************************************************)
IInv ==
  /\ TypeOK
  /\ TableSound
  /\ \A slot \in DOMAIN data : data[slot].ptr \in StoredPtr
  /\ ~IsOverloaded(usedSize, Size(data))

(***************************************************************************)
(* The two sizes a table has.                                              *)
(***************************************************************************)
Sizes == {STORAGE_HASH_TABLE_INITIAL_SIZE, STORAGE_HASH_TABLE_MAX_SIZE}

(***************************************************************************)
(* A table of either size has slots, and the greatest size is the double.  *)
(***************************************************************************)
LEMMA SizesArePositive ==
  /\ Sizes \subseteq Nat \ {0}
  /\ STORAGE_HASH_TABLE_MAX_SIZE = 2 * STORAGE_HASH_TABLE_INITIAL_SIZE
  /\ \A n \in Sizes : n <= STORAGE_HASH_TABLE_MAX_SIZE
BY StorageHashTableAssumption DEF Sizes

(***************************************************************************)
(* The file that was written last, as a table with its counter.            *)
(***************************************************************************)
LEMMA DataIsStored ==
  ASSUME IInv
  PROVE  \E n \in Sizes :
           /\ n \in Nat \ {0}
           /\ data \in Table(n) /\ Size(data) = n /\ DOMAIN data = 0 .. n - 1
           /\ IsStored([table |-> data, used |-> usedSize], n)
           /\ usedSize \in 0 .. n /\ 3 * usedSize <= 2 * n
           /\ FreeSlots(data) # {}
<1>1. PICK n \in Sizes : data \in Table(n)  BY DEF IInv, TypeOK, Sizes
<1>2. n \in Nat \ {0}  BY SizesArePositive
<1>3. /\ Size(data) = n /\ DOMAIN data = 0 .. n - 1
      /\ Cardinality(FreeSlots(data)) + Cardinality(UsedSlots(data)) = n
  BY <1>1, <1>2, TableSize
<1>4. usedSize \in 0 .. n /\ 3 * usedSize <= 2 * n
  BY <1>2, <1>3 DEF IInv, TypeOK, IsOverloaded
<1>5. FreeSlots(data) # {}
  <2>1. Cardinality(FreeSlots(data)) + usedSize = n  BY <1>3 DEF IInv, TableSound
  <2>2. FreeSlots(data) = {} => Cardinality(FreeSlots(data)) = 0  BY FS_EmptySet
  <2> QED  BY <1>2, <1>4, <2>1, <2>2
<1>6. IsStored([table |-> data, used |-> usedSize], n)
  BY <1>1, <1>3 DEF IsStored, IsSound, IInv, TableSound
<1> QED  BY <1>1, <1>2, <1>3, <1>4, <1>5, <1>6

(***************************************************************************)
(* The table of a file that is accepted: as many slots as the file has, as *)
(* they were written; all of them, and the counter, if it is complete.     *)
(***************************************************************************)
LEMMA ReadBack ==
  ASSUME IInv, IsAccepted
  PROVE  /\ ReadSize \in 0 .. Size(data)
         /\ \A slot \in 0 .. ReadSize - 1 : slot \in DOMAIN data /\ ReadData[slot] = data[slot]
         /\ IsComplete => ReadData = data /\ ReadUsedSize = usedSize
<1>1. PICK n \in Sizes : /\ n \in Nat \ {0} /\ data \in Table(n)
                         /\ Size(data) = n /\ DOMAIN data = 0 .. n - 1
  BY DataIsStored
<1>2. length \in 0 .. n * 17 + 8 /\ 8 <= length
  <2>1. length \in 0 .. n * 17 + 8
    BY <1>1 DEF IInv, TypeOK, FullLength, ENTRY_SIZE, COUNTER_SIZE
  <2>2. ~(length < 8)  BY DEF IsAccepted, IsTooLong, COUNTER_SIZE
  <2> QED  BY <1>1, <2>1, <2>2
<1>3. WithoutUsedSize = length - 8
  <2>1. SIZE_T_MAX \in Nat /\ SIZE_T_MAX >= STORAGE_HASH_TABLE_MAX_SIZE * 17 + 8
        /\ STORAGE_HASH_TABLE_MAX_SIZE \in Nat /\ n <= STORAGE_HASH_TABLE_MAX_SIZE
    BY StorageHashTableAssumption, SizesArePositive DEF ENTRY_SIZE, COUNTER_SIZE
  <2>2. length - 8 \in 0 .. SIZE_T_MAX  BY <1>1, <1>2, <2>1
  <2>3. (length - 8) % (SIZE_T_MAX + 1) = length - 8  BY <2>1, <2>2
  <2> QED  BY <2>3 DEF WithoutUsedSize, COUNTER_SIZE
<1>4. ReadSize \in 0 .. n /\ (IsComplete => ReadSize = n)
  <2>1. ReadSize = (length - 8) \div 17  BY <1>3 DEF ReadSize, ENTRY_SIZE
  <2>2. IsComplete => length - 8 = n * 17
    BY <1>1 DEF IsComplete, FullLength, ENTRY_SIZE, COUNTER_SIZE
  <2>3. length - 8 \in 0 .. n * 17  BY <1>1, <1>2
  <2>4. (length - 8) \div 17 \in 0 .. n  BY <1>1, <2>3
  <2>5. (n * 17) \div 17 = n  BY <1>1
  <2> QED  BY <2>1, <2>2, <2>4, <2>5
<1>5. ASSUME NEW slot \in 0 .. ReadSize - 1
      PROVE  slot \in DOMAIN data /\ ReadData[slot] = data[slot]
  <2>1. slot \in DOMAIN data  BY <1>1, <1>4
  <2>2. data[slot].ptr \in ValidPtr  BY <2>1 DEF IInv, StoredPtr
  <2>3. Decode(Encode(data[slot].ptr)) = data[slot].ptr  BY <2>2, RawRoundTrip
  <2>4. data[slot] \in Entry  BY <1>1, <2>1 DEF Table
  <2>5. [data[slot] EXCEPT !.ptr = data[slot].ptr] = data[slot]  BY <2>4 DEF Entry
  <2>6. ReadData[slot] = [data[slot] EXCEPT !.ptr = Decode(Encode(data[slot].ptr))]
    BY DEF ReadData
  <2> QED  BY <2>1, <2>3, <2>5, <2>6
<1>6. ASSUME IsComplete PROVE ReadData = data /\ ReadUsedSize = usedSize
  <2>1. DOMAIN ReadData = DOMAIN data  BY <1>1, <1>4, <1>6 DEF ReadData
  <2>2. \A slot \in DOMAIN data : ReadData[slot] = data[slot]
    BY <1>1, <1>4, <1>5, <1>6
  <2>3. ReadData = [slot \in DOMAIN ReadData |-> ReadData[slot]]  BY DEF ReadData
  <2>4. data = [slot \in DOMAIN data |-> data[slot]]  BY <1>1 DEF Table
  <2>5. ReadData = data  BY <2>1, <2>2, <2>3, <2>4
  <2> QED  BY <1>6, <2>5 DEF ReadUsedSize
<1> QED  BY <1>1, <1>4, <1>5, <1>6

(***************************************************************************)
(* A pointer made from the offset of a record, as put() gets it.           *)
(***************************************************************************)
LEMMA OfferedEntry ==
  ASSUME NEW key \in Key, NEW offset \in OfferedOffset
  PROVE  LET entry == [key |-> key, ptr |-> Decode(RawPtrTo(offset, TRUE))] IN
         /\ entry \in Entry
         /\ entry.ptr = PtrTo(offset \div VALUE_SIZE, TRUE)
         /\ entry.ptr \in StoredPtr
         /\ entry.ptr # EMPTY_PTR
<1>1. PICK index \in 0 .. MAX_PTR_INDEX : offset = VALUE_SIZE * index
  BY StorageHashTableAssumption
<1>2. index \in 0 .. 125 /\ VALUE_SIZE \in Nat \ {0}
  BY MaxPtrIndexAssumption, ValueSizeAssumption
<1>3. offset \div VALUE_SIZE = index  BY <1>1, <1>2
<1>4. Decode(RawPtrTo(offset, TRUE)) = PtrTo(index, TRUE)  BY <1>1, OffsetRoundTrip
<1>5. PtrTo(index, TRUE) = [type |-> "PRESENT", index |-> index]  BY DEF PtrTo
<1>6. PtrTo(index, TRUE) \in ValidPtr /\ PtrTo(index, TRUE) \notin {EMPTY_PTR, NONEXISTENT}
  <2>1. [type |-> "PRESENT", index |-> index]
          \in [type : {"PRESENT", "DELETED"}, index : 0 .. MAX_PTR_INDEX]
    OBVIOUS
  <2>2. [type |-> "PRESENT", index |-> index].type \notin {EMPTY_PTR.type, NONEXISTENT.type}
    BY DEF EMPTY_PTR, NONEXISTENT
  <2> QED  BY <1>5, <2>1, <2>2 DEF ValidPtr
<1>7. PtrTo(index, TRUE) \in Ptr
  <2>1. [type |-> "PRESENT", index |-> index]
          \in [type : {"PRESENT", "DELETED"}, index : 0 .. 127]
    BY <1>2
  <2> QED  BY <1>5, <2>1 DEF Ptr
<1> QED  BY <1>3, <1>4, <1>6, <1>7 DEF StoredPtr, Entry

(***************************************************************************)
(* A table that is written keeps the invariant, however much of it reaches *)
(* the file.                                                               *)
(***************************************************************************)
LEMMA WriteKeeps ==
  ASSUME TypeOK, NEW n \in Sizes, NEW state, IsStored(state, n), ~IsOver(state),
         WriteFile(state.table, state.used)
  PROVE  IInv' /\ data' = state.table /\ UNCHANGED terminated
<1>1. n \in Nat \ {0}  BY SizesArePositive
<1>2. /\ data' = state.table /\ usedSize' = state.used /\ UNCHANGED terminated
      /\ length' \in {FullLength(data')} \cup 0 .. FullLength(data') - 1
  BY DEF WriteFile
<1>3. /\ data' \in Table(n) /\ IsProbeTable(data') /\ usedSize' = Cardinality(UsedSlots(data'))
      /\ \A slot \in 0 .. n - 1 : data'[slot].ptr \in StoredPtr
  BY <1>2 DEF IsStored, IsSound
<1>4. /\ DOMAIN data' = 0 .. n - 1 /\ Size(data') = n
      /\ Cardinality(FreeSlots(data')) + usedSize' = n
      /\ IsFiniteSet(FreeSlots(data')) /\ IsFiniteSet(UsedSlots(data'))
  BY <1>1, <1>3, TableSize
<1>5. usedSize' \in 0 .. n
  <2>1. Cardinality(FreeSlots(data')) \in Nat /\ usedSize' \in Nat
    BY <1>3, <1>4, FS_CardinalityType
  <2> QED  BY <1>1, <1>4, <2>1
<1>6. length' \in 0 .. FullLength(data')
  <2>1. FullLength(data') = n * 17 + 8
    BY <1>4 DEF FullLength, ENTRY_SIZE, COUNTER_SIZE
  <2> QED  BY <1>1, <1>2, <2>1
<1>7. TypeOK'
  BY <1>2, <1>3, <1>4, <1>5, <1>6 DEF TypeOK, Sizes
<1>8. ~IsOverloaded(usedSize', Size(data'))  BY <1>2 DEF IsOver
<1> QED  BY <1>2, <1>3, <1>4, <1>7, <1>8 DEF IInv, TableSound

(***************************************************************************)
(* An empty table is one that the index keeps.                             *)
(***************************************************************************)
LEMMA EmptyIsStored ==
  ASSUME NEW n \in Nat \ {0}
  PROVE  /\ IsStored([table |-> EmptyTable(n), used |-> 0], n)
         /\ ~IsOver([table |-> EmptyTable(n), used |-> 0])
         /\ \A key \in Key : Lookup(EmptyTable(n), key) = EMPTY_PTR
<1> DEFINE start == [table |-> EmptyTable(n), used |-> 0]
<1>1. HoldsFirst(start, <<>>, n, 0)  BY RefillStarts
<1>2. IsSound(start, n) /\ \A key \in Key : Lookup(start.table, key) = EMPTY_PTR
  BY <1>1 DEF HoldsFirst
<1>3. \A slot \in 0 .. n - 1 : start.table[slot].ptr = EMPTY_PTR
  BY DEF EmptyTable, FreeEntry
<1>4. EMPTY_PTR \in StoredPtr
  BY DEF StoredPtr, ValidPtr, EMPTY_PTR, NONEXISTENT
<1>5. IsStored(start, n)
  <2> HIDE DEF start
  <2> QED  BY <1>2, <1>3, <1>4 DEF IsStored
<1>6. Size(EmptyTable(n)) = n  BY EmptyTableIsProbeTable, TableSize
<1>7. ~IsOver(start)  BY <1>6 DEF IsOver, IsOverloaded
<1> QED  BY <1>2, <1>5, <1>7

(***************************************************************************)
(* An insertion keeps the pointers valid.                                  *)
(***************************************************************************)
LEMMA InsertedIsStored ==
  ASSUME NEW n \in Nat \ {0}, NEW state, IsStored(state, n), FreeSlots(state.table) # {},
         NEW entry \in Entry, entry.ptr \in StoredPtr, entry.ptr # EMPTY_PTR
  PROVE  LET inserted == Insert(state, entry) IN
         /\ IsStored(inserted, n)
         /\ \A key \in Key :
              Lookup(inserted.table, key) =
                IF key = entry.key THEN entry.ptr ELSE Lookup(state.table, key)
<1> DEFINE inserted == Insert(state, entry)
<1>1. IsSound(state, n) /\ \A slot \in 0 .. n - 1 : state.table[slot].ptr \in StoredPtr
  BY DEF IsStored
<1>2. IsInsertion(state, inserted, entry, n)  BY <1>1, InsertKeeps
<1> HIDE DEF inserted
<1>3. ASSUME NEW slot \in 0 .. n - 1 PROVE inserted.table[slot].ptr \in StoredPtr
  <2>1. inserted.table[slot] \in {state.table[slot], entry}  BY <1>2 DEF IsInsertion
  <2> QED  BY <1>1, <2>1
<1> QED  BY <1>2, <1>3 DEF IsInsertion, IsStored, inserted

(***************************************************************************)
(* setValuePresent changes the pointer of one key to its other form.       *)
(***************************************************************************)
LEMMA MarkedIsStored ==
  ASSUME NEW n \in Nat \ {0}, NEW table, NEW used,
         IsStored([table |-> table, used |-> used], n),
         NEW key \in Key, PointsToValue(Lookup(table, key)), NEW isPresent \in BOOLEAN
  PROVE  LET marked == [table EXCEPT ![SlotForGet(table, key)].ptr =
                          Decode(SetRawPresent(Encode(@), isPresent))] IN
         /\ IsStored([table |-> marked, used |-> used], n)
         /\ \A other \in Key :
              Lookup(marked, other) =
                IF other = key THEN SetValuePresent(Lookup(table, key), isPresent)
                               ELSE Lookup(table, other)
<1> DEFINE slot == SlotForGet(table, key)
           ptr == Lookup(table, key)
           newPtr == Decode(SetRawPresent(Encode(table[slot].ptr), isPresent))
           marked == [table EXCEPT ![slot].ptr = Decode(SetRawPresent(Encode(@), isPresent))]
<1>1. /\ table \in Table(n) /\ IsProbeTable(table) /\ used = Cardinality(UsedSlots(table))
      /\ \A s \in 0 .. n - 1 : table[s].ptr \in StoredPtr
  BY DEF IsStored, IsSound
<1>2. ptr # EMPTY_PTR /\ ptr # NONEXISTENT
  BY DEF PointsToValue, EMPTY_PTR, NONEXISTENT
<1>3. slot \in UsedSlots(table) /\ table[slot] = [key |-> key, ptr |-> ptr]
  BY <1>1, <1>2, LookupMeansStored
<1> HIDE DEF slot, ptr
<1>4. DOMAIN table = 0 .. n - 1 /\ UsedSlots(table) \subseteq 0 .. n - 1
  BY <1>1, TableSize
<1>5. ptr \in StoredPtr /\ table[slot].ptr = ptr /\ slot \in 0 .. n - 1
  BY <1>1, <1>3, <1>4
<1>6. /\ newPtr = SetValuePresent(ptr, isPresent)
      /\ newPtr \in StoredPtr /\ newPtr \in Ptr /\ newPtr # EMPTY_PTR
  <2>1. ptr \in [type : {"PRESENT", "DELETED"}, index : 0 .. MAX_PTR_INDEX]
    BY <1>2, <1>5 DEF StoredPtr, ValidPtr
  <2>2. ptr.index \in 0 .. MAX_PTR_INDEX /\ ptr = PtrTo(ptr.index, ptr.type = "PRESENT")
    BY <2>1 DEF PtrTo
  <2>3. newPtr = SetValuePresent(ptr, isPresent)
    <3> DEFINE was == ptr.type = "PRESENT"
               index == ptr.index
    <3>1. was \in BOOLEAN /\ index \in 0 .. MAX_PTR_INDEX /\ ptr = PtrTo(index, was)
      BY <2>2
    <3> HIDE DEF was, index
    <3> QED  BY <1>5, <3>1, MarkingKeepsIndex
  <2> HIDE DEF newPtr
  <2>4. newPtr = [type |-> IF isPresent THEN "PRESENT" ELSE "DELETED", index |-> ptr.index]
    BY <2>3 DEF SetValuePresent, PtrTo
  <2>5. newPtr \in [type : {"PRESENT", "DELETED"}, index : 0 .. MAX_PTR_INDEX]
    BY <2>2, <2>4
  <2>6. newPtr # EMPTY_PTR /\ newPtr # NONEXISTENT
    BY <2>4 DEF EMPTY_PTR, NONEXISTENT
  <2>7. newPtr \in Ptr
    <3>1. ptr.index \in 0 .. 127  BY <2>2, MaxPtrIndexAssumption
    <3> QED  BY <2>4, <3>1 DEF Ptr
  <2> QED  BY <2>3, <2>5, <2>6, <2>7 DEF StoredPtr, ValidPtr
<1> HIDE DEF newPtr
<1>7. /\ marked = [table EXCEPT ![slot] = [table[slot] EXCEPT !.ptr = newPtr]]
      /\ [table[slot] EXCEPT !.ptr = newPtr] = [key |-> key, ptr |-> newPtr]
  BY <1>3 DEF newPtr
<1>8. /\ marked \in Table(n)
      /\ marked[slot] = [key |-> key, ptr |-> newPtr]
      /\ \A s \in 0 .. n - 1 : s # slot => marked[s] = table[s]
  <2>1. [key |-> key, ptr |-> newPtr] \in Entry  BY <1>6 DEF Entry
  <2> QED  BY <1>1, <1>4, <1>5, <1>7, <2>1 DEF Table
<1> HIDE DEF marked
<1>9. DOMAIN marked = 0 .. n - 1  BY <1>8, TableSize
<1>10. UsedSlots(marked) = UsedSlots(table)
  <2>1. \A s \in 0 .. n - 1 : marked[s].ptr = EMPTY_PTR <=> table[s].ptr = EMPTY_PTR
    BY <1>2, <1>5, <1>6, <1>8
  <2> QED  BY <1>4, <1>9, <2>1 DEF UsedSlots, FreeSlots
<1>11. \A s \in UsedSlots(table) : marked[s].key = table[s].key
  BY <1>3, <1>4, <1>8
<1>12. IsProbeTable(marked)  BY <1>1, <1>8, <1>10, <1>11, SameKeysKeep
<1>13. \A s \in 0 .. n - 1 : marked[s].ptr \in StoredPtr  BY <1>1, <1>6, <1>8
<1>14. ASSUME NEW other \in Key
       PROVE  Lookup(marked, other) = IF other = key THEN newPtr ELSE Lookup(table, other)
  <2>1. CASE other = key
    BY <1>3, <1>8, <1>10, <1>12, <2>1, StoredIsFound
  <2>2. CASE other # key /\ \E s \in UsedSlots(table) : table[s].key = other
    <3>1. PICK s \in UsedSlots(table) : table[s].key = other  BY <2>2
    <3>2. s # slot  BY <1>3, <2>2, <3>1
    <3>3. marked[s] = table[s]  BY <1>4, <1>8, <3>2
    <3>4. Lookup(marked, other) = marked[s].ptr
      BY <1>8, <1>10, <1>12, <3>1, <3>3, StoredIsFound
    <3>5. Lookup(table, other) = table[s].ptr  BY <1>1, <3>1, StoredIsFound
    <3> QED  BY <2>2, <3>3, <3>4, <3>5
  <2>3. CASE other # key /\ ~ \E s \in UsedSlots(table) : table[s].key = other
    <3>1. Lookup(table, other) = EMPTY_PTR  BY <1>1, <2>3, AbsentIsEmpty
    <3>2. \A s \in UsedSlots(marked) : marked[s].key # other  BY <1>10, <1>11, <2>3
    <3>3. Lookup(marked, other) = EMPTY_PTR  BY <1>8, <3>2, AbsentIsEmpty
    <3> QED  BY <2>3, <3>1, <3>3
  <2> QED  BY <2>1, <2>2, <2>3
<1>15. IsStored([table |-> marked, used |-> used], n)
  BY <1>1, <1>8, <1>10, <1>12, <1>13 DEF IsStored, IsSound
<1> QED  BY <1>6, <1>14, <1>15 DEF marked, slot, ptr

(***************************************************************************)
(* The two tables that put() may write, and when it writes neither: the    *)
(* expansion never runs into itself, so that what cannot be expanded is a  *)
(* table that already has been.                                            *)
(***************************************************************************)
LEMMA PutWrites ==
  ASSUME IInv, IsUsable, NEW key \in Key, NEW offset \in OfferedOffset
  PROVE  LET entry == [key |-> key, ptr |-> Decode(RawPtrTo(offset, TRUE))]
             inserted == Inserted(entry)
             expanded == Expansion(entry)[Cardinality(DOMAIN Expansion(entry)) - 1]
         IN \E n \in Sizes :
              /\ IsStored(inserted, n)
              /\ \A other \in Key :
                   Lookup(inserted.table, other) =
                     IF other = key THEN entry.ptr ELSE Lookup(data, other)
              /\ inserted.used \in 0 .. n
              /\ IsOver(inserted) <=> 3 * inserted.used > 2 * n
              /\ CannotExpand(entry) <=> n = STORAGE_HASH_TABLE_MAX_SIZE
              /\ IsStored(expanded, 2 * n) /\ ~IsOver(expanded)
              /\ \A other \in Key :
                   Lookup(expanded.table, other) = Lookup(inserted.table, other)
<1> DEFINE entry == [key |-> key, ptr |-> Decode(RawPtrTo(offset, TRUE))]
           before == [table |-> data, used |-> usedSize]
           inserted == Inserted(entry)
           last == Cardinality(DOMAIN Expansion(entry)) - 1
           expanded == Expansion(entry)[last]
<1>1. PICK n \in Sizes : /\ n \in Nat \ {0} /\ Size(data) = n
                         /\ IsStored(before, n) /\ FreeSlots(data) # {}
  BY DataIsStored
<1>2. ReadData = data /\ ReadUsedSize = usedSize  BY ReadBack DEF IsUsable
<1>3. /\ entry \in Entry /\ entry.ptr \in StoredPtr /\ entry.ptr # EMPTY_PTR
      /\ entry.key = key
  BY OfferedEntry
<1> HIDE DEF entry
<1>4. inserted = Insert(before, entry)  BY <1>2 DEF Inserted
<1>5. before.table = data  OBVIOUS
<1> HIDE DEF before
<1>6. /\ IsStored(inserted, n)
      /\ \A other \in Key :
           Lookup(inserted.table, other) =
             IF other = key THEN entry.ptr ELSE Lookup(data, other)
  <2>1. FreeSlots(before.table) # {}  BY <1>1, <1>5
  <2>2. /\ IsStored(Insert(before, entry), n)
        /\ \A other \in Key :
             Lookup(Insert(before, entry).table, other) =
               IF other = entry.key THEN entry.ptr ELSE Lookup(before.table, other)
    BY <1>1, <1>3, <2>1, InsertedIsStored
  <2> HIDE DEF inserted
  <2> QED  BY <1>3, <1>4, <1>5, <2>2
<1>7. Expansion(entry) = Refill(GetEntries(inserted.table), 2 * n)
  BY <1>1, <1>2 DEF Expansion
<1> HIDE DEF inserted
<1>8. /\ IsSound(inserted, n)
      /\ \A slot \in 0 .. n - 1 : inserted.table[slot].ptr \in StoredPtr
  BY <1>6 DEF IsStored
<1>9. /\ \A i \in DOMAIN Expansion(entry) : ~IsOver(Expansion(entry)[i])
      /\ last \in DOMAIN Expansion(entry)
      /\ IsSound(expanded, 2 * n)
      /\ inserted.used \in 0 .. n
      /\ \A other \in Key : Lookup(expanded.table, other) = Lookup(inserted.table, other)
      /\ \A slot \in 0 .. 2 * n - 1 :
           \/ expanded.table[slot].ptr = EMPTY_PTR
           \/ \E s \in 0 .. n - 1 : expanded.table[slot].ptr = inserted.table[s].ptr
  <2> DEFINE states == Refill(GetEntries(inserted.table), 2 * n)
             end == Cardinality(DOMAIN states) - 1
  <2>1. n \in Nat \ {0} /\ IsSound(inserted, n)  BY <1>1, <1>8
  <2>2. /\ \A i \in DOMAIN states : ~IsOver(states[i])
        /\ end \in DOMAIN states
        /\ IsSound(states[end], 2 * n) /\ inserted.used \in 0 .. n
    BY <2>1, ExpansionKeeps
  <2>3. \A other \in Key : Lookup(states[end].table, other) = Lookup(inserted.table, other)
    BY <2>1, ExpansionKeeps
  <2>4. \A slot \in 0 .. 2 * n - 1 :
          \/ states[end].table[slot].ptr = EMPTY_PTR
          \/ \E s \in 0 .. n - 1 : states[end].table[slot].ptr = inserted.table[s].ptr
    BY <2>1, ExpansionKeeps
  <2>5. Expansion(entry) = states  BY <1>7
  <2> HIDE DEF states
  <2> QED  BY <2>2, <2>3, <2>4, <2>5
<1>10. ~IsOver(expanded)  BY <1>9
<1> HIDE DEF last, expanded
<1>11. IsStored(expanded, 2 * n)
  <2>1. EMPTY_PTR \in StoredPtr
    BY DEF StoredPtr, ValidPtr, EMPTY_PTR, NONEXISTENT
  <2>2. ASSUME NEW slot \in 0 .. 2 * n - 1 PROVE expanded.table[slot].ptr \in StoredPtr
    BY <1>8, <1>9, <2>1
  <2> QED  BY <1>9, <2>2 DEF IsStored
<1>12. IsOver(inserted) <=> 3 * inserted.used > 2 * n
  <2>1. Size(inserted.table) = n  BY <1>1, <1>8, TableSize DEF IsSound
  <2> QED  BY <2>1 DEF IsOver, IsOverloaded
<1>13. CannotExpand(entry) <=> n = STORAGE_HASH_TABLE_MAX_SIZE
  <2>1. CannotExpand(entry) <=> 2 * n > STORAGE_HASH_TABLE_MAX_SIZE
    BY <1>1, <1>2, <1>9 DEF CannotExpand
  <2>2. /\ STORAGE_HASH_TABLE_INITIAL_SIZE \in Nat \ {0}
        /\ STORAGE_HASH_TABLE_MAX_SIZE = 2 * STORAGE_HASH_TABLE_INITIAL_SIZE
        /\ n \in {STORAGE_HASH_TABLE_INITIAL_SIZE, STORAGE_HASH_TABLE_MAX_SIZE}
    BY StorageHashTableAssumption DEF Sizes
  <2> QED  BY <2>1, <2>2
<1> QED
  BY <1>6, <1>9, <1>10, <1>11, <1>12, <1>13 DEF entry, inserted, last, expanded

(***************************************************************************)
(* The operators of the abstract map that do not depend on its state are   *)
(* those of the table.                                                     *)
(***************************************************************************)
LEMMA IndexOperators ==
  /\ \A S : Index!Cardinality(S) = Cardinality(S)
  /\ Index!EMPTY_PTR = EMPTY_PTR
  /\ \A ptr : Index!PointsToValue(ptr) = PointsToValue(ptr)
  /\ \A ptr, isPresent : Index!SetValuePresent(ptr, isPresent) = SetValuePresent(ptr, isPresent)
<1>1. \A S : Index!Cardinality(S) = Cardinality(S)
  BY DEF Index!Cardinality, Cardinality
<1>2. Index!EMPTY_PTR = EMPTY_PTR  BY DEF Index!EMPTY_PTR, EMPTY_PTR
<1>3. \A ptr : Index!PointsToValue(ptr) = PointsToValue(ptr)
  BY DEF Index!PointsToValue, PointsToValue
<1>4. \A ptr, isPresent : Index!SetValuePresent(ptr, isPresent) = SetValuePresent(ptr, isPresent)
  BY DEF Index!SetValuePresent, SetValuePresent, Index!PtrTo, PtrTo
<1> QED  BY <1>1, <1>2, <1>3, <1>4

(***************************************************************************)
(* What the abstract map counts after a put is what the counter counts.    *)
(***************************************************************************)
LEMMA IndexedIsCounted ==
  ASSUME NEW n \in Nat \ {0}, NEW state, IsStored(state, n),
         NEW key \in Key, NEW ptr, ptr # EMPTY_PTR,
         \A other \in Key :
           Lookup(state.table, other) = IF other = key THEN ptr ELSE Lookup(data, other)
  PROVE  Cardinality(Index!Indexed \cup {key}) = state.used
<1>1. Index!Indexed \cup {key} = {k \in Key : Lookup(state.table, k) # EMPTY_PTR}
  BY IndexOperators DEF Index!Indexed
<1>2. IsSound(state, n)  BY DEF IsStored
<1> QED  BY <1>1, <1>2, KeysAreCounted

(***************************************************************************)
(* put() writes a table within its load factor and is the put of the       *)
(* abstract map, expanded or not.                                          *)
(***************************************************************************)
LEMMA PutKeeps ==
  ASSUME IInv, NEW key \in Key, NEW offset \in OfferedOffset,
         Put([key |-> key, ptr |-> Decode(RawPtrTo(offset, TRUE))])
  PROVE  IInv' /\ Index!Put(key)
<1> DEFINE entry == [key |-> key, ptr |-> Decode(RawPtrTo(offset, TRUE))]
           inserted == Inserted(entry)
           expanded == Expansion(entry)[Cardinality(DOMAIN Expansion(entry)) - 1]
           before == [k \in Key |-> Lookup(data, k)]
           after == [k \in Key |-> Lookup(data', k)]
<1>1. /\ entry.ptr = PtrTo(offset \div VALUE_SIZE, TRUE)
      /\ entry.ptr # EMPTY_PTR
  BY OfferedEntry
<1>2. IsUsable  BY DEF Put
<1>3. PICK n \in Sizes :
        /\ IsStored(inserted, n)
        /\ \A other \in Key :
             Lookup(inserted.table, other) =
               IF other = key THEN entry.ptr ELSE Lookup(data, other)
        /\ inserted.used \in 0 .. n
        /\ IsOver(inserted) <=> 3 * inserted.used > 2 * n
        /\ CannotExpand(entry) <=> n = STORAGE_HASH_TABLE_MAX_SIZE
        /\ IsStored(expanded, 2 * n) /\ ~IsOver(expanded)
        /\ \A other \in Key :
             Lookup(expanded.table, other) = Lookup(inserted.table, other)
  BY <1>2, PutWrites
<1>4. \/ ~IsOver(inserted) /\ WriteFile(inserted.table, inserted.used)
      \/ /\ IsOver(inserted) /\ ~CannotExpand(entry)
         /\ WriteFile(expanded.table, expanded.used)
  BY DEF Put
<1> HIDE DEF entry, inserted, expanded
<1>5. /\ n \in Nat \ {0}
      /\ STORAGE_HASH_TABLE_INITIAL_SIZE \in Nat \ {0}
      /\ STORAGE_HASH_TABLE_MAX_SIZE = 2 * STORAGE_HASH_TABLE_INITIAL_SIZE
      /\ n \in {STORAGE_HASH_TABLE_INITIAL_SIZE, STORAGE_HASH_TABLE_MAX_SIZE}
  BY StorageHashTableAssumption DEF Sizes
<1>6. /\ IInv' /\ UNCHANGED terminated
      /\ \A other \in Key : Lookup(data', other) = Lookup(inserted.table, other)
      /\ 3 * inserted.used <= 2 * STORAGE_HASH_TABLE_MAX_SIZE
  <2>1. TypeOK  BY DEF IInv
  <2>2. CASE ~IsOver(inserted) /\ WriteFile(inserted.table, inserted.used)
    <3>1. IInv' /\ data' = inserted.table /\ UNCHANGED terminated
      BY <1>3, <2>1, <2>2, WriteKeeps
    <3>2. 3 * inserted.used <= 2 * STORAGE_HASH_TABLE_MAX_SIZE  BY <1>3, <1>5, <2>2
    <3> QED  BY <3>1, <3>2
  <2>3. CASE /\ IsOver(inserted) /\ ~CannotExpand(entry)
             /\ WriteFile(expanded.table, expanded.used)
    <3>1. n = STORAGE_HASH_TABLE_INITIAL_SIZE  BY <1>3, <1>5, <2>3
    <3>2. 2 * n \in Sizes  BY <1>5, <3>1 DEF Sizes
    <3>3. IInv' /\ data' = expanded.table /\ UNCHANGED terminated
      BY <1>3, <2>1, <2>3, <3>2, WriteKeeps
    <3>4. 3 * inserted.used <= 2 * STORAGE_HASH_TABLE_MAX_SIZE  BY <1>3, <1>5, <3>1
    <3> QED  BY <1>3, <3>3, <3>4
  <2> QED  BY <1>4, <2>2, <2>3
<1>7. Cardinality(Index!Indexed \cup {key}) = inserted.used
  BY <1>1, <1>3, <1>5, IndexedIsCounted
<1>8. ~Index!Overflows(key)  BY <1>3, <1>5, <1>6, <1>7, IndexOperators DEF Index!Overflows
<1>9. after = [before EXCEPT ![key] = after[key]]
  BY <1>3, <1>6
<1>10. after[key] = PtrTo(offset \div VALUE_SIZE, TRUE)  BY <1>1, <1>3, <1>6
<1>11. after[key] \in {PtrTo(o \div VALUE_SIZE, TRUE) : o \in OfferedOffset}
  BY <1>10
<1> QED  BY <1>6, <1>8, <1>9, <1>11 DEF Index!Put

(***************************************************************************)
(* The process dies only where the abstract map is full.                   *)
(***************************************************************************)
LEMMA OverflowKeeps ==
  ASSUME IInv, NEW key \in Key, NEW offset \in OfferedOffset,
         Overflow([key |-> key, ptr |-> Decode(RawPtrTo(offset, TRUE))])
  PROVE  IInv' /\ Index!Overflow(key)
<1> DEFINE entry == [key |-> key, ptr |-> Decode(RawPtrTo(offset, TRUE))]
           inserted == Inserted(entry)
<1>1. entry.ptr # EMPTY_PTR  BY OfferedEntry
<1>2. IsUsable  BY DEF Overflow
<1>3. PICK n \in Sizes :
        /\ IsStored(inserted, n)
        /\ \A other \in Key :
             Lookup(inserted.table, other) =
               IF other = key THEN entry.ptr ELSE Lookup(data, other)
        /\ inserted.used \in 0 .. n
        /\ IsOver(inserted) <=> 3 * inserted.used > 2 * n
        /\ CannotExpand(entry) <=> n = STORAGE_HASH_TABLE_MAX_SIZE
  BY <1>2, PutWrites
<1>4. /\ IsOver(inserted) /\ CannotExpand(entry)
      /\ terminated' = TRUE /\ UNCHANGED <<data, usedSize, length>>
  BY DEF Overflow
<1> HIDE DEF entry, inserted
<1>5. Cardinality(Index!Indexed \cup {key}) = inserted.used
  <2>1. n \in Nat \ {0}  BY SizesArePositive
  <2> QED  BY <1>1, <1>3, <2>1, IndexedIsCounted
<1>6. Index!Overflows(key)  BY <1>3, <1>4, <1>5, IndexOperators DEF Index!Overflows
<1>7. IInv'
  BY <1>4 DEF IInv, TypeOK, TableSound, FullLength, IsOverloaded
<1> QED  BY <1>4, <1>6, <1>7 DEF Index!Overflow

(***************************************************************************)
(* setValuePresent is the mark of the abstract map.                        *)
(***************************************************************************)
LEMMA MarkKeeps ==
  ASSUME IInv, NEW key \in Key, NEW isPresent \in BOOLEAN, Mark(key, isPresent)
  PROVE  IInv' /\ Index!Mark(key)
<1> DEFINE marked == [data EXCEPT ![SlotForGet(data, key)].ptr =
                        Decode(SetRawPresent(Encode(@), isPresent))]
           state == [table |-> data, used |-> usedSize]
           written == [table |-> marked, used |-> usedSize]
           before == [k \in Key |-> Lookup(data, k)]
           after == [k \in Key |-> Lookup(data', k)]
<1>1. PICK n \in Sizes : /\ n \in Nat \ {0} /\ IsStored(state, n)
                         /\ data \in Table(n) /\ Size(data) = n /\ 3 * usedSize <= 2 * n
                         /\ usedSize \in 0 .. n
  BY DataIsStored
<1>2. ReadData = data /\ ReadUsedSize = usedSize  BY ReadBack DEF Mark, IsUsable
<1>3. PointsToValue(Lookup(data, key)) /\ WriteFile(marked, usedSize)
  BY <1>2 DEF Mark
<1>5. written.table = marked /\ written.used = usedSize  OBVIOUS
<1>6. /\ IsStored(written, n)
      /\ \A other \in Key :
           Lookup(marked, other) =
             IF other = key THEN SetValuePresent(Lookup(data, key), isPresent)
                            ELSE Lookup(data, other)
  BY <1>1, <1>3, MarkedIsStored
<1> HIDE DEF marked, written
<1>7. ~IsOver(written)
  <2>1. written.table \in Table(n)  BY <1>6 DEF IsStored, IsSound
  <2>2. Size(written.table) = n  BY <1>1, <2>1, TableSize
  <2> QED  BY <1>1, <1>5, <2>2 DEF IsOver, IsOverloaded
<1>8. IInv' /\ data' = marked /\ UNCHANGED terminated
  <2>1. WriteFile(written.table, written.used)  BY <1>3, <1>5
  <2>2. IInv' /\ data' = written.table /\ UNCHANGED terminated
    BY <1>6, <1>7, <2>1, WriteKeeps DEF IInv
  <2> QED  BY <1>5, <2>2
<1>9. after = [before EXCEPT ![key] = SetValuePresent(@, isPresent)]
  BY <1>6, <1>8
<1>10. PointsToValue(before[key])  BY <1>3
<1> QED  BY <1>8, <1>9, <1>10, IndexOperators DEF Index!Mark

(***************************************************************************)
(* A new table is an empty map.                                            *)
(***************************************************************************)
LEMMA RenewKeeps ==
  ASSUME IInv, Renew
  PROVE  IInv' /\ Index!Renew
<1> DEFINE n == STORAGE_HASH_TABLE_INITIAL_SIZE
           start == [table |-> EmptyTable(n), used |-> 0]
<1>1. n \in Sizes /\ n \in Nat \ {0}  BY StorageHashTableAssumption DEF Sizes
<1>2. /\ IsStored(start, n) /\ ~IsOver(start)
      /\ \A key \in Key : Lookup(EmptyTable(n), key) = EMPTY_PTR
  BY <1>1, EmptyIsStored
<1>3. WriteFile(EmptyTable(n), 0)  BY DEF Renew
<1>4. start.table = EmptyTable(n) /\ start.used = 0  OBVIOUS
<1> HIDE DEF n, start
<1>5. WriteFile(start.table, start.used)  BY <1>3, <1>4
<1>6. IInv' /\ data' = EmptyTable(n) /\ UNCHANGED terminated
  BY <1>1, <1>2, <1>4, <1>5, WriteKeeps DEF IInv
<1> QED  BY <1>2, <1>6, IndexOperators DEF Index!Renew

-----------------------------------------------------------------------------
(***************************************************************************)
(* The invariant holds of a new table, and every operation keeps it and is *)
(* an operation of the abstract map.                                       *)
(***************************************************************************)
LEMMA InitHolds ==
  ASSUME Init
  PROVE  IInv /\ Index!Init
<1> DEFINE n == STORAGE_HASH_TABLE_INITIAL_SIZE
           start == [table |-> EmptyTable(n), used |-> 0]
<1>1. n \in Nat \ {0}  BY StorageHashTableAssumption
<1>2. /\ IsStored(start, n)
      /\ \A key \in Key : Lookup(EmptyTable(n), key) = EMPTY_PTR
  BY <1>1, EmptyIsStored
<1>3. /\ data = EmptyTable(n) /\ usedSize = 0
      /\ length = FullLength(data) /\ terminated = FALSE
  BY DEF Init
<1> HIDE DEF n
<1>4. /\ data \in Table(n) /\ IsProbeTable(data) /\ usedSize = Cardinality(UsedSlots(data))
      /\ \A slot \in 0 .. n - 1 : data[slot].ptr \in StoredPtr
  BY <1>2, <1>3 DEF IsStored, IsSound
<1>5. Size(data) = n /\ DOMAIN data = 0 .. n - 1  BY <1>1, <1>4, TableSize
<1>6. length \in 0 .. FullLength(data) /\ usedSize \in 0 .. Size(data)
  <2>1. FullLength(data) = n * 17 + 8
    BY <1>5 DEF FullLength, ENTRY_SIZE, COUNTER_SIZE
  <2> QED  BY <1>1, <1>3, <1>5, <2>1
<1>7. TypeOK  BY <1>3, <1>4, <1>6 DEF TypeOK, n
<1>8. IInv
  BY <1>1, <1>3, <1>4, <1>5, <1>7 DEF IInv, TableSound, IsOverloaded
<1> QED  BY <1>2, <1>3, <1>8, IndexOperators DEF Index!Init

LEMMA NextKeeps ==
  ASSUME IInv, Next
  PROVE  IInv' /\ Index!Next
<1>1. ASSUME NEW key \in Key, NEW offset \in OfferedOffset,
             Put([key |-> key, ptr |-> Decode(RawPtrTo(offset, TRUE))])
      PROVE  IInv' /\ Index!Next
  BY <1>1, PutKeeps DEF Index!Next
<1>2. ASSUME NEW key \in Key, NEW offset \in OfferedOffset,
             Overflow([key |-> key, ptr |-> Decode(RawPtrTo(offset, TRUE))])
      PROVE  IInv' /\ Index!Next
  BY <1>2, OverflowKeeps DEF Index!Next
<1>3. ASSUME NEW key \in Key, NEW isPresent \in BOOLEAN, Mark(key, isPresent)
      PROVE  IInv' /\ Index!Next
  BY <1>3, MarkKeeps DEF Index!Next
<1>4. CASE Renew  BY <1>4, RenewKeeps DEF Index!Next
<1> QED  BY <1>1, <1>2, <1>3, <1>4 DEF Next

(***************************************************************************)
(* A step that changes nothing of the table changes nothing of the map.    *)
(***************************************************************************)
LEMMA UnchangedKeeps ==
  ASSUME IInv, UNCHANGED vars
  PROVE  IInv' /\ UNCHANGED <<[key \in Key |-> Lookup(data, key)], terminated>>
BY DEF vars, IInv, TypeOK, TableSound, FullLength, IsOverloaded

(***************************************************************************)
(* The inductive invariant holds in every state.                           *)
(***************************************************************************)
LEMMA Invariant == Spec => []IInv
<1>1. Init => IInv  BY InitHolds
<1>2. IInv /\ [Next]_vars => IInv'  BY NextKeeps, UnchangedKeeps
<1> QED  BY <1>1, <1>2, PTL DEF Spec

(***************************************************************************)
(* The index has one of its two sizes, a counter within it and a file that *)
(* is not longer than the table, whatever a failing write leaves of it.    *)
(* (StorageHashTable.)                                                     *)
(***************************************************************************)
THEOREM IndexTypeCorrect == Spec => []TypeOK
<1>1. IInv => TypeOK  BY DEF IInv
<1> QED  BY <1>1, Invariant, PTL

(***************************************************************************)
(* Every entry stays reachable from the home slot of its key, before and   *)
(* after the expansion, no key is stored twice, and the counter is the     *)
(* number of used slots.  (StorageHashTable::put, expand.)                 *)
(***************************************************************************)
THEOREM IndexStaysSound == Spec => []TableSound
<1>1. IInv => TableSound  BY DEF IInv
<1> QED  BY <1>1, Invariant, PTL

(***************************************************************************)
(* A file that was cut short and is accepted may have forgotten a key: it  *)
(* never gives one a pointer that was not written for it, although every   *)
(* home slot is another one.  (StorageHashTable(ByteArray), get.)          *)
(***************************************************************************)
THEOREM TornIndexForgetsOnly == Spec => []TornIndexNeverLies
<1>1. ASSUME IInv, IsAccepted, NEW key \in Key
      PROVE  Lookup(ReadData, key) \in {EMPTY_PTR, Lookup(data, key)}
  <2> DEFINE slot == SlotForGet(ReadData, key)
  <2>1. PICK n \in Sizes : /\ n \in Nat \ {0} /\ data \in Table(n)
                           /\ DOMAIN data = 0 .. n - 1
    BY <1>1, DataIsStored
  <2>2. IsProbeTable(data)  BY <1>1 DEF IInv, TableSound
  <2>3. \A s \in 0 .. ReadSize - 1 : s \in DOMAIN data /\ ReadData[s] = data[s]
    BY <1>1, ReadBack
  <2>4. CASE Lookup(ReadData, key) # EMPTY_PTR
    <3>1. slot \in SlotsOf(ReadData, key) /\ Lookup(ReadData, key) = ReadData[slot].ptr
      BY <2>4 DEF Lookup
    <3>2. slot \in 0 .. ReadSize - 1 /\ ReadData[slot].key = key
      BY <3>1 DEF SlotsOf, ReadData
    <3>3. slot \in DOMAIN data /\ ReadData[slot] = data[slot]  BY <2>3, <3>2
    <3>4. slot \in UsedSlots(data)  BY <2>4, <3>1, <3>3 DEF UsedSlots, FreeSlots
    <3>5. Lookup(data, data[slot].key) = data[slot].ptr
      BY <2>1, <2>2, <3>4, StoredIsFound
    <3> QED  BY <3>1, <3>2, <3>3, <3>5
  <2> QED  BY <2>4
<1>2. IInv => TornIndexNeverLies  BY <1>1 DEF TornIndexNeverLies
<1> QED  BY <1>2, Invariant, PTL

(***************************************************************************)
(* The table and its file are the map that a shard takes its index for:    *)
(* every key has the pointer that was put for it last, the expansion loses *)
(* and moves nothing and does not run into itself, and the process dies    *)
(* exactly when the number of keys asks for a second one.  (All of         *)
(* StorageHashTable, and Ptr.)                                             *)
(***************************************************************************)
THEOREM IndexIsAMap == Spec => ImplementsIndexTable
<1> DEFINE index == [key \in Key |-> Lookup(data, key)]
<1>1. Init => Index!Init  BY InitHolds
<1>2. IInv /\ [Next]_vars => [Index!Next]_<<index, terminated>>
  BY NextKeeps, UnchangedKeeps
<1> QED
  BY <1>1, <1>2, Invariant, PTL DEF Spec, ImplementsIndexTable, Index!Spec

=============================================================================
