--------------------------- MODULE CacheMapProofs ---------------------------
(***************************************************************************)
(* The cache for every number of slots, every hash function and every      *)
(* sequence of calls.  A table of three slots or fewer can fill up, and    *)
(* one of fewer than seven can be left with a single free slot: the        *)
(* theorems say how many slots they need.                                  *)
(***************************************************************************)
EXTENDS CacheMap, ProbingProofs, FunctionTheorems

(***************************************************************************)
(* One entry more than the load factor allows is stored, and no second:    *)
(* this is what keeps slots free.                                          *)
(***************************************************************************)
LoadBounded == 3 * usedSize <= 2 * CACHE_MAP_SIZE + 3

IInv ==
  /\ TypeOK
  /\ ProbeChainsIntact
  /\ UsedSizeExact
  /\ LoadBounded

NeverFillsUp == CACHE_MAP_SIZE >= 4

-----------------------------------------------------------------------------
(***************************************************************************)
(* A slot is always free, and in a map that gives up an entry a slot is    *)
(* used.                                                                   *)
(***************************************************************************)
LEMMA Room ==
  ASSUME IInv, NeverFillsUp
  PROVE  /\ CACHE_MAP_SIZE \in Nat \ {0}
         /\ data \in Table(CACHE_MAP_SIZE)
         /\ IsFiniteSet(UsedSlots(data))
         /\ FreeSlots(data) # {}
         /\ ~IsFull => 3 * (usedSize + 1) <= 2 * CACHE_MAP_SIZE + 3
         /\ IsFull => UsedSlots(data) # {}
<1> DEFINE n == CACHE_MAP_SIZE
<1>1. n \in Nat /\ n >= 4 /\ data \in Table(n) /\ usedSize \in 0 .. n
  BY CacheMapAssumption DEF NeverFillsUp, IInv, TypeOK
<1>2. 3 * usedSize <= 2 * n + 3  BY DEF IInv, LoadBounded
<1>3. usedSize = Cardinality(UsedSlots(data))  BY DEF IInv, UsedSizeExact
<1>4. /\ IsFiniteSet(UsedSlots(data)) /\ IsFiniteSet(FreeSlots(data))
      /\ Cardinality(FreeSlots(data)) + usedSize = n
  BY <1>1, <1>3, TableSize
<1>5. usedSize < n  BY <1>1, <1>2
<1>6. FreeSlots(data) # {}
  BY <1>1, <1>4, <1>5, FS_EmptySet
<1>7. ~IsFull => 3 * (usedSize + 1) <= 2 * n + 3
  BY <1>1 DEF IsFull, IsOverloaded
<1>8. IsFull => usedSize # 0  BY <1>1 DEF IsFull, IsOverloaded
<1>9. IsFull => UsedSlots(data) # {}  BY <1>3, <1>8, FS_EmptySet
<1> QED  BY <1>1, <1>4, <1>6, <1>7, <1>9

(***************************************************************************)
(* Whatever the random number, the entry that is given up is an entry, and *)
(* the last one of its cluster.                                            *)
(***************************************************************************)
LEMMA VictimEndsCluster ==
  ASSUME IInv, NeverFillsUp, IsFull, NEW random \in Slot
  PROVE  /\ VictimSlot(random) \in UsedSlots(data)
         /\ Step(CACHE_MAP_SIZE, VictimSlot(random), 1) \in FreeSlots(data)
<1> DEFINE n == CACHE_MAP_SIZE
           victim == VictimSlot(random)
<1>1. /\ n \in Nat \ {0} /\ data \in Table(n)
      /\ FreeSlots(data) # {} /\ UsedSlots(data) # {}
  BY Room
<1>2. n >= 4  BY DEF NeverFillsUp
<1>3. /\ FreeSlots(data) \in SUBSET (0 .. n - 1) /\ UsedSlots(data) \in SUBSET (0 .. n - 1)
      /\ \A s \in 0 .. n - 1 : s \in FreeSlots(data) <=> s \notin UsedSlots(data)
  BY <1>1, TableSize
<1>4. random \in 0 .. n - 1  BY DEF Slot
<1>5. CASE random \in UsedSlots(data)
  <2> DEFINE found == FindNext(data, random, FreeSlots(data))
  <2>1. /\ found \in 0 .. n - 1
        /\ found = random => FreeSlots(data) \subseteq {random}
        /\ found # random =>
             /\ found \in FreeSlots(data)
             /\ \A d \in 1 .. Gap(n, random, found) - 1 : Step(n, random, d) \notin FreeSlots(data)
    BY <1>1, <1>3, <1>4, FindNextFinds
  <2> HIDE DEF found
  <2>2. found # random  BY <1>1, <1>3, <1>4, <1>5, <2>1
  <2>3. victim = StepBack(n, found, 1)
    <3>1. 1 \in 0 .. n - 1  BY <1>1, <1>2
    <3>2. (found - 1) % n = StepBack(n, found, 1)  BY <1>1, <2>1, <3>1, StepIsModulo
    <3> QED  BY <1>5, <3>2 DEF VictimSlot, found
  <2> DEFINE gap == Gap(n, random, found)
  <2>4. gap \in 1 .. n - 1 /\ Step(n, random, gap - 1) = StepBack(n, found, 1)
    BY <1>1, <1>4, <2>1, <2>2 DEF Gap, Step, StepBack
  <2>5. StepBack(n, found, 1) \in 0 .. n - 1 /\ Step(n, StepBack(n, found, 1), 1) = found
    BY <1>1, <1>2, <2>1 DEF Step, StepBack
  <2>6. StepBack(n, found, 1) \in UsedSlots(data)
    <3>1. CASE gap = 1
      <4>1. Step(n, random, 0) = random  BY <1>1, <1>4 DEF Step
      <4> QED  BY <1>5, <2>4, <3>1, <4>1
    <3>2. CASE gap # 1
      <4>1. gap - 1 \in 1 .. gap - 1  BY <1>1, <2>4, <3>2
      <4>2. Step(n, random, gap - 1) \notin FreeSlots(data)  BY <2>1, <2>2, <4>1
      <4> QED  BY <1>3, <2>4, <2>5, <4>2
    <3> QED  BY <3>1, <3>2
  <2> QED  BY <2>1, <2>2, <2>3, <2>5, <2>6
<1>6. CASE random \notin UsedSlots(data)
  <2>1. victim = FindPrevious(data, random, UsedSlots(data))  BY <1>6 DEF VictimSlot
  <2> HIDE DEF victim
  <2>2. /\ victim \in 0 .. n - 1
        /\ victim = random => UsedSlots(data) \subseteq {random}
        /\ victim # random =>
             /\ victim \in UsedSlots(data)
             /\ \A d \in 1 .. Gap(n, victim, random) - 1 : Step(n, victim, d) \notin UsedSlots(data)
    BY <1>1, <1>3, <1>4, <2>1, FindPreviousFinds
  <2>3. victim # random  BY <1>1, <1>6, <2>2
  <2> DEFINE gap == Gap(n, victim, random)
  <2>4. gap \in 1 .. n - 1 /\ Step(n, victim, gap) = random
    BY <1>1, <1>4, <2>2, <2>3 DEF Gap, Step
  <2>5. Step(n, victim, 1) \in 0 .. n - 1  BY <1>1, <1>2, <2>2 DEF Step
  <2>6. Step(n, victim, 1) \in FreeSlots(data)
    <3>1. CASE gap = 1  BY <1>3, <1>4, <1>6, <2>4, <3>1
    <3>2. CASE gap # 1
      <4>1. 1 \in 1 .. gap - 1  BY <1>1, <2>4, <3>2
      <4> QED  BY <1>3, <2>2, <2>3, <2>5, <4>1
    <3> QED  BY <3>1, <3>2
  <2> QED  BY <2>2, <2>3, <2>6 DEF victim
<1> QED  BY <1>5, <1>6


(***************************************************************************)
(* Storing an entry in a sound table counts the slots it uses.             *)
(***************************************************************************)
LEMMA StoreInEffect ==
  ASSUME CACHE_MAP_SIZE \in Nat \ {0}, NEW table \in Table(CACHE_MAP_SIZE), NEW used \in Nat,
         IsProbeTable(table), FreeSlots(table) # {}, used = Cardinality(UsedSlots(table)),
         NEW entry \in Entry, entry.ptr # EMPTY_PTR, StoreIn(table, used, entry)
  PROVE  /\ data' \in Table(CACHE_MAP_SIZE)
         /\ IsProbeTable(data')
         /\ usedSize' = Cardinality(UsedSlots(data'))
         /\ usedSize' \in {used, used + 1}
<1> DEFINE slot == SlotForPut(table, entry.key)
<1>1. /\ data' = [table EXCEPT ![slot] = entry]
      /\ usedSize' = IF slot \in FreeSlots(table) THEN used + 1 ELSE used
  BY DEF StoreIn
<1>2. /\ slot \in 0 .. CACHE_MAP_SIZE - 1
      /\ data' \in Table(CACHE_MAP_SIZE)
      /\ UsedSlots(data') = UsedSlots(table) \cup {slot}
      /\ IsProbeTable(data')
  BY <1>1, StoreKeeps
<1>3. /\ IsFiniteSet(UsedSlots(table))
      /\ slot \in FreeSlots(table) <=> slot \notin UsedSlots(table)
  BY <1>2, TableSize
<1>4. Cardinality(UsedSlots(table) \cup {slot}) =
        IF slot \in UsedSlots(table) THEN Cardinality(UsedSlots(table))
                                     ELSE Cardinality(UsedSlots(table)) + 1
  BY <1>3, FS_AddElement
<1> HIDE DEF slot
<1> QED  BY <1>1, <1>2, <1>3, <1>4

(***************************************************************************)
(* The invariant from its parts; the greatest used size follows from the   *)
(* number of slots.                                                        *)
(***************************************************************************)
LEMMA Afterwards ==
  ASSUME CACHE_MAP_SIZE \in Nat \ {0},
         data' \in Table(CACHE_MAP_SIZE), IsProbeTable(data'),
         usedSize' = Cardinality(UsedSlots(data')),
         3 * usedSize' <= 2 * CACHE_MAP_SIZE + 3,
         IsOptional(displaced', [key : Key, ptr : Ptr \ {EMPTY_PTR}])
  PROVE  IInv'
<1> DEFINE n == CACHE_MAP_SIZE
           slots == 0 .. n - 1
<1>1. IsFiniteSet(slots) /\ Cardinality(slots) = n
  <2>1. 0 \in Int /\ n - 1 \in Int /\ ~(0 > n - 1) /\ n - 1 - 0 + 1 = n  OBVIOUS
  <2> QED  BY <2>1, FS_Interval
<1>2. UsedSlots(data') \subseteq slots  BY TableSize
<1> HIDE DEF slots
<1>3. usedSize' \in Nat /\ usedSize' <= n
  BY <1>1, <1>2, FS_Subset, FS_CardinalityType
<1>4. TypeOK'  BY <1>3 DEF TypeOK
<1> QED  BY <1>4 DEF IInv, ProbeChainsIntact, UsedSizeExact, LoadBounded

(***************************************************************************)
(* The entries of used slots are entries that can be returned.             *)
(***************************************************************************)
LEMMA UsedEntry ==
  ASSUME NEW n \in Nat \ {0}, NEW table \in Table(n), NEW slot \in UsedSlots(table)
  PROVE  /\ slot \in 0 .. n - 1
         /\ table[slot] \in [key : Key, ptr : Ptr \ {EMPTY_PTR}]
<1>1. slot \in DOMAIN table /\ table[slot].ptr # EMPTY_PTR
  BY DEF UsedSlots, FreeSlots
<1>2. slot \in 0 .. n - 1  BY TableSize
<1>3. table[slot] \in Entry  BY <1>2 DEF Table
<1> QED  BY <1>1, <1>2, <1>3 DEF Entry

(***************************************************************************)
(* Giving up a victim leaves a sound table of one entry less.              *)
(***************************************************************************)
LEMMA GiveUpEffect ==
  ASSUME IInv, NeverFillsUp, IsFull,
         NEW victim \in {VictimSlot(random) : random \in Slot}
  PROVE  LET taken == [data EXCEPT ![victim] = FreeEntry] IN
         /\ victim \in UsedSlots(data)
         /\ taken \in Table(CACHE_MAP_SIZE)
         /\ UsedSlots(taken) = UsedSlots(data) \ {victim}
         /\ FreeSlots(taken) # {}
         /\ IsProbeTable(taken)
         /\ usedSize - 1 \in Nat
         /\ usedSize - 1 = Cardinality(UsedSlots(taken))
<1> DEFINE n == CACHE_MAP_SIZE
           taken == [data EXCEPT ![victim] = FreeEntry]
<1>1. n \in Nat \ {0} /\ data \in Table(n) /\ IsFiniteSet(UsedSlots(data))
  BY Room
<1>2. victim \in UsedSlots(data) /\ Step(n, victim, 1) \in FreeSlots(data)
  BY VictimEndsCluster
<1>3. IsProbeTable(data)  BY DEF IInv, ProbeChainsIntact
<1>4. /\ taken \in Table(n)
      /\ UsedSlots(taken) = UsedSlots(data) \ {victim}
      /\ IsProbeTable(taken)
  BY <1>1, <1>2, <1>3, TakeKeeps
<1> HIDE DEF taken
<1>5. victim \in 0 .. n - 1  BY <1>1, <1>2, TableSize
<1>6. victim \in FreeSlots(taken)  BY <1>1, <1>4, <1>5, TableSize
<1>7. /\ Cardinality(UsedSlots(taken)) = Cardinality(UsedSlots(data)) - 1
      /\ IsFiniteSet(UsedSlots(taken))
  BY <1>1, <1>2, <1>4, FS_RemoveElement
<1>8. usedSize = Cardinality(UsedSlots(data))  BY DEF IInv, UsedSizeExact
<1>9. Cardinality(UsedSlots(taken)) \in Nat  BY <1>7, FS_CardinalityType
<1> QED  BY <1>2, <1>4, <1>6, <1>7, <1>8, <1>9 DEF taken

-----------------------------------------------------------------------------
(***************************************************************************)
(* A put keeps the invariant, with and without an entry given up.          *)
(***************************************************************************)
LEMMA PutOrDisplaceKeeps ==
  ASSUME IInv, NeverFillsUp, NEW entry \in Entry, entry.ptr # EMPTY_PTR,
         PutOrDisplace(entry)
  PROVE  IInv'
<1> DEFINE n == CACHE_MAP_SIZE
<1>1. /\ n \in Nat \ {0} /\ data \in Table(n) /\ FreeSlots(data) # {}
      /\ ~IsFull => 3 * (usedSize + 1) <= 2 * n + 3
  BY Room
<1>2. /\ usedSize \in Nat /\ usedSize = Cardinality(UsedSlots(data))
      /\ 3 * usedSize <= 2 * n + 3 /\ IsProbeTable(data)
  BY DEF IInv, TypeOK, UsedSizeExact, LoadBounded, ProbeChainsIntact
<1>3. CASE ~IsFull /\ StoreIn(data, usedSize, entry) /\ displaced' = {}
  <2>1. /\ data' \in Table(n) /\ IsProbeTable(data')
        /\ usedSize' = Cardinality(UsedSlots(data'))
        /\ usedSize' \in {usedSize, usedSize + 1}
    BY <1>1, <1>2, <1>3, StoreInEffect
  <2>2. 3 * usedSize' <= 2 * n + 3  BY <1>1, <1>2, <1>3, <2>1
  <2>3. IsOptional(displaced', [key : Key, ptr : Ptr \ {EMPTY_PTR}])
    BY <1>3 DEF IsOptional
  <2> QED  BY <1>1, <2>1, <2>2, <2>3, Afterwards
<1>4. CASE IsFull /\ \E victim \in {VictimSlot(random) : random \in Slot} :
             /\ StoreIn([data EXCEPT ![victim] = FreeEntry], usedSize - 1, entry)
             /\ displaced' = {data[victim]}
  <2>1. PICK victim \in {VictimSlot(random) : random \in Slot} :
             /\ StoreIn([data EXCEPT ![victim] = FreeEntry], usedSize - 1, entry)
             /\ displaced' = {data[victim]}
    BY <1>4
  <2> DEFINE taken == [data EXCEPT ![victim] = FreeEntry]
  <2>2. /\ victim \in UsedSlots(data) /\ taken \in Table(n)
        /\ FreeSlots(taken) # {} /\ IsProbeTable(taken)
        /\ usedSize - 1 \in Nat /\ usedSize - 1 = Cardinality(UsedSlots(taken))
    BY <1>4, GiveUpEffect
  <2>3. StoreIn(taken, usedSize - 1, entry)  BY <2>1
  <2> HIDE DEF taken
  <2>4. /\ data' \in Table(n) /\ IsProbeTable(data')
        /\ usedSize' = Cardinality(UsedSlots(data'))
        /\ usedSize' \in {usedSize - 1, usedSize - 1 + 1}
    BY <1>1, <2>2, <2>3, StoreInEffect
  <2>5. 3 * usedSize' <= 2 * n + 3  BY <1>1, <1>2, <2>4
  <2>6. IsOptional(displaced', [key : Key, ptr : Ptr \ {EMPTY_PTR}])
    BY <1>1, <2>1, <2>2, UsedEntry DEF IsOptional
  <2> QED  BY <1>1, <2>4, <2>5, <2>6, Afterwards
<1> QED  BY <1>3, <1>4 DEF PutOrDisplace

(***************************************************************************)
(* What get() finds: the slot that has the key, and a free slot if none    *)
(* has.                                                                    *)
(***************************************************************************)
LEMMA GetFindsKey ==
  ASSUME IInv, NeverFillsUp, NEW key \in Key
  PROVE  /\ SlotForGet(key) \in 0 .. CACHE_MAP_SIZE - 1
         /\ \A slot \in UsedSlots(data) : data[slot].key = key => SlotForGet(key) = slot
         /\ SlotForGet(key) \in UsedSlots(data) => data[SlotForGet(key)].key = key
<1> DEFINE n == CACHE_MAP_SIZE
           home == HomeSlot(data, key)
           found == SlotForGet(key)
           wanted == SlotsOf(data, key) \cup FreeSlots(data)
           next == FindNext(data, home, wanted)
<1>1. n \in Nat \ {0} /\ data \in Table(n) /\ FreeSlots(data) # {}  BY Room
<1>2. IsProbeTable(data)  BY DEF IInv, ProbeChainsIntact
<1>3. home \in 0 .. n - 1  BY <1>1, HomeInTable
<1>4. /\ wanted \in SUBSET (0 .. n - 1)
      /\ \A s \in 0 .. n - 1 : s \in wanted <=> s \in FreeSlots(data) \/ data[s].key = key
      /\ UsedSlots(data) \subseteq 0 .. n - 1
      /\ \A s \in 0 .. n - 1 : s \in FreeSlots(data) <=> s \notin UsedSlots(data)
  BY <1>1, TableSize DEF SlotsOf
<1>5. /\ next \in 0 .. n - 1
      /\ next = home => wanted \subseteq {home}
      /\ next # home => next \in wanted
  BY <1>1, <1>3, <1>4, FindNextFinds
<1>6. found = IF data[home].key = key THEN home ELSE next  BY DEF SlotForGet
<1>7. SlotForPut(data, key) = IF home \in wanted THEN home ELSE next  BY DEF SlotForPut
<1>8. \A slot \in UsedSlots(data) : data[slot].key = key => SlotForPut(data, key) = slot
  BY <1>1, <1>2, <1>4, StoredWherePut
<1> HIDE DEF home, next, wanted, found
<1>9. found \in 0 .. n - 1  BY <1>3, <1>5, <1>6
<1>10. \A slot \in UsedSlots(data) : data[slot].key = key => found = slot
  BY <1>3, <1>4, <1>6, <1>7, <1>8
<1>11. found \in UsedSlots(data) => data[found].key = key
  <2>1. CASE data[home].key = key  BY <1>6, <2>1
  <2>2. CASE data[home].key # key /\ next # home  BY <1>4, <1>5, <1>6, <2>2
  <2>3. CASE data[home].key # key /\ next = home
    <3>1. FreeSlots(data) \subseteq {home}  BY <1>4, <1>5, <2>3 DEF wanted
    <3>2. home \in FreeSlots(data)  BY <1>1, <3>1
    <3> QED  BY <1>3, <1>4, <1>6, <2>3, <3>2
  <2> QED  BY <2>1, <2>2, <2>3
<1> QED  BY <1>9, <1>10, <1>11 DEF found


(***************************************************************************)
(* Marking an entry as present or deleted leaves it a used one.            *)
(***************************************************************************)
LEMMA MarkedPtr ==
  ASSUME NEW ptr \in Ptr, PointsToValue(ptr), NEW isPresent \in BOOLEAN
  PROVE  SetValuePresent(ptr, isPresent) \in Ptr \ {EMPTY_PTR}
<1>1. ptr.index \in 0 .. 127
  BY DEF Ptr, PointsToValue, EMPTY_PTR, NONEXISTENT
<1> QED  BY <1>1 DEF SetValuePresent, PtrTo, Ptr, EMPTY_PTR

(***************************************************************************)
(* Marking changes the pointer in the slot that get() finds, and nothing   *)
(* else.                                                                   *)
(***************************************************************************)
LEMMA MarkEffect ==
  ASSUME IInv, NeverFillsUp, NEW key \in Key, NEW isPresent \in BOOLEAN, Mark(key, isPresent)
  PROVE  /\ SlotForGet(key) \in UsedSlots(data)
         /\ data[SlotForGet(key)].key = key
         /\ data' \in Table(CACHE_MAP_SIZE)
         /\ UsedSlots(data') = UsedSlots(data)
         /\ \A s \in 0 .. CACHE_MAP_SIZE - 1 : data'[s].key = data[s].key
         /\ \A s \in 0 .. CACHE_MAP_SIZE - 1 : s # SlotForGet(key) => data'[s] = data[s]
         /\ data'[SlotForGet(key)].ptr # EMPTY_PTR
<1> DEFINE n == CACHE_MAP_SIZE
           found == SlotForGet(key)
           ptr == SetValuePresent(data[found].ptr, isPresent)
<1>1. n \in Nat \ {0} /\ data \in Table(n)  BY Room
<1>2. /\ found \in 0 .. n - 1
      /\ found \in UsedSlots(data) => data[found].key = key
  BY GetFindsKey
<1>3. /\ PointsToValue(data[found].ptr)
      /\ data' = [data EXCEPT ![found].ptr = ptr]
  BY DEF Mark, Get
<1>4. data[found] \in Entry /\ data[found].ptr \in Ptr /\ data[found].key \in Key
  BY <1>1, <1>2 DEF Table, Entry
<1>5. ptr \in Ptr \ {EMPTY_PTR}  BY <1>3, <1>4, MarkedPtr
<1>6. data[found].ptr # EMPTY_PTR  BY <1>3 DEF PointsToValue, EMPTY_PTR
<1> HIDE DEF found, ptr
<1>7. /\ data' \in Table(n)
      /\ \A s \in 0 .. n - 1 : /\ data'[s].key = data[s].key
                               /\ s # found => data'[s] = data[s]
      /\ data'[found].ptr = ptr
  <2>1. [data[found] EXCEPT !.ptr = ptr] \in Entry  BY <1>4, <1>5 DEF Entry
  <2>2. data' = [data EXCEPT ![found] = [data[found] EXCEPT !.ptr = ptr]]  BY <1>3
  <2>3. data \in [0 .. n - 1 -> Entry]  BY <1>1 DEF Table
  <2>4. /\ [data[found] EXCEPT !.ptr = ptr].key = data[found].key
        /\ [data[found] EXCEPT !.ptr = ptr].ptr = ptr
    BY <1>4 DEF Entry
  <2> QED  BY <1>2, <2>1, <2>2, <2>3, <2>4 DEF Table
<1>8. UsedSlots(data') = UsedSlots(data)
  <2>1. DOMAIN data = 0 .. n - 1 /\ DOMAIN data' = 0 .. n - 1
    BY <1>1, <1>7 DEF Table
  <2>2. \A s \in 0 .. n - 1 : data'[s].ptr = EMPTY_PTR <=> data[s].ptr = EMPTY_PTR
    BY <1>5, <1>6, <1>7
  <2> QED  BY <2>1, <2>2 DEF UsedSlots, FreeSlots
<1>9. found \in UsedSlots(data)
  BY <1>1, <1>2, <1>6, TableSize DEF UsedSlots, FreeSlots
<1> QED  BY <1>2, <1>5, <1>7, <1>8, <1>9 DEF found

(***************************************************************************)
(* Marking keeps the invariant.                                            *)
(***************************************************************************)
LEMMA MarkKeeps ==
  ASSUME IInv, NeverFillsUp, NEW key \in Key, NEW isPresent \in BOOLEAN, Mark(key, isPresent)
  PROVE  IInv'
<1>1. CACHE_MAP_SIZE \in Nat \ {0} /\ data \in Table(CACHE_MAP_SIZE)  BY Room
<1>2. /\ data' \in Table(CACHE_MAP_SIZE)
      /\ UsedSlots(data') = UsedSlots(data)
      /\ \A s \in 0 .. CACHE_MAP_SIZE - 1 : data'[s].key = data[s].key
  BY MarkEffect
<1>3. displaced' = {} /\ usedSize' = usedSize  BY DEF Mark
<1>4. IsProbeTable(data) /\ usedSize = Cardinality(UsedSlots(data))
      /\ 3 * usedSize <= 2 * CACHE_MAP_SIZE + 3
  BY DEF IInv, ProbeChainsIntact, UsedSizeExact, LoadBounded
<1>5. UsedSlots(data) \subseteq 0 .. CACHE_MAP_SIZE - 1  BY <1>1, TableSize
<1>6. IsProbeTable(data')  BY <1>1, <1>2, <1>4, <1>5, SameKeysKeep
<1>7. IsOptional(displaced', [key : Key, ptr : Ptr \ {EMPTY_PTR}])
  BY <1>3 DEF IsOptional
<1> QED  BY <1>1, <1>2, <1>3, <1>4, <1>6, <1>7, Afterwards

(***************************************************************************)
(* The invariant holds of an empty map, new or cleared.                    *)
(***************************************************************************)
LEMMA EmptyKeeps ==
  ASSUME data' = EmptyTable(CACHE_MAP_SIZE), usedSize' = 0, displaced' = {}
  PROVE  IInv'
<1>1. CACHE_MAP_SIZE \in Nat \ {0}  BY CacheMapAssumption
<1>2. /\ data' \in Table(CACHE_MAP_SIZE) /\ UsedSlots(data') = {} /\ IsProbeTable(data')
  BY <1>1, EmptyTableIsProbeTable
<1>3. usedSize' = Cardinality(UsedSlots(data'))  BY <1>2, FS_EmptySet
<1>4. 3 * usedSize' <= 2 * CACHE_MAP_SIZE + 3  BY <1>1
<1>5. IsOptional(displaced', [key : Key, ptr : Ptr \ {EMPTY_PTR}])  BY DEF IsOptional
<1> QED  BY <1>1, <1>2, <1>3, <1>4, <1>5, Afterwards

(***************************************************************************)
(* The constructor resizes a vector of free slots.                         *)
(***************************************************************************)
LEMMA InitEstablishes == Init => IInv
<1> SUFFICES ASSUME Init PROVE IInv  OBVIOUS
<1>1. CACHE_MAP_SIZE \in Nat \ {0}  BY CacheMapAssumption
<1>2. /\ data \in Table(CACHE_MAP_SIZE) /\ UsedSlots(data) = {} /\ IsProbeTable(data)
  BY <1>1, EmptyTableIsProbeTable DEF Init
<1>3. usedSize = 0 /\ usedSize = Cardinality(UsedSlots(data))  BY <1>2, FS_EmptySet DEF Init
<1>4. 3 * usedSize <= 2 * CACHE_MAP_SIZE + 3  BY <1>1, <1>3
<1>5. IsOptional(displaced, [key : Key, ptr : Ptr \ {EMPTY_PTR}])  BY DEF Init, IsOptional
<1>6. TypeOK  BY <1>1, <1>2, <1>3, <1>5 DEF TypeOK
<1> QED
  BY <1>2, <1>3, <1>4, <1>6 DEF IInv, ProbeChainsIntact, UsedSizeExact, LoadBounded

(***************************************************************************)
(* Every call keeps the invariant.                                         *)
(***************************************************************************)
LEMMA NextKeeps == NeverFillsUp /\ IInv /\ [Next]_<<data, usedSize, displaced>> => IInv'
<1> SUFFICES ASSUME NeverFillsUp, IInv, [Next]_<<data, usedSize, displaced>> PROVE IInv'
  OBVIOUS
<1>1. CASE UNCHANGED <<data, usedSize, displaced>>
  BY <1>1 DEF IInv, TypeOK, ProbeChainsIntact, UsedSizeExact, LoadBounded
<1>2. ASSUME NEW key \in Key, NEW ptr \in OfferedPtr,
             PutOrDisplace([key |-> key, ptr |-> ptr])
      PROVE  IInv'
  <2> DEFINE entry == [key |-> key, ptr |-> ptr]
  <2>1. entry \in Entry /\ entry.ptr # EMPTY_PTR
    BY CacheMapAssumption DEF Entry
  <2>2. PutOrDisplace(entry)  BY <1>2
  <2> HIDE DEF entry
  <2> QED  BY <2>1, <2>2, PutOrDisplaceKeeps
<1>3. ASSUME NEW key \in Key, NEW isPresent \in BOOLEAN, Mark(key, isPresent) PROVE IInv'
  BY <1>3, MarkKeeps
<1>4. CASE Clear  BY <1>4, EmptyKeeps DEF Clear
<1> QED  BY <1>1, <1>2, <1>3, <1>4 DEF Next

(***************************************************************************)
(* The invariant holds after every sequence of calls.                      *)
(***************************************************************************)
LEMMA Invariant == NeverFillsUp => (Spec => []IInv)
<1> SUFFICES ASSUME NeverFillsUp PROVE Spec => []IInv  OBVIOUS
<1>1. NeverFillsUp  OBVIOUS
<1>2. IInv /\ [Next]_<<data, usedSize, displaced>> => IInv'  BY <1>1, NextKeeps
<1> QED  BY InitEstablishes, <1>2, PTL DEF Spec

-----------------------------------------------------------------------------
(***************************************************************************)
(* The slots, the counter and what is returned keep their types.           *)
(***************************************************************************)
THEOREM CacheMapTypeCorrect == NeverFillsUp => (Spec => []TypeOK)
<1>1. IInv => TypeOK  BY DEF IInv
<1> QED  BY <1>1, Invariant, PTL

(***************************************************************************)
(* Giving up the last entry of a cluster never cuts another entry off, for *)
(* every number of slots, every hash function and every order of calls.    *)
(***************************************************************************)
THEOREM ProbeChainsStayIntact == NeverFillsUp => (Spec => []ProbeChainsIntact)
<1>1. IInv => ProbeChainsIntact  BY DEF IInv
<1> QED  BY <1>1, Invariant, PTL

(***************************************************************************)
(* The counter that decides about displacement counts the used slots.      *)
(***************************************************************************)
THEOREM UsedSizeStaysExact == NeverFillsUp => (Spec => []UsedSizeExact)
<1>1. IInv => UsedSizeExact  BY DEF IInv
<1> QED  BY <1>1, Invariant, PTL

(***************************************************************************)
(* With two free slots at least, one is free that is not the home slot.    *)
(***************************************************************************)
LEMMA GetEnds ==
  ASSUME IInv, CACHE_MAP_SIZE >= 7, NEW key \in Key
  PROVE  GetFinds(key)
<1> DEFINE n == CACHE_MAP_SIZE
           home == HomeSlot(data, key)
           wanted == SlotsOf(data, key) \cup FreeSlots(data)
           next == FindNext(data, home, wanted)
<1>1. n \in Nat \ {0} /\ data \in Table(n) /\ usedSize \in 0 .. n
  BY CacheMapAssumption DEF IInv, TypeOK
<1>2. home \in 0 .. n - 1  BY <1>1, HomeInTable
<1>3. wanted \in SUBSET (0 .. n - 1)  BY <1>1, TableSize
<1>4. next = home => wanted \subseteq {home}  BY <1>1, <1>2, <1>3, FindNextFinds
<1>5. ~(FreeSlots(data) \subseteq {home})
  <2>1. 3 * usedSize <= 2 * n + 3 /\ usedSize = Cardinality(UsedSlots(data))
    BY DEF IInv, LoadBounded, UsedSizeExact
  <2>2. Cardinality(FreeSlots(data)) + usedSize = n  BY <1>1, <2>1, TableSize
  <2>3. IsFiniteSet({home}) /\ Cardinality({home}) = 1  BY FS_Singleton
  <2>4. FreeSlots(data) \subseteq {home} => Cardinality(FreeSlots(data)) <= 1
    BY <2>3, FS_Subset
  <2>5. Cardinality(FreeSlots(data)) \in Nat  BY <1>1, TableSize, FS_CardinalityType
  <2> QED  BY <1>1, <2>1, <2>2, <2>4, <2>5
<1>6. next # home  BY <1>4, <1>5
<1> QED  BY <1>6 DEF GetFinds, SlotForGet

(***************************************************************************)
(* No assert of the map fails, and no search of it goes round for nothing. *)
(***************************************************************************)
THEOREM EveryProbeEnds == CACHE_MAP_SIZE >= 7 => (Spec => []ProbesEnd)
<1> SUFFICES ASSUME CACHE_MAP_SIZE >= 7 PROVE Spec => []ProbesEnd  OBVIOUS
<1>1. NeverFillsUp  BY CacheMapAssumption DEF NeverFillsUp
<1>2. IInv => ProbesEnd
  <2> SUFFICES ASSUME IInv PROVE ProbesEnd  OBVIOUS
  <2>1. GetsEnd  BY GetEnds DEF GetsEnd
  <2>2. FreeSlots(data) # {}  BY <1>1, Room
  <2>3. IsFull => \A random \in Slot : VictimSlot(random) \in UsedSlots(data)
    BY <1>1, VictimEndsCluster
  <2> QED  BY <2>1, <2>2, <2>3 DEF ProbesEnd
<1> QED  BY <1>1, <1>2, Invariant, PTL


-----------------------------------------------------------------------------
(***************************************************************************)
(* What a table has for a key: the pointer in the used slot with that key, *)
(* or none.                                                                *)
(***************************************************************************)
HasPtr(table, key, ptr) ==
  \/ \E s \in UsedSlots(table) : table[s].key = key /\ table[s].ptr = ptr
  \/ ptr = EMPTY_PTR /\ \A s \in UsedSlots(table) : table[s].key # key

(***************************************************************************)
(* A sound table has one pointer for a key.                                *)
(***************************************************************************)
LEMMA OnePtr ==
  ASSUME NEW table, IsProbeTable(table), NEW key, NEW ptr, NEW other,
         HasPtr(table, key, ptr), HasPtr(table, key, other)
  PROVE  ptr = other
BY DEF HasPtr, IsProbeTable

(***************************************************************************)
(* get() returns it.                                                       *)
(***************************************************************************)
LEMMA GetReturnsPtr ==
  ASSUME IInv, NeverFillsUp, NEW key \in Key
  PROVE  HasPtr(data, key, Get(key)) /\ Get(key) \in Ptr
<1> DEFINE n == CACHE_MAP_SIZE
           found == SlotForGet(key)
<1>1. n \in Nat \ {0} /\ data \in Table(n)  BY Room
<1>2. /\ found \in 0 .. n - 1
      /\ \A slot \in UsedSlots(data) : data[slot].key = key => found = slot
      /\ found \in UsedSlots(data) => data[found].key = key
  BY GetFindsKey
<1>3. Get(key) = data[found].ptr  BY DEF Get
<1>4. Get(key) \in Ptr  BY <1>1, <1>2, <1>3 DEF Table, Entry
<1>5. found \notin UsedSlots(data) => data[found].ptr = EMPTY_PTR
  BY <1>1, <1>2, TableSize DEF UsedSlots, FreeSlots
<1> HIDE DEF found
<1> QED  BY <1>2, <1>3, <1>4, <1>5 DEF HasPtr

GetsRight == \A key \in Key : HasPtr(data, key, Get(key)) /\ Get(key) \in Ptr

(***************************************************************************)
(* The same, as a predicate that can be primed.                            *)
(***************************************************************************)
LEMMA AlwaysGetsRight == NeverFillsUp /\ IInv => GetsRight
BY GetReturnsPtr DEF GetsRight

(***************************************************************************)
(* Storing an entry changes what the table has for its key, and for no     *)
(* other.                                                                  *)
(***************************************************************************)
LEMMA StoreChangesKey ==
  ASSUME NEW n \in Nat \ {0}, NEW table \in Table(n), IsProbeTable(table),
         FreeSlots(table) # {}, NEW entry \in Entry, entry.ptr # EMPTY_PTR,
         NEW key, NEW ptr, HasPtr(table, key, ptr)
  PROVE  HasPtr([table EXCEPT ![SlotForPut(table, entry.key)] = entry], key,
                IF key = entry.key THEN entry.ptr ELSE ptr)
<1> DEFINE slot == SlotForPut(table, entry.key)
           stored == [table EXCEPT ![slot] = entry]
<1>1. entry.key \in Key  BY DEF Entry
<1>2. /\ slot \in 0 .. n - 1
      /\ UsedSlots(stored) = UsedSlots(table) \cup {slot}
  BY StoreKeeps
<1>3. slot \in UsedSlots(table) => table[slot].key = entry.key
  <2>1. slot \in FreeSlots(table) \/ table[slot].key = entry.key
    BY <1>1, SlotForPutFinds
  <2>2. FreeSlots(table) \cap UsedSlots(table) = {}  BY TableSize
  <2> QED  BY <2>1, <2>2
<1> HIDE DEF slot
<1>4. \A s \in 0 .. n - 1 : stored[s] = IF s = slot THEN entry ELSE table[s]
  BY DEF Table
<1>5. UsedSlots(table) \subseteq 0 .. n - 1  BY TableSize
<1> HIDE DEF stored
<1>6. HasPtr(stored, key, IF key = entry.key THEN entry.ptr ELSE ptr)
  <2>1. CASE key = entry.key  BY <1>2, <1>4, <2>1 DEF HasPtr
  <2>2. CASE key # entry.key
    <3>1. \A s \in UsedSlots(table) : table[s].key = key => s # slot  BY <1>3, <2>2
    <3> QED  BY <1>2, <1>4, <1>5, <2>2, <3>1 DEF HasPtr
  <2> QED  BY <2>1, <2>2
<1> QED  BY <1>6 DEF stored, slot

(***************************************************************************)
(* Giving up an entry takes away the pointer of its key, and of no other.  *)
(***************************************************************************)
LEMMA TakeChangesKey ==
  ASSUME NEW n \in Nat \ {0}, NEW table \in Table(n), IsProbeTable(table),
         NEW victim, victim \in UsedSlots(table),
         UsedSlots([table EXCEPT ![victim] = FreeEntry]) = UsedSlots(table) \ {victim},
         NEW key, NEW ptr, HasPtr(table, key, ptr)
  PROVE  HasPtr([table EXCEPT ![victim] = FreeEntry], key,
                IF key = table[victim].key THEN EMPTY_PTR ELSE ptr)
<1> DEFINE taken == [table EXCEPT ![victim] = FreeEntry]
<1>1. UsedSlots(table) \subseteq 0 .. n - 1  BY TableSize
<1>2. \A s \in UsedSlots(table) : s # victim => taken[s] = table[s]
  BY <1>1 DEF Table
<1>3. UsedSlots(taken) = UsedSlots(table) \ {victim}  OBVIOUS
<1> HIDE DEF taken
<1>4. \A s \in UsedSlots(table) : table[s].key = table[victim].key => s = victim
  BY DEF IsProbeTable
<1>5. HasPtr(taken, key, IF key = table[victim].key THEN EMPTY_PTR ELSE ptr)
  <2>1. CASE key = table[victim].key
    <3>1. \A s \in UsedSlots(taken) : taken[s].key # key  BY <1>2, <1>3, <1>4, <2>1
    <3> QED  BY <2>1, <3>1 DEF HasPtr
  <2>2. CASE key # table[victim].key
    <3>1. \A s \in UsedSlots(table) : table[s].key = key => s \in UsedSlots(taken)
      BY <1>3, <2>2
    <3> QED  BY <1>2, <1>3, <2>2, <3>1 DEF HasPtr
  <2> QED  BY <2>1, <2>2
<1> QED  BY <1>5 DEF taken

(***************************************************************************)
(* What each call does to the map of pointers that get() makes visible.    *)
(***************************************************************************)
LEMMA PutOrDisplaceEffect ==
  ASSUME IInv, NeverFillsUp, NEW entry \in Entry, entry.ptr # EMPTY_PTR,
         PutOrDisplace(entry)
  PROVE  \/ /\ ~IsFull
            /\ \A key \in Key : Get(key)' = IF key = entry.key THEN entry.ptr ELSE Get(key)
         \/ /\ IsFull
            /\ \E victim \in [key : Key, ptr : Ptr \ {EMPTY_PTR}] :
                 /\ Get(victim.key) = victim.ptr
                 /\ displaced' = {victim}
                 /\ \A key \in Key : Get(key)' = IF key = entry.key THEN entry.ptr
                                                 ELSE IF key = victim.key THEN EMPTY_PTR
                                                 ELSE Get(key)
<1> DEFINE n == CACHE_MAP_SIZE
<1>1. n \in Nat \ {0} /\ data \in Table(n) /\ FreeSlots(data) # {}  BY Room
<1>2. IsProbeTable(data)  BY DEF IInv, ProbeChainsIntact
<1>3. IInv'  BY PutOrDisplaceKeeps
<1>4. IsProbeTable(data')  BY <1>3 DEF IInv, ProbeChainsIntact
<1>5. \A key \in Key : HasPtr(data, key, Get(key))  BY GetReturnsPtr
<1>6. \A key \in Key : HasPtr(data', key, Get(key)')
  <2>1. GetsRight'  BY <1>3, AlwaysGetsRight, PTL
  <2> QED  BY <2>1 DEF GetsRight, HasPtr, UsedSlots, FreeSlots
<1>7. CASE ~IsFull /\ StoreIn(data, usedSize, entry)
  <2>1. data' = [data EXCEPT ![SlotForPut(data, entry.key)] = entry]
    BY <1>7 DEF StoreIn
  <2>2. \A key \in Key : HasPtr(data', key, IF key = entry.key THEN entry.ptr ELSE Get(key))
    BY <1>1, <1>2, <1>5, <2>1, StoreChangesKey
  <2>3. \A key \in Key : Get(key)' = IF key = entry.key THEN entry.ptr ELSE Get(key)
    BY <1>4, <1>6, <2>2, OnePtr
  <2> QED  BY <1>7, <2>3
<1>8. CASE IsFull /\ \E victim \in {VictimSlot(random) : random \in Slot} :
             /\ StoreIn([data EXCEPT ![victim] = FreeEntry], usedSize - 1, entry)
             /\ displaced' = {data[victim]}
  <2>1. PICK victim \in {VictimSlot(random) : random \in Slot} :
             /\ StoreIn([data EXCEPT ![victim] = FreeEntry], usedSize - 1, entry)
             /\ displaced' = {data[victim]}
    BY <1>8
  <2> DEFINE taken == [data EXCEPT ![victim] = FreeEntry]
             gone == data[victim]
  <2>2. /\ victim \in UsedSlots(data) /\ taken \in Table(n)
        /\ UsedSlots(taken) = UsedSlots(data) \ {victim}
        /\ FreeSlots(taken) # {} /\ IsProbeTable(taken)
    BY <1>8, GiveUpEffect
  <2>3. gone \in [key : Key, ptr : Ptr \ {EMPTY_PTR}]
    BY <1>1, <2>2, UsedEntry
  <2>4. Get(gone.key) = gone.ptr
    <3>1. HasPtr(data, gone.key, gone.ptr)  BY <2>2 DEF HasPtr
    <3>2. HasPtr(data, gone.key, Get(gone.key))  BY <1>5, <2>3
    <3> QED  BY <1>2, <3>1, <3>2, OnePtr
  <2>5. \A key \in Key :
          HasPtr(taken, key, IF key = gone.key THEN EMPTY_PTR ELSE Get(key))
    BY <1>1, <1>2, <1>5, <2>2, TakeChangesKey
  <2>6. data' = [taken EXCEPT ![SlotForPut(taken, entry.key)] = entry]
    BY <2>1 DEF StoreIn
  <2> HIDE DEF taken
  <2>7. \A key \in Key :
          HasPtr(data', key, IF key = entry.key THEN entry.ptr
                             ELSE IF key = gone.key THEN EMPTY_PTR ELSE Get(key))
    BY <1>1, <2>2, <2>5, <2>6, StoreChangesKey
  <2> HIDE DEF gone
  <2>8. \A key \in Key : Get(key)' = IF key = entry.key THEN entry.ptr
                                     ELSE IF key = gone.key THEN EMPTY_PTR ELSE Get(key)
    BY <1>4, <1>6, <2>7, OnePtr
  <2>9. displaced' = {gone}  BY <2>1 DEF gone
  <2> QED  BY <1>8, <2>3, <2>4, <2>8, <2>9
<1> QED  BY <1>7, <1>8 DEF PutOrDisplace


(***************************************************************************)
(* Marking changes the pointer of its key to another one.                  *)
(***************************************************************************)
LEMMA MarkChangesKey ==
  ASSUME IInv, NeverFillsUp, NEW marked \in Key, NEW isPresent \in BOOLEAN,
         Mark(marked, isPresent)
  PROVE  /\ PointsToValue(Get(marked))
         /\ Get(marked)' # EMPTY_PTR
         /\ \A key \in Key : key # marked => Get(key)' = Get(key)
<1> DEFINE found == SlotForGet(marked)
<1>1. CACHE_MAP_SIZE \in Nat \ {0} /\ data \in Table(CACHE_MAP_SIZE)  BY Room
<1>2. /\ found \in UsedSlots(data) /\ data[found].key = marked
      /\ data' \in Table(CACHE_MAP_SIZE) /\ UsedSlots(data') = UsedSlots(data)
      /\ \A s \in 0 .. CACHE_MAP_SIZE - 1 : data'[s].key = data[s].key
      /\ \A s \in 0 .. CACHE_MAP_SIZE - 1 : s # found => data'[s] = data[s]
      /\ data'[found].ptr # EMPTY_PTR
  BY MarkEffect
<1> HIDE DEF found
<1>3. UsedSlots(data) \subseteq 0 .. CACHE_MAP_SIZE - 1  BY <1>1, TableSize
<1>4. IInv'  BY MarkKeeps
<1>5. IsProbeTable(data')  BY <1>4 DEF IInv, ProbeChainsIntact
<1>6. \A key \in Key : HasPtr(data', key, Get(key)')
  <2>1. GetsRight'  BY <1>4, AlwaysGetsRight, PTL
  <2> QED  BY <2>1 DEF GetsRight, HasPtr, UsedSlots, FreeSlots
<1>7. Get(marked)' # EMPTY_PTR
  <2>1. HasPtr(data', marked, data'[found].ptr)  BY <1>2, <1>3 DEF HasPtr
  <2> QED  BY <1>2, <1>5, <1>6, <2>1, OnePtr
<1>8. ASSUME NEW key \in Key, key # marked PROVE Get(key)' = Get(key)
  <2>1. HasPtr(data, key, Get(key))  BY GetReturnsPtr
  <2>2. HasPtr(data', key, Get(key))  BY <1>2, <1>3, <1>8, <2>1 DEF HasPtr
  <2> QED  BY <1>5, <1>6, <2>2, OnePtr
<1> QED  BY <1>7, <1>8 DEF Mark

(***************************************************************************)
(* An empty map has no pointer for any key.                                *)
(***************************************************************************)
LEMMA EmptyHasNothing ==
  ASSUME IInv, NeverFillsUp, data = EmptyTable(CACHE_MAP_SIZE)
  PROVE  \A key \in Key : Get(key) = EMPTY_PTR
<1>1. UsedSlots(data) = {}  BY Room, EmptyTableIsProbeTable
<1> QED  BY <1>1, GetReturnsPtr DEF HasPtr

(***************************************************************************)
(* The keys that have a pointer are as many as the used slots, so that     *)
(* both maps are full at the same time.                                    *)
(***************************************************************************)
CachedKeys == {key \in Key : Get(key) # EMPTY_PTR}

(***************************************************************************)
(* Each of these keys is in one used slot, and each used slot has one of   *)
(* them.                                                                   *)
(***************************************************************************)
LEMMA CachedCount ==
  ASSUME IInv, NeverFillsUp
  PROVE  Cardinality(CachedKeys) = usedSize
<1> DEFINE used == UsedSlots(data)
           keyOf == [s \in used |-> data[s].key]
<1>1. CACHE_MAP_SIZE \in Nat \ {0} /\ data \in Table(CACHE_MAP_SIZE) /\ IsFiniteSet(used)
  BY Room
<1>2. \A s \in used : data[s].key \in Key /\ data[s].ptr # EMPTY_PTR
  BY <1>1, UsedEntry
<1>3. \A key \in Key : HasPtr(data, key, Get(key))  BY GetReturnsPtr
<1>4. \A s, t \in used : data[s].key = data[t].key => s = t
  BY DEF IInv, ProbeChainsIntact, IsProbeTable
<1>5. usedSize = Cardinality(used)  BY DEF IInv, UsedSizeExact
<1> HIDE DEF used
<1>6. \A s \in used : data[s].key \in CachedKeys
  BY <1>2, <1>3 DEF HasPtr, used, CachedKeys
<1>7. \A key \in CachedKeys : \E s \in used : data[s].key = key
  BY <1>3 DEF HasPtr, used, CachedKeys
<1>8. keyOf \in Bijection(used, CachedKeys)
  <2>1. keyOf \in [used -> CachedKeys]  BY <1>6
  <2>2. \A s, t \in used : keyOf[s] = keyOf[t] => s = t  BY <1>4
  <2>3. \A key \in CachedKeys : \E s \in used : keyOf[s] = key  BY <1>7
  <2> HIDE DEF keyOf
  <2> QED  BY <2>1, <2>2, <2>3, Fun_IsBij
<1>9. ExistsBijection(used, CachedKeys)  BY <1>8, Fun_ExistsBij
<1> QED  BY <1>1, <1>5, <1>9, FS_Bijection

(***************************************************************************)
(* The operators of the bounded map that do not depend on its state are    *)
(* those of the table.                                                     *)
(***************************************************************************)
LEMMA SameOperators ==
  /\ CacheTable!EMPTY_PTR = EMPTY_PTR
  /\ \A ptr : CacheTable!PointsToValue(ptr) <=> PointsToValue(ptr)
  /\ \A S : CacheTable!Cardinality(S) = Cardinality(S)
<1>1. CacheTable!EMPTY_PTR = EMPTY_PTR  BY DEF CacheTable!EMPTY_PTR, EMPTY_PTR
<1>2. \A ptr : CacheTable!PointsToValue(ptr) <=> PointsToValue(ptr)
  BY DEF CacheTable!PointsToValue, PointsToValue
<1>3. \A S : CacheTable!Cardinality(S) = Cardinality(S)
  BY DEF CacheTable!Cardinality, Cardinality
<1> QED  BY <1>1, <1>2, <1>3

(***************************************************************************)
(* So the load factor decides alike.                                       *)
(***************************************************************************)
LEMMA SameFull ==
  ASSUME IInv, NeverFillsUp
  PROVE  CacheTable!CacheIsFull <=> IsFull
<1>1. CacheTable!Cached = CachedKeys  BY SameOperators DEF CacheTable!Cached, CachedKeys
<1>2. CacheTable!Cardinality(CacheTable!Cached) = usedSize
  BY <1>1, CachedCount, SameOperators
<1> QED  BY <1>2 DEF CacheTable!CacheIsFull, IsFull, IsOverloaded

(***************************************************************************)
(* Every step of the table is a step of the bounded map, or none.          *)
(***************************************************************************)
Pointers == [key \in Key |-> Get(key)]

(***************************************************************************)
(* The steps of the bounded map, by the action of the table.               *)
(***************************************************************************)
LEMMA NextImplementsCacheTable ==
  ASSUME IInv, NeverFillsUp, Next
  PROVE  CacheTable!CacheNext
<1>1. /\ \A key \in Key : Pointers[key] = Get(key)
      /\ \A key \in Key : Pointers'[key] = Get(key)'
  BY DEF Pointers
<1>2. DOMAIN Pointers = Key /\ DOMAIN Pointers' = Key  BY DEF Pointers
<1>3. CacheTable!CacheIsFull <=> IsFull  BY SameFull
<1>4. ASSUME NEW key \in Key, NEW ptr \in OfferedPtr,
             PutOrDisplace([key |-> key, ptr |-> ptr])
      PROVE  CacheTable!CacheNext
  <2> DEFINE entry == [key |-> key, ptr |-> ptr]
  <2>1. entry \in Entry /\ entry.ptr # EMPTY_PTR /\ entry.key = key /\ entry.ptr = ptr
    BY CacheMapAssumption DEF Entry
  <2>2. \/ /\ ~IsFull
           /\ \A k \in Key : Get(k)' = IF k = entry.key THEN entry.ptr ELSE Get(k)
        \/ /\ IsFull
           /\ \E victim \in [key : Key, ptr : Ptr \ {EMPTY_PTR}] :
                /\ Get(victim.key) = victim.ptr
                /\ displaced' = {victim}
                /\ \A k \in Key : Get(k)' = IF k = entry.key THEN entry.ptr
                                            ELSE IF k = victim.key THEN EMPTY_PTR
                                            ELSE Get(k)
    <3>1. PutOrDisplace(entry)  BY <1>4
    <3> HIDE DEF entry
    <3> QED  BY <2>1, <3>1, PutOrDisplaceEffect
  <2> HIDE DEF entry
  <2>3. CASE ~IsFull /\ \A k \in Key : Get(k)' = IF k = entry.key THEN entry.ptr ELSE Get(k)
    <3>1. Pointers'[key] = ptr  BY <1>1, <2>1, <2>3
    <3>2. Pointers' = [Pointers EXCEPT ![key] = ptr]
      BY <1>1, <2>1, <2>3 DEF Pointers
    <3>3. CacheTable!Put([key |-> key, ptr |-> Pointers'[key]])
      BY <3>1, <3>2 DEF CacheTable!Put, Pointers
    <3> QED
      BY <1>3, <2>1, <2>3, <3>1, <3>3, SameOperators DEF CacheTable!CacheNext, Pointers
  <2>4. CASE IsFull /\ \E victim \in [key : Key, ptr : Ptr \ {EMPTY_PTR}] :
                /\ Get(victim.key) = victim.ptr
                /\ displaced' = {victim}
                /\ \A k \in Key : Get(k)' = IF k = entry.key THEN entry.ptr
                                            ELSE IF k = victim.key THEN EMPTY_PTR
                                            ELSE Get(k)
    <3>1. PICK victim \in [key : Key, ptr : Ptr \ {EMPTY_PTR}] :
                /\ Get(victim.key) = victim.ptr
                /\ \A k \in Key : Get(k)' = IF k = entry.key THEN entry.ptr
                                            ELSE IF k = victim.key THEN EMPTY_PTR
                                            ELSE Get(k)
      BY <2>4
    <3>2. victim.key \in Key /\ victim.ptr # EMPTY_PTR  OBVIOUS
    <3>3. victim.key \in CacheTable!Cached
      BY <3>1, <3>2, SameOperators DEF CacheTable!Cached
    <3>4. Pointers'[key] = ptr /\ (Pointers'[victim.key] = EMPTY_PTR \/ victim.key = key)
      BY <1>1, <2>1, <3>1, <3>2
    <3>5. Pointers' = [Pointers EXCEPT ![victim.key] = EMPTY_PTR, ![key] = ptr]
      BY <1>1, <2>1, <3>1, <3>2 DEF Pointers
    <3>6. CacheTable!Displace(victim.key, [key |-> key, ptr |-> Pointers'[key]])
      BY <3>4, <3>5, SameOperators DEF CacheTable!Displace, Pointers
    <3> QED
      BY <1>3, <2>1, <2>4, <3>3, <3>4, <3>6, SameOperators DEF CacheTable!CacheNext, Pointers
  <2> QED  BY <2>2, <2>3, <2>4
<1>5. ASSUME NEW key \in Key, NEW isPresent \in BOOLEAN, Mark(key, isPresent)
      PROVE  CacheTable!CacheNext
  <2>1. /\ PointsToValue(Get(key))
        /\ Get(key)' # EMPTY_PTR
        /\ \A k \in Key : k # key => Get(k)' = Get(k)
    BY <1>5, MarkChangesKey
  <2>2. Pointers' = [Pointers EXCEPT ![key] = Pointers'[key]]
    BY <1>1, <2>1 DEF Pointers
  <2>3. CacheTable!SetCached(key, Pointers'[key])
    BY <2>2 DEF CacheTable!SetCached, Pointers
  <2>4. CacheTable!PointsToValue(Pointers[key]) /\ Pointers'[key] # EMPTY_PTR
    BY <1>1, <2>1, SameOperators
  <2> QED  BY <2>3, <2>4, SameOperators DEF CacheTable!CacheNext, Pointers
<1>6. CASE Clear
  <2>1. data' = EmptyTable(CACHE_MAP_SIZE)  BY <1>6 DEF Clear
  <2>2. IInv'  BY <1>6, EmptyKeeps DEF Clear
  <2>3. UsedSlots(data') = {}  BY <2>1, EmptyTableIsProbeTable, CacheMapAssumption
  <2>4. GetsRight'  BY <2>2, AlwaysGetsRight, PTL
  <2>5. \A key \in Key : Get(key)' = EMPTY_PTR
    BY <2>3, <2>4 DEF GetsRight, HasPtr, UsedSlots, FreeSlots
  <2>6. CacheTable!CacheClear  BY <2>5, SameOperators DEF CacheTable!CacheClear
  <2> QED  BY <2>6 DEF CacheTable!CacheNext
<1> QED  BY <1>4, <1>5, <1>6 DEF Next


(***************************************************************************)
(* The table, seen through get(), is the bounded map that KVS is modelled  *)
(* with.                                                                   *)
(***************************************************************************)
THEOREM CacheMapIsBoundedMap == NeverFillsUp => (Spec => ImplementsCacheTable)
<1> SUFFICES ASSUME NeverFillsUp PROVE Spec => ImplementsCacheTable  OBVIOUS
<1>1. Init => CacheTable!CacheInit
  <2> SUFFICES ASSUME Init PROVE CacheTable!CacheInit  OBVIOUS
  <2>1. \A key \in Key : Get(key) = EMPTY_PTR
    BY InitEstablishes, EmptyHasNothing DEF Init
  <2> QED  BY <2>1, SameOperators DEF CacheTable!CacheInit
<1>2. IInv /\ [Next]_<<data, usedSize, displaced>>
        => [CacheTable!CacheNext]_[key \in Key |-> Get(key)]
  <2> SUFFICES ASSUME IInv, [Next]_<<data, usedSize, displaced>>
               PROVE  [CacheTable!CacheNext]_[key \in Key |-> Get(key)]
    OBVIOUS
  <2>1. CASE Next  BY <2>1, NextImplementsCacheTable
  <2>2. CASE UNCHANGED <<data, usedSize, displaced>>
    <3>1. \A key \in Key : Get(key)' = Get(key)
      BY <2>2 DEF Get, SlotForGet, HomeSlot, Size, FindNext, SlotsOf, FreeSlots
    <3> QED  BY <3>1
  <2> QED  BY <2>1, <2>2
<1>3. NeverFillsUp  OBVIOUS
<1>4. Spec => []IInv  BY <1>3, Invariant
<1> QED
  BY <1>1, <1>2, <1>4, PTL DEF Spec, ImplementsCacheTable, CacheTable!CacheSpec

(***************************************************************************)
(* A pointer that get() no longer returns was returned to the caller, who  *)
(* pushes it to its shard, or the map was cleared.                         *)
(***************************************************************************)
LostAreReturned ==
  \A key \in Key :
    Get(key) # Get(key)' /\ usedSize' # 0 =>
      \/ [key |-> key, ptr |-> Get(key)] \in displaced'
      \/ Get(key)' # EMPTY_PTR

(***************************************************************************)
(* No call loses a pointer, by the action of the table.                    *)
(***************************************************************************)
LEMMA NextReturnsLost ==
  ASSUME IInv, NeverFillsUp, Next
  PROVE  LostAreReturned
<1>1. ASSUME NEW key \in Key, NEW ptr \in OfferedPtr,
             PutOrDisplace([key |-> key, ptr |-> ptr])
      PROVE  LostAreReturned
  <2> DEFINE entry == [key |-> key, ptr |-> ptr]
  <2>1. entry \in Entry /\ entry.ptr # EMPTY_PTR
    BY CacheMapAssumption DEF Entry
  <2>2. PutOrDisplace(entry)  BY <1>1
  <2> HIDE DEF entry
  <2>3. \/ \A k \in Key : Get(k)' = IF k = entry.key THEN entry.ptr ELSE Get(k)
        \/ \E victim \in [key : Key, ptr : Ptr \ {EMPTY_PTR}] :
             /\ Get(victim.key) = victim.ptr
             /\ displaced' = {victim}
             /\ \A k \in Key : Get(k)' = IF k = entry.key THEN entry.ptr
                                         ELSE IF k = victim.key THEN EMPTY_PTR
                                         ELSE Get(k)
    BY <2>1, <2>2, PutOrDisplaceEffect
  <2>4. CASE \A k \in Key : Get(k)' = IF k = entry.key THEN entry.ptr ELSE Get(k)
    BY <2>1, <2>4 DEF LostAreReturned
  <2>5. ASSUME NEW victim \in [key : Key, ptr : Ptr \ {EMPTY_PTR}],
               Get(victim.key) = victim.ptr, displaced' = {victim},
               \A k \in Key : Get(k)' = IF k = entry.key THEN entry.ptr
                                        ELSE IF k = victim.key THEN EMPTY_PTR
                                        ELSE Get(k)
        PROVE  LostAreReturned
    <3>1. victim = [key |-> victim.key, ptr |-> Get(victim.key)]  BY <2>5
    <3>2. [key |-> victim.key, ptr |-> Get(victim.key)] \in displaced'  BY <2>5, <3>1
    <3>3. \A k \in Key : Get(k) # Get(k)' => k = victim.key \/ Get(k)' # EMPTY_PTR
      BY <2>1, <2>5
    <3> QED  BY <3>2, <3>3 DEF LostAreReturned
  <2> QED  BY <2>3, <2>4, <2>5
<1>2. ASSUME NEW key \in Key, NEW isPresent \in BOOLEAN, Mark(key, isPresent)
      PROVE  LostAreReturned
  BY <1>2, MarkChangesKey DEF LostAreReturned
<1>3. CASE Clear  BY <1>3 DEF Clear, LostAreReturned
<1> QED  BY <1>1, <1>2, <1>3 DEF Next

(***************************************************************************)
(* No entry leaves the map unnoticed: the pointer of a removed record that *)
(* KVS has yet to write to its shard is never forgotten by a displacement. *)
(***************************************************************************)
THEOREM NoEntryIsLost == NeverFillsUp => (Spec => LostEntriesAreReturned)
<1> SUFFICES ASSUME NeverFillsUp PROVE Spec => LostEntriesAreReturned  OBVIOUS
<1>1. IInv /\ [Next]_<<data, usedSize, displaced>>
        => [LostAreReturned]_<<data, usedSize, displaced>>
  BY NextReturnsLost
<1>2. NeverFillsUp  OBVIOUS
<1>3. Spec => []IInv  BY <1>2, Invariant
<1> QED
  BY <1>1, <1>3, PTL DEF Spec, LostEntriesAreReturned, LostAreReturned
=============================================================================
