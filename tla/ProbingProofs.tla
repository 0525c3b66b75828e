--------------------------- MODULE ProbingProofs ---------------------------
(***************************************************************************)
(* Linear probing round a table of any size: what the searches find, where *)
(* an entry is stored, and that neither storing an entry nor taking away   *)
(* the last one of a cluster cuts another one off.                         *)
(***************************************************************************)
EXTENDS Probing, FiniteSetTheorems, WellFoundedInduction, TLAPS

(***************************************************************************)
(* The slot d steps behind a slot, and the number of steps from one slot   *)
(* to another, without the modulo.                                         *)
(***************************************************************************)
Step(n, slot, d) == IF slot + d < n THEN slot + d ELSE slot + d - n

StepBack(n, slot, d) == IF d <= slot THEN slot - d ELSE slot - d + n

Gap(n, from, to) == IF from <= to THEN to - from ELSE to - from + n

-----------------------------------------------------------------------------
(***************************************************************************)
(* The modulo of a sum or difference of two slots: they are never more     *)
(* than one round off.                                                     *)
(***************************************************************************)
LEMMA StepIsModulo ==
  ASSUME NEW n \in Nat \ {0}, NEW s \in 0 .. n - 1, NEW d \in 0 .. n - 1
  PROVE  /\ (s + d) % n = Step(n, s, d)
         /\ (s - d) % n = StepBack(n, s, d)
         /\ (d - s) % n = Gap(n, s, d)
<1>1. (s + d) % n = IF s + d < n THEN s + d ELSE s + d - n
  <2>1. CASE s + d < n  BY <2>1
  <2>2. CASE ~(s + d < n)
    <3>1. s + d \in n .. 2 * n - 1  BY <2>2
    <3>2. (s + d) % n = s + d - n  BY <3>1
    <3> QED  BY <2>2, <3>2
  <2> QED  BY <2>1, <2>2
<1>2. (s - d) % n = IF d <= s THEN s - d ELSE s - d + n
  <2>1. CASE d <= s
    <3>1. s - d \in 0 .. n - 1  BY <2>1
    <3>2. (s - d) % n = s - d  BY <3>1
    <3> QED  BY <2>1, <3>2
  <2>2. CASE ~(d <= s)
    <3>1. s - d \in -n .. -1  BY <2>2
    <3>2. (s - d) % n = s - d + n  BY <3>1
    <3> QED  BY <2>2, <3>2
  <2> QED  BY <2>1, <2>2
<1>3. (d - s) % n = IF s <= d THEN d - s ELSE d - s + n
  <2>1. CASE s <= d
    <3>1. d - s \in 0 .. n - 1  BY <2>1
    <3>2. (d - s) % n = d - s  BY <3>1
    <3> QED  BY <2>1, <3>2
  <2>2. CASE ~(s <= d)
    <3>1. d - s \in -n .. -1  BY <2>2
    <3>2. (d - s) % n = d - s + n  BY <3>1
    <3> QED  BY <2>2, <3>2
  <2> QED  BY <2>1, <2>2
<1> QED  BY <1>1, <1>2, <1>3 DEF Step, StepBack, Gap

(***************************************************************************)
(* Every slot is exactly one number of steps, less than a whole round,     *)
(* away from every other.                                                  *)
(***************************************************************************)
LEMMA Around ==
  ASSUME NEW n \in Nat \ {0}, NEW s \in 0 .. n - 1, NEW d \in 0 .. n - 1
  PROVE  /\ Step(n, s, d) \in 0 .. n - 1
         /\ Gap(n, s, Step(n, s, d)) = d
         /\ Gap(n, s, d) \in 0 .. n - 1
         /\ Step(n, s, Gap(n, s, d)) = d
         /\ Gap(n, s, d) = 0 <=> s = d
BY DEF Gap, Step

(***************************************************************************)
(* A set of numbers of steps has a least one, which Nearest chooses.       *)
(***************************************************************************)
LEMMA NearestIsLeast ==
  ASSUME NEW steps \in SUBSET Nat, steps # {}
  PROVE  Nearest(steps) \in steps /\ \A d \in steps : Nearest(steps) <= d
<1> DEFINE less == {pair \in Nat \X Nat : pair[1] < pair[2]}
<1>1. IsWellFoundedOn(less, Nat)  BY NatLessThanWellFounded DEF OpToRel
<1>2. \A d, e \in Nat : d < e => <<d, e>> \in less  OBVIOUS
<1> HIDE DEF less
<1>3. PICK d \in steps : \A e \in steps : <<e, d>> \notin less  BY <1>1, WFMin
<1>4. \A e \in steps : d <= e
  <2>1. TAKE e \in steps
  <2>2. d \in Nat /\ e \in Nat  OBVIOUS
  <2>3. ~(e < d)  BY <1>2, <1>3, <2>2
  <2> QED  BY <2>2, <2>3
<1> QED  BY <1>4 DEF Nearest

(***************************************************************************)
(* A table of n slots has n slots, each of them free or used.              *)
(***************************************************************************)
LEMMA TableSize ==
  ASSUME NEW n \in Nat \ {0}, NEW table \in Table(n)
  PROVE  /\ DOMAIN table = 0 .. n - 1
         /\ Size(table) = n
         /\ FreeSlots(table) \cup UsedSlots(table) = 0 .. n - 1
         /\ FreeSlots(table) \cap UsedSlots(table) = {}
         /\ IsFiniteSet(FreeSlots(table)) /\ IsFiniteSet(UsedSlots(table))
         /\ Cardinality(FreeSlots(table)) + Cardinality(UsedSlots(table)) = n
         /\ \A key : SlotsOf(table, key) \subseteq 0 .. n - 1
<1>1. DOMAIN table = 0 .. n - 1  BY DEF Table
<1>2. IsFiniteSet(0 .. n - 1) /\ Cardinality(0 .. n - 1) = n
  <2>1. 0 \in Int /\ n - 1 \in Int /\ ~(0 > n - 1) /\ n - 1 - 0 + 1 = n  OBVIOUS
  <2> QED  BY <2>1, FS_Interval
<1>3. /\ FreeSlots(table) \subseteq 0 .. n - 1
      /\ UsedSlots(table) = (0 .. n - 1) \ FreeSlots(table)
  BY <1>1 DEF FreeSlots, UsedSlots
<1>4. /\ IsFiniteSet(FreeSlots(table)) /\ IsFiniteSet(UsedSlots(table))
      /\ Cardinality(FreeSlots(table)) \in Nat
      /\ Cardinality(UsedSlots(table)) =
           Cardinality(0 .. n - 1) - Cardinality((0 .. n - 1) \cap FreeSlots(table))
  BY <1>2, <1>3, FS_Subset, FS_Difference, FS_CardinalityType
<1>5. (0 .. n - 1) \cap FreeSlots(table) = FreeSlots(table)  BY <1>3
<1>6. Size(table) = n  BY <1>1, <1>2 DEF Size
<1>7. Cardinality(FreeSlots(table)) + Cardinality(UsedSlots(table)) = n
  <2> DEFINE slots == 0 .. n - 1
             free == Cardinality(FreeSlots(table))
             used == Cardinality(UsedSlots(table))
  <2>1. free \in Nat /\ used = Cardinality(slots) - Cardinality(slots \cap FreeSlots(table))
    BY <1>4
  <2>2. Cardinality(slots) = n /\ slots \cap FreeSlots(table) = FreeSlots(table)
    BY <1>2, <1>5
  <2> HIDE DEF slots, used
  <2>3. used = n - free  BY <2>1, <2>2
  <2> HIDE DEF free
  <2>4. free + used = n  BY <2>1, <2>3
  <2> QED  BY <2>4 DEF free, used
<1>8. \A key : SlotsOf(table, key) \subseteq 0 .. n - 1  BY <1>1 DEF SlotsOf
<1> QED  BY <1>1, <1>3, <1>4, <1>6, <1>7, <1>8

(***************************************************************************)
(* findNextByPredicate finds the first wanted slot behind `from', and      *)
(* gives up only if no other slot than `from' is wanted.                   *)
(***************************************************************************)
LEMMA FindNextFinds ==
  ASSUME NEW n \in Nat \ {0}, NEW table \in Table(n),
         NEW from \in 0 .. n - 1, NEW wanted \in SUBSET (0 .. n - 1)
  PROVE  LET found == FindNext(table, from, wanted) IN
         /\ found \in 0 .. n - 1
         /\ found = from => wanted \subseteq {from}
         /\ found # from =>
              /\ found \in wanted
              /\ \A d \in 1 .. Gap(n, from, found) - 1 : Step(n, from, d) \notin wanted
<1> DEFINE steps == {d \in 1 .. n - 1 : Step(n, from, d) \in wanted}
           found == FindNext(table, from, wanted)
<1>1. steps = {d \in 1 .. n - 1 : (from + d) % n \in wanted}
  <2>1. \A d \in 1 .. n - 1 : (from + d) % n = Step(n, from, d)  BY StepIsModulo
  <2> QED  BY <2>1
<1>2. \A d \in 1 .. n - 1 : (from + d) % n = Step(n, from, d)  BY StepIsModulo
<1>3. found = IF steps = {} THEN from ELSE (from + Nearest(steps)) % n
  BY <1>1, TableSize DEF FindNext
<1>4. CASE steps = {}
  <2>1. \A slot \in wanted : slot = from
    <3>1. SUFFICES ASSUME NEW slot \in wanted, slot # from PROVE FALSE  OBVIOUS
    <3>2. /\ Gap(n, from, slot) \in 1 .. n - 1
          /\ Step(n, from, Gap(n, from, slot)) = slot
      BY <3>1 DEF Gap, Step
    <3> QED  BY <1>4, <3>1, <3>2
  <2> QED  BY <1>3, <1>4, <2>1
<1>5. CASE steps # {}
  <2>1. Nearest(steps) \in steps /\ \A d \in steps : Nearest(steps) <= d
    <3>1. steps \in SUBSET Nat  OBVIOUS
    <3> HIDE DEF steps
    <3> QED  BY <1>5, <3>1, NearestIsLeast
  <2> DEFINE near == Nearest(steps)
  <2>2. near \in 1 .. n - 1 /\ Step(n, from, near) \in wanted  BY <2>1
  <2>3. found = Step(n, from, near)  BY <1>2, <1>3, <1>5, <2>2
  <2>4. \A d \in 1 .. near - 1 : Step(n, from, d) \notin wanted
    <3>1. SUFFICES ASSUME NEW d \in 1 .. near - 1, Step(n, from, d) \in wanted
                   PROVE  FALSE
      OBVIOUS
    <3>2. d \in 1 .. n - 1  BY <2>2
    <3>3. near <= d  BY <2>1, <3>1, <3>2
    <3> QED  BY <2>2, <3>3
  <2> HIDE DEF near, steps
  <2>5. near = Gap(n, from, found)  BY <2>2, <2>3, Around
  <2>6. found # from  BY <2>2, <2>3 DEF Step
  <2> QED  BY <2>2, <2>3, <2>4, <2>5, <2>6
<1> QED  BY <1>4, <1>5

(***************************************************************************)
(* The loop that looks for a used slot before a free one finds the nearest *)
(* in that direction.                                                      *)
(***************************************************************************)
LEMMA FindPreviousFinds ==
  ASSUME NEW n \in Nat \ {0}, NEW table \in Table(n),
         NEW from \in 0 .. n - 1, NEW wanted \in SUBSET (0 .. n - 1)
  PROVE  LET found == FindPrevious(table, from, wanted) IN
         /\ found \in 0 .. n - 1
         /\ found = from => wanted \subseteq {from}
         /\ found # from =>
              /\ found \in wanted
              /\ \A d \in 1 .. Gap(n, found, from) - 1 : Step(n, found, d) \notin wanted
<1> DEFINE steps == {d \in 1 .. n - 1 : StepBack(n, from, d) \in wanted}
           found == FindPrevious(table, from, wanted)
<1>1. \A d \in 1 .. n - 1 : (from - d) % n = StepBack(n, from, d)  BY StepIsModulo
<1>2. steps = {d \in 1 .. n - 1 : (from - d) % n \in wanted}  BY <1>1
<1>3. found = IF steps = {} THEN from ELSE (from - Nearest(steps)) % n
  BY <1>2, TableSize DEF FindPrevious
<1>4. CASE steps = {}
  <2>1. \A slot \in wanted : slot = from
    <3>1. SUFFICES ASSUME NEW slot \in wanted, slot # from PROVE FALSE  OBVIOUS
    <3>2. /\ Gap(n, slot, from) \in 1 .. n - 1
          /\ StepBack(n, from, Gap(n, slot, from)) = slot
      BY <3>1 DEF Gap, StepBack
    <3> QED  BY <1>4, <3>1, <3>2
  <2> QED  BY <1>3, <1>4, <2>1
<1>5. CASE steps # {}
  <2>1. Nearest(steps) \in steps /\ \A d \in steps : Nearest(steps) <= d
    <3>1. steps \in SUBSET Nat  OBVIOUS
    <3> HIDE DEF steps
    <3> QED  BY <1>5, <3>1, NearestIsLeast
  <2> DEFINE near == Nearest(steps)
  <2>2. near \in 1 .. n - 1 /\ StepBack(n, from, near) \in wanted  BY <2>1
  <2>3. found = StepBack(n, from, near)  BY <1>1, <1>3, <1>5, <2>2
  <2>4. \A d \in 1 .. near - 1 : StepBack(n, from, d) \notin wanted
    <3>1. SUFFICES ASSUME NEW d \in 1 .. near - 1, StepBack(n, from, d) \in wanted
                   PROVE  FALSE
      OBVIOUS
    <3>2. d \in 1 .. n - 1  BY <2>2
    <3>3. near <= d  BY <2>1, <3>1, <3>2
    <3> QED  BY <2>2, <3>3
  <2> HIDE DEF near, steps
  <2>5. near = Gap(n, found, from)  BY <2>2, <2>3 DEF Gap, StepBack
  <2>6. found # from /\ found \in 0 .. n - 1  BY <2>2, <2>3 DEF StepBack
  <2>7. \A d \in 1 .. near - 1 : Step(n, found, d) \notin wanted
    <3>1. TAKE d \in 1 .. near - 1
    <3>2. near - d \in 1 .. near - 1  BY <2>2
    <3>3. Step(n, found, d) = StepBack(n, from, near - d)
      BY <2>2, <2>3 DEF Step, StepBack
    <3> QED  BY <2>4, <3>2, <3>3
  <2> QED  BY <2>2, <2>3, <2>5, <2>6, <2>7
<1> QED  BY <1>4, <1>5


-----------------------------------------------------------------------------
(***************************************************************************)
(* The home slot of a key is a slot.                                       *)
(***************************************************************************)
LEMMA HomeInTable ==
  ASSUME NEW n \in Nat \ {0}, NEW table \in Table(n), NEW key \in Key
  PROVE  HomeSlot(table, key) = HashOf[key] % n /\ HomeSlot(table, key) \in 0 .. n - 1
<1>1. HashOf[key] \in Nat  BY ProbingAssumption
<1>2. HashOf[key] % n \in 0 .. n - 1  BY <1>1
<1>3. Size(table) = n  BY TableSize
<1> QED  BY <1>2, <1>3 DEF HomeSlot

(***************************************************************************)
(* Reachability, counted in steps from the home slot.                      *)
(***************************************************************************)
LEMMA ReachableSteps ==
  ASSUME NEW n \in Nat \ {0}, NEW table \in Table(n), NEW slot \in 0 .. n - 1
  PROVE  LET home == HomeSlot(table, table[slot].key) IN
         /\ home \in 0 .. n - 1
         /\ Reachable(table, slot) <=>
              \A d \in 0 .. Gap(n, home, slot) : Step(n, home, d) \in UsedSlots(table)
<1> DEFINE home == HomeSlot(table, table[slot].key)
<1>1. home \in 0 .. n - 1
  <2>1. table[slot].key \in Key  BY DEF Table, Entry
  <2> QED  BY <2>1, HomeInTable
<1> HIDE DEF home
<1>2. (slot - home) % n = Gap(n, home, slot)  BY <1>1, StepIsModulo
<1>3. Gap(n, home, slot) \in 0 .. n - 1  BY <1>1, Around
<1>4. \A d \in 0 .. Gap(n, home, slot) : (home + d) % n = Step(n, home, d)
  BY <1>1, <1>3, StepIsModulo
<1>5. Size(table) = n  BY TableSize
<1>6. Reachable(table, slot) <=>
        \A d \in 0 .. (slot - home) % n : (home + d) % n \in UsedSlots(table)
  BY <1>5 DEF Reachable, home
<1> QED  BY <1>1, <1>2, <1>4, <1>6 DEF home

(***************************************************************************)
(* While a slot is free, put() stores a key in the first slot from its     *)
(* home slot on that is free or has the key.                               *)
(***************************************************************************)
LEMMA SlotForPutFinds ==
  ASSUME NEW n \in Nat \ {0}, NEW table \in Table(n), NEW key \in Key,
         FreeSlots(table) # {}
  PROVE  LET slot == SlotForPut(table, key)
             home == HomeSlot(table, key) IN
         /\ slot \in 0 .. n - 1
         /\ slot \in FreeSlots(table) \/ table[slot].key = key
         /\ \A d \in 0 .. Gap(n, home, slot) - 1 :
              /\ Step(n, home, d) \in UsedSlots(table)
              /\ table[Step(n, home, d)].key # key
<1> DEFINE home == HomeSlot(table, key)
           slot == SlotForPut(table, key)
           wanted == SlotsOf(table, key) \cup FreeSlots(table)
<1>1. home \in 0 .. n - 1  BY HomeInTable
<1>2. wanted \in SUBSET (0 .. n - 1) /\ wanted # {}  BY TableSize
<1>3. \A s \in 0 .. n - 1 :
        /\ s \in wanted <=> s \in FreeSlots(table) \/ table[s].key = key
        /\ s \notin FreeSlots(table) => s \in UsedSlots(table)
  BY TableSize DEF SlotsOf
<1>4. slot = IF home \in wanted THEN home ELSE FindNext(table, home, wanted)
  BY DEF SlotForPut
<1> HIDE DEF home, wanted, slot
<1>5. CASE home \in wanted
  <2>1. Gap(n, home, slot) = 0  BY <1>1, <1>4, <1>5, Around
  <2> QED  BY <1>1, <1>3, <1>4, <1>5, <2>1 DEF slot, home
<1>6. CASE home \notin wanted
  <2> DEFINE found == FindNext(table, home, wanted)
  <2>1. /\ found \in 0 .. n - 1
        /\ found = home => wanted \subseteq {home}
        /\ found # home =>
             /\ found \in wanted
             /\ \A d \in 1 .. Gap(n, home, found) - 1 : Step(n, home, d) \notin wanted
    BY <1>1, <1>2, FindNextFinds
  <2>2. found = slot  BY <1>4, <1>6
  <2> HIDE DEF found
  <2>3. slot # home  BY <1>2, <1>6, <2>1, <2>2
  <2>4. Gap(n, home, slot) \in 0 .. n - 1  BY <1>1, <2>1, <2>2, Around
  <2>5. \A d \in 0 .. Gap(n, home, slot) - 1 :
          Step(n, home, d) \in 0 .. n - 1 /\ Step(n, home, d) \notin wanted
    <3>1. TAKE d \in 0 .. Gap(n, home, slot) - 1
    <3>2. Step(n, home, d) \in 0 .. n - 1  BY <1>1, <2>4, Around
    <3>3. CASE d = 0  BY <1>1, <1>6, <3>2, <3>3 DEF Step
    <3>4. CASE d # 0  BY <2>1, <2>2, <2>3, <3>2, <3>4
    <3> QED  BY <3>3, <3>4
  <2> QED  BY <1>3, <2>1, <2>2, <2>3, <2>5 DEF slot, home
<1> QED  BY <1>5, <1>6

(***************************************************************************)
(* A key that is stored is stored where put() would store it.              *)
(***************************************************************************)
LEMMA StoredWherePut ==
  ASSUME NEW n \in Nat \ {0}, NEW table \in Table(n), IsProbeTable(table),
         FreeSlots(table) # {}, NEW stored, stored \in 0 .. n - 1, stored \in UsedSlots(table)
  PROVE  SlotForPut(table, table[stored].key) = stored
<1> DEFINE key == table[stored].key
           home == HomeSlot(table, key)
           slot == SlotForPut(table, key)
<1>1. stored \in 0 .. n - 1  OBVIOUS
<1>2. key \in Key  BY <1>1 DEF Table, Entry
<1>3. home \in 0 .. n - 1  BY <1>2, HomeInTable
<1>4. /\ slot \in 0 .. n - 1
      /\ slot \in FreeSlots(table) \/ table[slot].key = key
      /\ \A d \in 0 .. Gap(n, home, slot) - 1 :
           /\ Step(n, home, d) \in UsedSlots(table)
           /\ table[Step(n, home, d)].key # key
  BY <1>2, SlotForPutFinds
<1>5. \A d \in 0 .. Gap(n, home, stored) : Step(n, home, d) \in UsedSlots(table)
  BY <1>1, ReachableSteps DEF IsProbeTable
<1>6. \A s \in 0 .. n - 1 : s \in FreeSlots(table) <=> s \notin UsedSlots(table)
  BY TableSize
<1>7. \A s \in UsedSlots(table) : table[s].key = key => s = stored
  BY DEF IsProbeTable
<1> HIDE DEF key, home, slot
<1>8. /\ Gap(n, home, slot) \in 0 .. n - 1 /\ Step(n, home, Gap(n, home, slot)) = slot
      /\ Gap(n, home, stored) \in 0 .. n - 1 /\ Step(n, home, Gap(n, home, stored)) = stored
  <2>1. slot \in 0 .. n - 1  BY <1>4
  <2>2. Gap(n, home, slot) \in 0 .. n - 1 /\ Step(n, home, Gap(n, home, slot)) = slot
    BY <1>3, <2>1 DEF Gap, Step
  <2>3. Gap(n, home, stored) \in 0 .. n - 1 /\ Step(n, home, Gap(n, home, stored)) = stored
    BY <1>1, <1>3 DEF Gap, Step
  <2> QED  BY <2>2, <2>3
<1>9. ~(Gap(n, home, stored) < Gap(n, home, slot))
  <2>1. table[stored].key = key  BY DEF key
  <2> QED  BY <1>4, <1>8, <2>1
<1>10. slot \in UsedSlots(table)  BY <1>5, <1>8, <1>9
<1> QED  BY <1>4, <1>6, <1>7, <1>10 DEF key, slot


(***************************************************************************)
(* Storing an entry where put() does keeps every other one reachable,      *)
(* makes the new one reachable, and stores no key twice.                   *)
(***************************************************************************)
LEMMA StoreKeeps ==
  ASSUME NEW n \in Nat \ {0}, NEW table \in Table(n), IsProbeTable(table),
         FreeSlots(table) # {}, NEW entry \in Entry, entry.ptr # EMPTY_PTR
  PROVE  LET slot == SlotForPut(table, entry.key)
             stored == [table EXCEPT ![slot] = entry] IN
         /\ slot \in 0 .. n - 1
         /\ stored \in Table(n)
         /\ UsedSlots(stored) = UsedSlots(table) \cup {slot}
         /\ IsProbeTable(stored)
<1> DEFINE key == entry.key
           slot == SlotForPut(table, key)
           stored == [table EXCEPT ![slot] = entry]
           home == HomeSlot(table, key)
<1>1. key \in Key  BY DEF Entry
<1>2. /\ slot \in 0 .. n - 1
      /\ slot \in FreeSlots(table) \/ table[slot].key = key
      /\ \A d \in 0 .. Gap(n, home, slot) - 1 : Step(n, home, d) \in UsedSlots(table)
  BY <1>1, SlotForPutFinds
<1>3. home \in 0 .. n - 1  BY <1>1, HomeInTable
<1> HIDE DEF slot, home
<1>4. /\ stored \in Table(n)
      /\ \A s \in 0 .. n - 1 : stored[s] = IF s = slot THEN entry ELSE table[s]
  BY <1>2 DEF Table
<1> HIDE DEF stored
<1>5. \A s \in 0 .. n - 1 : /\ s \in UsedSlots(table) <=> table[s].ptr # EMPTY_PTR
                            /\ s \in UsedSlots(stored) <=> stored[s].ptr # EMPTY_PTR
  BY <1>4, TableSize DEF UsedSlots, FreeSlots
<1>6. UsedSlots(stored) = UsedSlots(table) \cup {slot}
  <2>1. UsedSlots(table) \subseteq 0 .. n - 1 /\ UsedSlots(stored) \subseteq 0 .. n - 1
    BY <1>4, TableSize
  <2> QED  BY <1>2, <1>4, <1>5, <2>1
<1>7. \A k \in Key : HomeSlot(stored, k) = HomeSlot(table, k)
  BY <1>4, HomeInTable
<1>8. ASSUME NEW s \in UsedSlots(stored) PROVE Reachable(stored, s)
  <2>1. s \in 0 .. n - 1  BY <1>4, TableSize
  <2>2. CASE s = slot
    <3>1. stored[s].key = key  BY <1>4, <2>1, <2>2
    <3>2. HomeSlot(stored, stored[s].key) = home  BY <1>1, <1>7, <3>1 DEF home
    <3>3. Gap(n, home, slot) \in 0 .. n - 1 /\ Step(n, home, Gap(n, home, slot)) = slot
      <4>1. slot \in 0 .. n - 1  BY <1>2
      <4> QED  BY <1>3, <4>1 DEF Gap, Step
    <3>4. \A d \in 0 .. Gap(n, home, slot) : Step(n, home, d) \in UsedSlots(stored)
      <4>1. TAKE d \in 0 .. Gap(n, home, slot)
      <4>2. d \in 0 .. Gap(n, home, slot) - 1 \/ d = Gap(n, home, slot)  BY <3>3
      <4> QED  BY <1>2, <1>6, <3>3, <4>2
    <3> QED  BY <1>4, <2>1, <2>2, <3>2, <3>4, ReachableSteps
  <2>3. CASE s # slot
    <3>1. s \in UsedSlots(table) /\ stored[s] = table[s]  BY <1>4, <1>6, <2>1, <2>3
    <3>2. table[s].key \in Key  BY <2>1 DEF Table, Entry
    <3> DEFINE h == HomeSlot(table, table[s].key)
    <3>3. \A d \in 0 .. Gap(n, h, s) : Step(n, h, d) \in UsedSlots(table)
      BY <2>1, <3>1, ReachableSteps DEF IsProbeTable
    <3>4. HomeSlot(stored, stored[s].key) = h  BY <1>7, <3>1, <3>2
    <3> HIDE DEF h
    <3>5. \A d \in 0 .. Gap(n, h, s) : Step(n, h, d) \in UsedSlots(stored)
      BY <1>6, <3>3
    <3> QED  BY <1>4, <2>1, <3>4, <3>5, ReachableSteps
  <2> QED  BY <2>2, <2>3
<1>9. ASSUME NEW s \in UsedSlots(stored), NEW other \in UsedSlots(stored),
             stored[s].key = stored[other].key
      PROVE  s = other
  <2>1. \A t \in UsedSlots(table) : table[t].key = key => t = slot
    BY StoredWherePut, TableSize DEF slot
  <2>2. \A t, u \in UsedSlots(table) : table[t].key = table[u].key => t = u
    BY DEF IsProbeTable
  <2>3. s \in 0 .. n - 1 /\ other \in 0 .. n - 1  BY <1>4, TableSize
  <2> QED  BY <1>4, <1>6, <1>9, <2>1, <2>2, <2>3
<1>10. IsProbeTable(stored)  BY <1>8, <1>9 DEF IsProbeTable
<1> QED  BY <1>2, <1>4, <1>6, <1>10 DEF stored, slot

(***************************************************************************)
(* Taking away an entry that has a free slot behind it cuts no other one   *)
(* off: the probe sequence of another entry that crossed it would end in   *)
(* that free slot.                                                         *)
(***************************************************************************)
LEMMA TakeKeeps ==
  ASSUME NEW n \in Nat \ {0}, NEW table \in Table(n), IsProbeTable(table),
         NEW victim \in UsedSlots(table), Step(n, victim, 1) \in FreeSlots(table)
  PROVE  LET taken == [table EXCEPT ![victim] = FreeEntry] IN
         /\ taken \in Table(n)
         /\ UsedSlots(taken) = UsedSlots(table) \ {victim}
         /\ IsProbeTable(taken)
<1> DEFINE taken == [table EXCEPT ![victim] = FreeEntry]
<1>1. victim \in 0 .. n - 1  BY TableSize
<1>2. FreeEntry \in Entry /\ FreeEntry.ptr = EMPTY_PTR
  BY ProbingAssumption DEF FreeEntry, Entry, Ptr
<1>3. /\ taken \in Table(n)
      /\ \A s \in 0 .. n - 1 : taken[s] = IF s = victim THEN FreeEntry ELSE table[s]
  BY <1>1, <1>2 DEF Table
<1> HIDE DEF taken
<1>4. \A s \in 0 .. n - 1 : /\ s \in UsedSlots(table) <=> table[s].ptr # EMPTY_PTR
                            /\ s \in UsedSlots(taken) <=> taken[s].ptr # EMPTY_PTR
  BY <1>3, TableSize DEF UsedSlots, FreeSlots
<1>5. UsedSlots(taken) = UsedSlots(table) \ {victim}
  <2>1. UsedSlots(table) \subseteq 0 .. n - 1 /\ UsedSlots(taken) \subseteq 0 .. n - 1
    BY <1>3, TableSize
  <2> QED  BY <1>1, <1>2, <1>3, <1>4, <2>1
<1>6. ASSUME NEW s \in 0 .. n - 1, s \in UsedSlots(taken) PROVE Reachable(taken, s)
  <2>1. s \in 0 .. n - 1 /\ s \in UsedSlots(table) /\ s # victim
    BY <1>5, <1>6
  <2>2. taken[s] = table[s] /\ table[s].key \in Key
    BY <1>3, <2>1 DEF Table, Entry
  <2> DEFINE h == HomeSlot(table, table[s].key)
  <2>3. /\ h \in 0 .. n - 1
        /\ \A d \in 0 .. Gap(n, h, s) : Step(n, h, d) \in UsedSlots(table)
    BY <2>1, ReachableSteps DEF IsProbeTable
  <2>4. HomeSlot(taken, taken[s].key) = h  BY <1>3, <2>2, HomeInTable
  <2> HIDE DEF h
  <2>5. Gap(n, h, s) \in 0 .. n - 1 /\ Step(n, h, Gap(n, h, s)) = s
    BY <2>3, Around
  <2>6. \A d \in 0 .. Gap(n, h, s) : Step(n, h, d) # victim
    <3>1. SUFFICES ASSUME NEW d \in 0 .. Gap(n, h, s), Step(n, h, d) = victim
                   PROVE  FALSE
      OBVIOUS
    <3>2. d # Gap(n, h, s)  BY <2>1, <2>5, <3>1
    <3>3. d + 1 \in 0 .. Gap(n, h, s)  BY <2>5, <3>2
    <3>4. Step(n, h, d + 1) = Step(n, victim, 1)
      BY <2>3, <2>5, <3>1, <3>3 DEF Step
    <3> QED  BY <2>3, <3>3, <3>4, TableSize
  <2>7. \A d \in 0 .. Gap(n, h, s) : Step(n, h, d) \in UsedSlots(taken)
    BY <1>5, <2>3, <2>6
  <2> QED  BY <1>3, <2>1, <2>4, <2>7, ReachableSteps
<1>7. ASSUME NEW s \in UsedSlots(taken), NEW other \in UsedSlots(taken),
             taken[s].key = taken[other].key
      PROVE  s = other
  <2>1. \A t, u \in UsedSlots(table) : table[t].key = table[u].key => t = u
    BY DEF IsProbeTable
  <2>2. s \in 0 .. n - 1 /\ other \in 0 .. n - 1  BY <1>3, TableSize
  <2> QED  BY <1>3, <1>5, <1>7, <2>1, <2>2
<1>8. IsProbeTable(taken)
  <2>1. UsedSlots(taken) \subseteq 0 .. n - 1  BY <1>3, TableSize
  <2> QED  BY <1>6, <1>7, <2>1 DEF IsProbeTable
<1> QED  BY <1>3, <1>5, <1>8 DEF taken


(***************************************************************************)
(* What a lookup relies on depends on the keys in the used slots only.     *)
(***************************************************************************)
LEMMA SameKeysKeep ==
  ASSUME NEW n \in Nat \ {0}, NEW table \in Table(n), NEW other \in Table(n),
         IsProbeTable(table), UsedSlots(other) = UsedSlots(table),
         \A s \in UsedSlots(table) : other[s].key = table[s].key
  PROVE  IsProbeTable(other)
<1>1. UsedSlots(table) \subseteq 0 .. n - 1  BY TableSize
<1>2. ASSUME NEW s \in 0 .. n - 1, s \in UsedSlots(other) PROVE Reachable(other, s)
  <2>1. other[s].key = table[s].key /\ table[s].key \in Key  BY <1>2 DEF Table, Entry
  <2> DEFINE h == HomeSlot(table, table[s].key)
  <2>2. HomeSlot(other, other[s].key) = h  BY <2>1, HomeInTable
  <2>3. \A d \in 0 .. Gap(n, h, s) : Step(n, h, d) \in UsedSlots(table)
    BY <1>2, ReachableSteps DEF IsProbeTable
  <2> HIDE DEF h
  <2> QED  BY <2>2, <2>3, ReachableSteps
<1>3. \A s, t \in UsedSlots(other) : other[s].key = other[t].key => s = t
  BY DEF IsProbeTable
<1> QED  BY <1>1, <1>2, <1>3 DEF IsProbeTable

(***************************************************************************)
(* An empty table has every slot free.                                     *)
(***************************************************************************)
LEMMA EmptyTableIsProbeTable ==
  ASSUME NEW n \in Nat \ {0}
  PROVE  /\ EmptyTable(n) \in Table(n)
         /\ UsedSlots(EmptyTable(n)) = {}
         /\ IsProbeTable(EmptyTable(n))
<1>1. FreeEntry \in Entry /\ FreeEntry.ptr = EMPTY_PTR
  BY ProbingAssumption DEF FreeEntry, Entry, Ptr
<1>2. EmptyTable(n) \in Table(n)  BY <1>1 DEF EmptyTable, Table
<1>3. UsedSlots(EmptyTable(n)) = {}
  BY <1>1 DEF EmptyTable, UsedSlots, FreeSlots
<1> QED  BY <1>2, <1>3 DEF IsProbeTable
=============================================================================
