# KVS-Cash-Machine in TLA+

Specifications of the key-value store KVS-Cash-Machine: TLA+ modules
translated from its C++ sources, TLC configurations that check them on small
instances, and theorems about them that TLAPS checks for every instance.

Paths are relative to the root of the repository (`src/KVS.cpp`,
`include/KVS.h`, ...).

## 1. The system

The store is a single-threaded library. A client calls `add`, `get` and
`remove` on one `KVS` object. The object starts on empty files each time it is
constructed, so nothing survives a restart, and there is no concurrency. What
makes it hard is that the truth about a key is spread over four places that a
single call updates one after the other: the cache, the index file, the values
file and the counter of a shard. Any of the file operations in between may
throw, and nothing in the store catches or undoes anything.

| component | state | operations | used by |
|---|---|---|---|
| `KVS` | the vector of shards, the cache | `add`, `get`, `remove`, `pushOperation`, `rebuildShard`, `clear` (throws "not implemented") | clients |
| `CacheMap` | open-addressing table of `(key, Ptr)`, number of used slots | `putOrDisplace`, `get` (returns `Ptr&`), `clear` | `KVS`, `ShardBuilder` (reads) |
| `Shard` | `aliveValuesCnt` (one byte), Bloom filter, the paths of its two files | `readValue`, `writeValue`, `removeEntry`, `pushRemoveEntry`, `readValueDirectly`, `writeValueDirectly`, `incrementAliveValuesCnt`, `decrementAliveValuesCnt`, `isRebuildRequired` | `KVS` |
| `ShardBuilder` | none | `createShard`, `rebuildShard` | `KVS` |
| `StorageHashTable` | open-addressing table, stored in the index file | `put`, `get`, `getEntries`, `expand`, serialization | `Shard`, `ShardBuilder` |
| `BloomFilter` | seeds drawn at construction, bits | `add`, `checkExist` | `Shard` |
| `Storage` | an open stream, the size of its file | constructor, `read`, `write`, `append`, `close`; the functions `readFile`, `writeFile` | `Shard`, `ShardBuilder` |
| `Key`, `Value`, `Ptr`, `Entry` | values; `Ptr` packs a presence bit and an index into a byte | conversions | all |
| `ByteArray`, `KVSException`, XXH3, benchmark, tests | – | – | see section 9 |

Interactions.

* `add`, `get` and `remove` look the key up in the cache. `PRESENT` means that
  the cached pointer leads to the record; `DELETED` that the key was removed
  lazily (the index still says present); `NONEXISTENT` that it is known to be
  absent; `EMPTY_PTR` that the cache knows nothing.
* What the cache does not know goes through the shard (filter, then index,
  then values file), and its result is put into the cache, absence included.
* A full cache gives up an entry of its own choice. `pushOperation` writes a
  lazy removal down in the index of its shard, and rebuilds that shard if more
  than half of its records are dead.
* A rebuild copies the living records to new files, judging by the cache first
  and by the index second. It returns the cache entries that have to be
  overwritten, and `KVS` puts them into the cache.
* A shard reads its whole index file, changes one entry and writes the whole
  file again; the values file it opens, reads or extends in place, and closes.

Hard behaviours, and the properties that make each component correct:

| component | what can go wrong | property |
|---|---|---|
| `KVS` | a removed key comes back, an added one is lost or read from another key's record | `ImplementsMap`, `CacheCoherent` |
| `KVS` | the counter drifts, as removals are counted when cached in one case and when written in another | `AliveCountExact` |
| `KVS` | the chain put – displace – push – rebuild – install goes on for ever | `CallAdvances`, `CallReturns` |
| `Shard` | two keys share a record, a record is unreachable, the index leaves the file | `RecordsExact` |
| `Shard`, `BloomFilter` | the filter hides a key of the index | `FilterComplete` |
| `Shard`, `StorageHashTable`, `Ptr` | a record index collides with a reserved pointer value | `PtrIndexInBounds` |
| `ShardBuilder` | dead records are kept, living ones dropped, the shard is due for a rebuild again | `RebuildCompacts`, `RecordsExact` |
| `KVS`, `Shard`, `ShardBuilder` | a file operation throws between two updates, and the client goes on | `RecordsOwned`, `OwnValues`, `CachedPtrsCurrent`, `AnsweredCallsLast`, `RebuildRepairs` |
| `CacheMap` | displacing an entry cuts a probe sequence, an entry vanishes, a probe runs for ever | `ProbeChainsIntact`, `LostEntriesAreReturned`, `ProbesEnd`, `ImplementsCacheTable` |
| `StorageHashTable` | expansion, which recurses through `put`, loses or moves entries; a byte is read back as another pointer | `ImplementsIndexTable`, `TableSound` |
| `StorageHashTable` | a cut index file is accepted and lies | `TornIndexNeverLies` |
| `Storage` | bytes land elsewhere than reported, the cached size is wrong | `ReportsTrue`, `FileSizeExact` |

The full list, each with its line, is `hazards` in `PROJECT.json`.

## 2. Modules

```
KeyValueTypes                 keys, values, Ptr, Entry
  BloomFilter                 a filter as seeds and bits
    Shard                     index, values file, counter and filter of every shard
      ShardBuilder  --------- CacheTable   (abstract: the cache as a bounded map)
        KVS                   the calls, part by part
          KVSCorrectness      properties    --------- KVSMap  (abstract: the map)
            KVSFaults         the same calls when file operations fail
            MCKVS, MCRebuild, MCFaults (extends KVSFaults)
  Probing                     linear probing, as both hash tables do it
    CacheMap                  the slots of the cache        refines CacheTable
      MCCacheMap
    StorageHashTable          the slots and the file of an index   refines IndexTable
      MCStorageHashTable
  PtrByte                     the byte of a Ptr  (used by StorageHashTable)
Storage                       one file, byte by byte, behind a stream
  MCStorage
ShardProofs     (extends ShardBuilder)                 lemmas about the shard operations
  KVSProofs     (extends KVSCorrectness, ShardProofs)  theorems about the store
    KVSMapProofs  (extends KVSProofs)                  the store is a map, its counters count
    FaultsProofs  (extends KVSFaults, KVSProofs)       theorems about failing files
ProbingProofs   (extends Probing)                      lemmas about linear probing
  CacheMapProofs  (extends CacheMap, ProbingProofs)    theorems about the cache
  StorageHashTableProofs (extends StorageHashTable, ProbingProofs)
                                                       theorems about the index and the byte of a Ptr
StorageProofs   (extends Storage)                      theorems about one file
```

The layers meet in the abstract specifications. `KVS` uses the cache through
the operators of `CacheTable`, and `CacheMap` is shown to implement
`CacheTable!CacheSpec`. `Shard` uses an index as a map that overflows at a
certain number of keys; `IndexTable` is that map for one shard, and
`StorageHashTable` is shown to implement it. `Shard` uses a values file as a
sequence of records; that overwriting one leaves the others and that an append
lies at the offset it returned is `ReportsTrue` of `Storage`.

How the state corresponds to the code:

| variable | code |
|---|---|
| `cacheMap[key]` | the `Ptr` that `CacheMap::get(key)` finds |
| `storageHashTable[key]` | the `Ptr` that the index file of the key's shard holds |
| `valuesFile[shard]` | the values file, as a sequence of `VALUE_SIZE` records; index *i* is element *i* + 1 |
| `aliveValuesCnt[shard]`, `filter[shard]` | the members of `Shard` |
| `pc`, `entry`, `displaced`, `target`, `newEntries` | the place a call has reached, and its local variables that are alive there |
| `result` | what the last call returned; `{}` is `std::nullopt` or `void` |
| `failure` | why the process died: `noexcept` violated by `SHARD_OVERFLOW`, or an assert |
| `CacheMap`: `data`, `usedSize` | the members of that name; `displaced` is what the last `putOrDisplace` returned |
| `StorageHashTable`: `data`, `usedSize`, `length` | the table that was written last, and how many bytes of it are in the file |
| `Storage`: `disk`, `stream`, `content`, `fileSize` | the file, the error state of the `fstream`, the file as the stream sees it with its buffer, the member `fileSize`; `reported` is a history of what the client was told |
| `KVSFaults`: `lostIndex`, `ragged` | the shards whose index file is cut short; whose values file ends in part of a record |
| `KVSFaults`: `torn`, `told`, `failures` | histories: a rebuild failed after a rename; what the client was told of a key; a bound |

and the actions:

| action | code |
|---|---|
| `AddCached`, `AddDeleted`, `AddMissing`, `AddOverflows` | the cases of the switch in `KVS::add` |
| `GetCached`, `GetAbsent`, `GetMissing` | of `KVS::get` |
| `RemoveCached`, `RemoveAbsent`, `RemoveMissing` | of `KVS::remove` |
| `PutEntry` | `cacheMap.putOrDisplace` at the end of a call that missed |
| `PushOperation` | `KVS::pushOperation` up to the rebuild it may start |
| `RebuildShard`, `RebuildAborts` | `ShardBuilder::rebuildShard` and the `shards[i] = ...` around it, and its assert |
| `InstallEntry`, `InstallAborts` | one turn of the loop of `KVS::rebuildShard`, and its assert |
| `Halted` | the process is dead |
| `...Works`, `...Fails` (`KVSFaults`) | the same parts with working files, and stopped by an exception between two of their effects |
| `PutOrDisplace`, `Mark`, `Clear` (`CacheMap`) | `putOrDisplace`, `setValuePresent` through the `Ptr&` of `get`, `clear` |
| `Put`, `Overflow`, `Mark`, `Renew` (`StorageHashTable`) | read the file, `put` or change a `Ptr` through `get`, write the file; a new table |
| `ReadFile`, `WriteFile`, `Open`, `OpenFails`, `Read`, `Write`, `AppendBytes`, `Close`, `Destroy` (`Storage`) | the two functions, the constructor, the methods and the destructor |

A call is split where the code passes from one component to the next. Nothing
else happens between two parts: the split only lets the invariants be checked
there, and gives `KVSFaults` its points of failure.

What is left open on purpose: which entry a full cache gives up (in `KVS`: any;
in `CacheMap`: the end of a cluster, for any random number), the order in which
`getEntries` lists keys (in `KVS`: any; in `StorageHashTable`: that of the
slots), and the seeds of a new filter. What hash functions return is a
constant.

One branch of the code is never taken: `pushRemoveEntry` tests whether the key
is present in the index, and by `CacheCoherent` and `FilterComplete` it always
is. The branch is modelled, as the second disjunct of `PushRemoveEntry`.

Values are records of `VALUE_SIZE` bytes; the code does not check their length,
and every caller in the repository passes that length.

The old and the new values file of a shard exist side by side during a rebuild,
and are renamed at its end. As long as no file operation fails nobody can see
that, so `BuildShard` is one step; `KVSFaults` has the states in between that
outlive the call. When an assert kills the process in the middle of a rebuild,
the temporary `:rebuilt` files remain; the next process starts on new files, so
they are not modelled.

## 3. The asserts

`assert` is active in the default build (`CMakeLists.txt` does not define
`NDEBUG`), and it is compiled out in a release build. `AssertsEnabled` says
which program is meant. Two asserts can fail without any fault (section 6); with
`AssertsEnabled = TRUE` the process dies there, with `FALSE` it goes on and does
what the code does then. All other asserts on the modelled paths hold:
`AssertsHold`, `RebuildCompacts`, `PtrIndexInBounds` and `ProbesEnd` state the
ones that are not obvious.

## 4. When files fail

`KVSFaults` lets every file operation of a call throw. The call stops between
two of its effects, in the order of the code; the cache, the `Shard` object and
the files keep what was done before; the client may go on with the same store.
What a failing operation leaves of a file is what `Storage` and
`StorageHashTable` say: an index that is as it was, cut short or written in
full; a values file with nothing, a part of a record or all of it added; a
record with its old or its new value.

What survives: no key reads another key's value (`OwnValues`), no two keys
share a record (`RecordsOwned`), cached pointers stay current
(`CachedPtrsCurrent`), the filter hides nothing (`FilterComplete`), and a
rebuild that succeeds sets the record count and the counter right
(`RebuildRepairs`). `AnsweredCallsLast` says that what was answered stays true
for every key that no failed call had in hand: calls for such a key may throw,
because another key's failure has lost the index, but they are not answered
wrongly. It has two exceptions, which are defects of the code (section 6): the
lazy removal that is forgotten when its push fails, and the `remove` answered
from a stale `NONEXISTENT` in the cache.

Taken out: an index that was cut short is taken for one that is rejected when
it is read (`TornIndexNeverLies` says what one that is accepted answers; what
is written through it is not followed). Once a rebuild has failed after a
rename (`torn`), the properties say nothing of that shard any more, only of the
others; the wreck itself is modelled, and what it does is in section 6.

## 5. Passing runs

| run | asks | bounds |
|---|---|---|
| `kvs_small` | is the store a map, is the bookkeeping exact, does a rebuild compact, does every call end | 3 keys in one shard, 1 in another, 2 values, cache of 4 slots, asserts on |
| `kvs_ndebug` | what is left without asserts; does every part of a call bring it nearer to its end; does the filter hide a key; does the index overflow before the pointers do | 4 + 1 keys, an index of 5 slots (3 keys), pointers for 3 records, 2 seeds over 2 bits with a new seed at every rebuild, asserts off |
| `kvs_rebuild` | do a rebuild's pointers and records match, whatever the order | 5 keys in one shard, 2 values |
| `kvs_faults` | what do failures leave intact | 3 keys in one shard, a value of its own for each, cache of 2 slots, index for 2 keys, pointers for 3 records, 3 failures |
| `cache_map` | is the table of slots the bounded map | 6 keys that collide, 7 slots |
| `index_table` | is the table in its file the map; what does a cut file say | 5 keys that collide, 3 slots expanding to 6, every length of the file |
| `storage_bytes` | are reports true, is the size exact | arrays of 0 to 2 bytes, files of up to 4, any offset, a failing device |

Why these bounds are enough.

* `putOrDisplace` displaces when `3 * used > 2 * size`, so with
  `CACHE_MAP_SIZE = 4` the cache holds 3 keys and displaces one for the fourth;
  with 2 it holds two and displaces for the third. The size is a parameter of the abstract
  `CacheTable` here; the slots of a real table that small do not always end a
  probe (section 6), and `cache_map` therefore has 7, the least number for
  which they do. Its homes are chosen so that clusters collide, run into each
  other and wrap round the end, and the sixth key is one that is new to a full
  table.
* A shard is due for a rebuild when more than half of its records are dead, so
  that it takes three keys to have a record that is copied, and five to have
  two whose order is free. With 3 + 1 keys the displaced key is of the same
  shard as the key of the call, or of another one. `kvs_rebuild` has five keys
  in one shard; as they all hash alike, keys and values are symmetric there. In
  `kvs_faults` keys are symmetric together with their values.
* Two values tell a stale value from the last one written. Properties that do
  not read values use one.
* An index of 6 slots holds 4 keys, one of 8 slots holds 5, so that no index
  overflows where overflow is not the question. In the source it is 68 (45
  keys), and a `Ptr` reaches 121 records. `PtrRangeAssumption` is the relation
  between the two that the code relies on; each instance satisfies it, and
  `kvs_ndebug` does with nothing to spare. In `kvs_faults` the records that
  failed adds leave behind use up the pointers.
* `index_table` has pointers to the last record of the source (index 120,
  `VALUE_SIZE = 2048`), so that their bytes are next to the reserved values.
  `SIZE_T_MAX = 65535` stands for 2^64 - 1: the lengths are small, and both 2^16
  and 2^64 are 1 modulo the 17 bytes of an entry, so the wrapped length of a
  file shorter than its counter is accepted or rejected alike. The theorems
  hold for every greatest `size_t` that can say how long the file is. The first
  eight bytes of a key, read as a counter, are 0 or too large for any table.
* Three failures are one more than it takes for a failure to hit what an
  earlier one has left, such as the removal of a key whose add has failed.
* The only state constraint is `NotWrapped`, in `kvs_ndebug`: without asserts a
  dropped removal makes `aliveValuesCnt` drift, step by step, round the whole
  byte. The run follows the drift until the byte wraps. The theorems of section
  7 hold without this bound.
* `index_table` turns off the deadlock check: the process may have died. `Next`
  of `Storage` leaves out one call, a write of no bytes behind the end of the
  file (section 6).

Three refinements are checked. `ImplementsMap`: `KVSMap` has a map `store` and a
`result`, and `Store` computes the map from the pointer that decides about each
key at that moment (an entry about to be stored, one just displaced, the cached
one, else the index). Each call is one step of the map, in its first part, and
every later part is a stutter. `ImplementsCacheTable`: what a key is mapped to
is what `get` finds. `ImplementsIndexTable`: likewise, in the table that was
written last.

Fairness: `WF_vars(Continue)` in `KVS`. A call in progress is a thread in the
middle of a function, and it executes its next part. No fairness is assumed of
`Call`: clients may stop. The liveness property `CallReturns` needs no more
than that. The other modules have safety properties only: their operations
are single steps.

## 6. Where code and documentation disagree

Five are runs that TLC must find violated; quotes are in `PROJECT.json`.

| run | what happens |
|---|---|
| `claim_sync_deleted` | `src/ShardBuilder.cpp:55` asserts that an index entry whose removal has been written down is `NONEXISTENT`. It is `DELETED`. Removing an uncached key and then rebuilding its shard while the key is still cached kills the process. |
| `claim_displaces_nothing` | `src/KVS.cpp:178` asserts that overwriting a cached entry displaces nothing. `putOrDisplace` looks at the load factor before it looks for the key, so a full cache displaces one. In a release build the entry is dropped; if it was a lazy removal, the key is back. |
| `claim_no_overdue` | `include/KVS.h:33` promises a rebuild after a removal if necessary. A removal that misses the cache examines no shard but that of the displaced key. |
| `claim_overflow_throws` | `include/StorageHashTable.h:66` promises a `KVSException` when an index would have to expand a second time. It is thrown in a `noexcept` function: the process terminates. |
| `claim_storage_throws` | `include/Storage.h:31` promises an exception for every operation that fails. After a read across the end of the file the stream ignores writes and appends, which return as if they had been done. |

Others were met while modelling. The models contain them; no run of their own
is spent on them.

* `include/ShardBuilder.h:32` says that removed entries are returned with
  `EMPTY_PTR`; `src/ShardBuilder.cpp:51` returns `NONEXISTENT`
  (`UpdatedEntries`).
* `src/CacheMap.cpp:95`: when the home slot of an absent key is the only free
  one, `get` runs round into its own assert. This takes a table of fewer than
  seven slots, such as the one of five in `test/TestCacheMap.cpp`; with the
  5000 of the store there is always a second one (`ProbesEnd`).
* `src/StorageHashTable.cpp:12`: the constructor, which is documented to reject
  corrupted data, accepts every file of 8 + 17 *n* bytes, reads the counter of
  a cut one from a key, and for seven bytes asks for an impossible vector
  (`IsAccepted`, `ReadUsedSize`, `IsTooLong`).
* `src/Storage.cpp:54`: for a missing file the constructor throws a
  `filesystem_error`, not the documented `KVSException` (`OpenFails`).
* `src/Storage.cpp:88`: a write of no bytes behind the end, which the
  documentation allows, raises `fileSize` but not the file; the next `append`
  returns an offset at which its bytes are not.
* `src/KVS.cpp:22`: a displaced lazy removal whose push fails is in no place
  any more, and the key comes back (`Forgotten`).
* `src/Shard.cpp:64` and `95`: a failed index write leaves the counter changed
  for an add or a removal that did not happen; a client that tries again counts
  twice. Only the next rebuild sets it right.
* An `add` fails after its index write has reached the disk, while the key is
  cached as `NONEXISTENT`. A following `remove` is answered from the cache and
  changes nothing; when the cache forgets the key, it is there
  (`RemoveAbsent` in `KVSFaults`).
* `src/KeyValueTypes.cpp:57`: records that failed adds have left behind can
  exhaust the pointers before the index overflows. An assert kills the process;
  the error of `src/KVSException.cpp:21` for this case is never thrown
  (`PtrAborts`).
* `src/ShardBuilder.cpp:82`: when the second rename fails, the old index points
  into the new values file, and keys read the values of others. The assert
  after it, which examines the new file, may throw as well (`RebuildFailsTorn`).

## 7. What is proved

Thirty-five theorems, each for every value of the constants that its assumptions
allow. The assumptions are the named `ASSUME`s of the modules:
`MaxPtrIndexAssumption`, `BloomFilterAssumption`, `CacheMapSizeAssumption`,
`CacheMapAssumption`, `ShardAssumption` (keys are finite in number, each belongs
to a shard), `PtrRangeAssumption`, `AssertsEnabledAssumption`,
`ValueSizeAssumption`, `ProbingAssumption`, `StorageHashTableAssumption` (a
table has a slot, expanding doubles it, a `size_t` can say how long the file is),
and those of `KVSFaults` and `Storage` about their
bounds. TLC evaluates them in every run. A theorem that needs more says so in
its statement, and below it is said why.

### The store (`KVSProofs`, `ShardProofs`)

For every finite set of keys, every set of values and shards, every size of
cache, index and filter, every hash function, and with asserts on or off:

| theorem | states |
|---|---|
| `TypeCorrect` | `Spec => []TypeOK` |
| `CacheIsCoherent` | `Spec => []CacheCoherent` |
| `RecordsAreExact` | `Spec => []RecordsExact` |
| `FilterIsComplete` | `Spec => []FilterComplete` |
| `PtrIndicesInBounds` | `Spec => []PtrIndexInBounds` |
| `AssertsAlwaysHold` | `Spec => []AssertsHold` |
| `EveryPartAdvances` | `Spec => CallAdvances` |

The first six follow from one inductive invariant, `IInv` (theorem
`Invariance`).

* `ShardInv` (in `ShardProofs`) is preserved by each operation of a shard on
  its own. It adds `IndexBounded` to `RecordsExact` and `FilterComplete`: a
  values file has exactly one record per key of its index, and the index has
  not overflowed. This is why an appended record gets an index that no other
  key has and that fits a `Ptr`. The rebuild is the step that needs it most:
  `RebuiltPtrProperties` shows that the copied keys are numbered without gaps
  within the bounds of a `Ptr`, whatever order `getEntries` lists them in.
* `PhaseInv` says which local variables are in use at which point, and what
  the call has found out by then: an entry is put for a key that is not cached
  as a value, and a displaced lazy removal is no longer cached. Without the
  second fact `pushOperation` could mark a key deleted that the cache holds as
  present.
* `CacheInv` says that cached pointers, entries on their way in and entries
  pushed out agree with the index. `CacheCoherent` speaks of the pointer that
  decides about a key; the invariant needs the agreement of all of them,
  because the next step may make another one decide.

The proof that `Next` preserves `IInv` has one lemma per action; four lemmas
about the ways a part ends (`Return`, `ThenPut`, `ThenRebuildIfRequired`,
`Die`) carry what the actions have in common.

`EveryPartAdvances` is the part of termination that is a safety property: the
number `PartsLeft` falls with every part of a call, so that a call has at most
`Cardinality(Key) + 4` of them. The put may displace, the push may rebuild, and
the rebuild may update the cache once for every key, but the update starts
nothing new. It needs `InstallHasEntries`, an invariant of its own: no update is
under way once there is nothing left to update.

### The store is a map (`KVSMapProofs`)

| theorem | states |
|---|---|
| `StoreIsAMap` | `AssertsEnabled => (Spec => ImplementsMap)` |
| `AliveCountIsExact` | `AssertsEnabled => (Spec => []AliveCountExact)` |
| `RebuildsCompact` | `AssertsEnabled => (Spec => RebuildCompacts)` |

The hypothesis is what the code needs: without asserts an `InstallEntry` that
displaces an entry drops it, and a dropped lazy removal brings its key back
(`claim_displaces_nothing`), so that none of the three holds.

`IInv` is enough as an invariant. `AliveFacts` follows from it: a key is alive
just when the index says present and nothing that decides about the key says
deleted, and its value is the record the *index* points to, whoever is asked.
So a step is understood from what it does to the index, to the records and to
the question who decides; each action has a lemma that says which bindings it
changes (`Binds`, `Unbinds`, `Keeps`). `StoreIsAMap` maps every step to a step
of `KVSMap` or a stutter. `AliveCountIsExact` adds that each of them counts
what it binds and unbinds, and that at most 126 keys fit a shard, so that the
byte does not wrap.

### When files fail (`FaultsProofs`)

| theorem | states |
|---|---|
| `FaultsTypeCorrect` | `FaultsSpec => []FaultsTypeOK` |
| `RecordsStayOwned` | `FaultsSpec => []RecordsOwned` |
| `FilterStaysComplete` | `FaultsSpec => []FilterComplete` |
| `CachedPtrsStayCurrent` | `FaultsSpec => []CachedPtrsCurrent` |
| `ValuesStayWithTheirKeys` | `FaultsSpec => []OwnValues` |
| `AnsweredCallsStay` | `AssertsEnabled => (FaultsSpec => []AnsweredCallsLast)` |
| `RebuildMakesGood` | `FaultsSpec => RebuildRepairs` |

The bound `MAX_FAILURES` is any number here. The inductive invariant
`FaultsInv` (theorem `FaultsInvariance`) has to do without `RecordsExact` and
the counters, which failures spoil:

* `RecordsInv`: in a shard that is not torn, no two keys of the index share a
  record, and the record of a key holds a value of this very key
  (`RecordsOfOwner`). `OwnValues` speaks of the pointer that decides, but a
  rebuild copies what the index points to. `IndexWithinBounds` and
  `IndexHoldsValues` are stated of torn shards as well, for these are rebuilt
  like the others, and their records must get pointers that exist.
* `CachedInv`: every pointer to a value, in the cache or on its way in or out,
  is the one of the index (`Agrees`). Of a cached `NONEXISTENT` nothing is
  said: a failed add may have written the index under it. This is where
  `CacheCoherent` is lost, and with it the map.
* `AnsweredCallsLast` is part of the invariant only with asserts on; the rest
  does not depend on it, so that six of the seven theorems hold for both
  builds.
* `RebuildHasTarget` and `PhaseInv`: which local variables are in use.

A lemma per action again, and one per way a part may end, of which there is one
more: an exception (`EndThrow`).

### The cache (`CacheMapProofs`, `ProbingProofs`)

| theorem | states |
|---|---|
| `CacheMapTypeCorrect` | `NeverFillsUp => (Spec => []TypeOK)` |
| `ProbeChainsStayIntact` | `NeverFillsUp => (Spec => []ProbeChainsIntact)` |
| `UsedSizeStaysExact` | `NeverFillsUp => (Spec => []UsedSizeExact)` |
| `CacheMapIsBoundedMap` | `NeverFillsUp => (Spec => ImplementsCacheTable)` |
| `NoEntryIsLost` | `NeverFillsUp => (Spec => LostEntriesAreReturned)` |
| `EveryProbeEnds` | `CACHE_MAP_SIZE >= 7 => (Spec => []ProbesEnd)` |

`NeverFillsUp` is `CACHE_MAP_SIZE >= 4`; in the source the size is 5000. A
table of three slots or fewer can fill up, and one of fewer than seven can be
left with a single free slot, which `get` may take for its starting slot
(section 6).

The invariant adds `LoadBounded` to the three properties: one entry more than
the load factor allows is stored, and no second, because `putOrDisplace` looks
at the load before it stores. This keeps a slot free, and with it every cluster
has an end, which is what `putOrDisplace` gives up. `ProbingProofs` is about
tables of any size and any hash function: a search finds the slot of a key that
is stored with an intact chain, and otherwise the first free slot behind its
home; storing there, and freeing the last slot of a cluster, cut no chain.
Slots are told apart by their distance from a home; `StepIsModulo` takes the
modulo out of that once and for all.

### One file (`StorageProofs`)

| theorem | states |
|---|---|
| `StorageTypeCorrect` | `Spec => []TypeOK` |
| `ClientIsToldTheTruth` | `Spec => []ReportsTrue` |
| `CountedSizeIsExact` | `Spec => []FileSizeExact` |

`ReportsTrue` needs `FileSizeExact`, because `append` reports the place of its
bytes from `fileSize`; it also needs that there is at most one file
(`AtMostOneFile`) and that a client to whom the last operation threw relies on
nothing (`NothingHeld`), because the destructor drops what it cannot flush.

### The index (`StorageHashTableProofs`)

For every set of keys, every hash function and every initial size of a table:

| theorem | states |
|---|---|
| `IndexTypeCorrect` | `Spec => []TypeOK` |
| `IndexStaysSound` | `Spec => []TableSound` |
| `TornIndexForgetsOnly` | `Spec => []TornIndexNeverLies` |
| `IndexIsAMap` | `Spec => ImplementsIndexTable` |

`TableSound` says that every chain is intact and that the counter says how many
slots are used. `IInv` adds two facts. The table is not over its load factor:
`put` expands or throws before it returns one that is, and this is what leaves
the next `put` a free slot. And every pointer in the table is one whose byte
gives it back, so that what an operation reads from the file is what the last
one wrote (`ReadBack`); without it nothing carries over from one operation to
the next. The same fact about the bytes gives `TornIndexForgetsOnly`: in a cut
file every home slot is another one and chains are broken, but a slot that is
still there is read as it was written, and a lookup that finds a key reads the
only slot the key has.

The hard step is an expansion, which lists the entries of the old table and
puts each into a new one. `getEntries` lists each entry once, because the rank
of a used slot among the used slots is a bijection (`RanksAreBijective`).
`Refill`, the loop of `put`s, is a recursive function. Both that the recursion
defines one (`RefillExists`) and that after turn *i* the table holds just the
first *i* entries (`RefillHolds`) is shown by a least counterexample, which
`NearestIsLeast` of `ProbingProofs` provides. No `put` of the loop expands
again: at most the entries of a table of *n* slots go into one of 2*n*. So an
index that overflows is one that has expanded before.

`IndexIsAMap` also has to show that the table overflows at the same put as
`IndexTable`, which counts keys and knows of no slots; `KeysAreCounted` relates
the two numbers.

The first part of the module is about the byte of a `Ptr`. For every greatest
index up to 125 and every `VALUE_SIZE`, it means what `KeyValueTypes` says of
the pointer: `RawRoundTrip` (written to a file and read back),
`MarkingKeepsIndex` (the flag never turns a pointer to a value into a reserved
one) and `OffsetRoundTrip` (an offset becomes an index and an offset again).
The proofs split on the flag.

### Only model-checked

* `CallReturns`. Liveness rests on fairness, hence on `ENABLED`, which is beyond
  the prover. What is proved of it is `EveryPartAdvances`; what is left to TLC
  is that a call in progress always has a next part and that fairness takes it.
* The claims of section 6, which are violated.

Every other property of a passing run is stated by a theorem.

## 8. Plan

Done: the store, its shards and both builds; failing files; both hash tables
down to their slots, the index down to its bytes; files and streams; the byte
of a pointer. Proved: every invariant and every action property that the runs
check, and the three refinements. Left: following what is written through a cut
index that the constructor accepts, which today ends with what it answers.

## 9. Not modelled

* `ByteArray`: a buffer of fixed length that is copied with its contents,
  without behaviour of its own; a sequence of bytes in `Storage`.
* `KVSException`: which operation throws it is modelled, its codes and texts
  are not told apart.
* XXH3: a git submodule outside the repository; its results are constants.
* The benchmark and the tests. The tests were read for what they expect.
  `include/doctest.h`, a vendored test framework, is more than three quarters
  of the lines of the repository.
* `KVS::clear`, which only throws.
* The contents of keys and values beyond equality, and the paths of the files.
* What is written through a cut index that is accepted.
