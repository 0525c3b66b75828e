--------------------------- MODULE KVSCorrectness ---------------------------
(***************************************************************************)
(* What is claimed of the key-value store KVS.                             *)
(***************************************************************************)
EXTENDS KVS

(***************************************************************************)
(* The pointer that decides about a key at any moment of a call: an entry  *)
(* that a rebuild or the tail of the call is about to store, else an entry *)
(* that the cache has just given up, else what the cache holds.            *)
(***************************************************************************)
CurrentPtr(key) ==
  LET incoming == {e \in entry : e.key = key}
      outgoing == {d \in displaced : d.key = key /\ cacheMap[key] = EMPTY_PTR}
  IN IF newEntries[key] # EMPTY_PTR THEN newEntries[key]
     ELSE IF incoming # {} THEN (CHOOSE e \in incoming : TRUE).ptr
     ELSE IF outgoing # {} THEN (CHOOSE d \in outgoing : TRUE).ptr
     ELSE cacheMap[key]

(***************************************************************************)
(* Where that says nothing, the index of the shard decides.                *)
(***************************************************************************)
EffectivePtr(key) ==
  IF CurrentPtr(key) = EMPTY_PTR THEN storageHashTable[key] ELSE CurrentPtr(key)

IsAlive(key) == EffectivePtr(key).type = "PRESENT"

Store ==
  [key \in Key |->
     IF IsAlive(key) THEN {ReadValueDirectly(key, EffectivePtr(key))} ELSE {}]

(***************************************************************************)
(* The store is a map: every get returns what the last add of the key      *)
(* wrote and nothing after a remove, whatever is cached, displaced, pushed *)
(* or rebuilt in between.  (KVS::add, get, remove.)                        *)
(***************************************************************************)
Map == INSTANCE KVSMap WITH store <- Store

ImplementsMap == Map!Spec

(***************************************************************************)
(* The cache and the index agree: a cached pointer to a value, even a      *)
(* lazily removed one, is the pointer the index holds as present; a key    *)
(* cached as nonexistent is not present in the index.  (The switches of    *)
(* KVS::add, get and remove, and the entries a rebuild returns.)           *)
(***************************************************************************)
CacheCoherent ==
  \A key \in Key :
    /\ PointsToValue(CurrentPtr(key)) =>
         storageHashTable[key] = PtrTo(CurrentPtr(key).index, TRUE)
    /\ CurrentPtr(key) = NONEXISTENT => storageHashTable[key].type # "PRESENT"

(***************************************************************************)
(* aliveValuesCnt counts the keys that are bound to a value, although some *)
(* removals are counted when they are cached and others when they are      *)
(* written, and a removal that is pushed later is not counted twice.       *)
(***************************************************************************)
AliveCountExact ==
  \A shard \in ShardIndex :
    aliveValuesCnt[shard] = Cardinality({key \in KeysOf(shard) : IsAlive(key)})

(***************************************************************************)
(* The assertions the program relies on and that do hold, each at its      *)
(* place: pushOperation is given no EMPTY_PTR, a rebuild starts only when  *)
(* it is required and finds a cached present key present in the index.     *)
(***************************************************************************)
AssertsHold ==
  /\ pc = "push" => \A d \in displaced : d.ptr # EMPTY_PTR
  /\ pc = "rebuild" =>
       \A shard \in target :
         /\ IsRebuildRequired(shard)
         /\ \A key \in IndexedKeys(shard) :
              cacheMap[key].type = "PRESENT"
                => storageHashTable[key].type = "PRESENT"

(***************************************************************************)
(* A rebuild leaves no dead record, does not need to be repeated (the last *)
(* assert of rebuildShard), and touches no other shard.                    *)
(***************************************************************************)
RebuildCompacts ==
  [][\A shard \in target :
       pc = "rebuild" /\ pc' # "halted" =>
         /\ Len(valuesFile'[shard]) = aliveValuesCnt'[shard]
         /\ aliveValuesCnt'[shard] = aliveValuesCnt[shard]
         /\ ~IsRebuildRequired(shard)'
         /\ \A other \in ShardIndex \ {shard} :
              valuesFile'[other] = valuesFile[other]]_vars

(***************************************************************************)
(* Every part of a call brings it nearer to its end, with asserts or       *)
(* without: a put may lead to a push, a push to a rebuild, a rebuild to    *)
(* the update of some entries of the cache, and no update, not even one    *)
(* that displaces another entry, to a push or a rebuild again.             *)
(* (KVS::pushOperation, KVS::rebuildShard.)                                *)
(***************************************************************************)
PartsLeft ==
  CASE pc = "put"     -> Cardinality(Key) + 3
    [] pc = "push"    -> Cardinality(Key) + 2
    [] pc = "rebuild" -> Cardinality(Key) + 1
    [] pc = "install" -> Cardinality({key \in Key : newEntries[key] # EMPTY_PTR})
    [] OTHER          -> 0

CallAdvances ==
  [][pc \notin {"idle", "halted"} =>
       PartsLeft \in Nat /\ PartsLeft' \in 0 .. PartsLeft - 1]_vars

(***************************************************************************)
(* Every call returns, or the process dies in it: no chain of push,        *)
(* rebuild and update goes on for ever.                                    *)
(***************************************************************************)
CallReturns == pc # "idle" ~> pc \in {"idle", "halted"}

-----------------------------------------------------------------------------
(***************************************************************************)
(* Claims of the documentation and of the program's own assertions that    *)
(* the code does not keep.                                                 *)
(***************************************************************************)

(***************************************************************************)
(* ShardBuilder.cpp:55 asserts that an index entry whose removal has been  *)
(* written down is NONEXISTENT.                                            *)
(***************************************************************************)
SyncDeletedAssert == failure # "sync deleted"

(***************************************************************************)
(* KVS.cpp:178 asserts that overwriting the cached entries of a rebuilt    *)
(* shard displaces nothing.                                                *)
(***************************************************************************)
RebuildDisplacesNothing == failure # "rebuild displaced"

(***************************************************************************)
(* KVS.h:33 says that remove calls shard rebuilding if necessary: when no  *)
(* call is running, no shard is overdue.                                   *)
(***************************************************************************)
NoRebuildOverdue ==
  pc = "idle" => \A shard \in ShardIndex : ~IsRebuildRequired(shard)

=============================================================================
