------------------------------- MODULE KVSMap -------------------------------
(***************************************************************************)
(* What the key-value store promises: a map.  add() binds a key to a       *)
(* value, remove() unbinds it, get() returns the value a key is bound to,  *)
(* if any.  Absent values are empty sets.                                  *)
(***************************************************************************)
CONSTANTS Key, Value

VARIABLES
  store,     \* store[key] is {} or the singleton of the key's value
  result     \* what the last call returned; {} also stands for void

Init ==
  /\ store = [key \in Key |-> {}]
  /\ result = {}

Add(key, value) ==
  /\ store' = [store EXCEPT ![key] = {value}]
  /\ result' = {}

Get(key) ==
  /\ result' = store[key]
  /\ UNCHANGED store

Remove(key) ==
  /\ store' = [store EXCEPT ![key] = {}]
  /\ result' = {}

Next ==
  \E key \in Key :
    \/ \E value \in Value : Add(key, value)
    \/ Get(key)
    \/ Remove(key)

Spec == Init /\ [][Next]_<<store, result>>

=============================================================================
