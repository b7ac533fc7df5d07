-------------------------------- MODULE Map --------------------------------
(***************************************************************************)
(* The map of util/map.c: two arrays of the same size, one of keys and one *)
(* of values, that grow at the end and are closed up when a key is removed.*)
(***************************************************************************)
EXTENDS Integers

CONSTANTS
    Keys,
    Vals,
    NoVal       \* the key is not in the map (ecNotFound)

ASSUME MapAssumption == NoVal \notin Vals

VARIABLES size, keys, values

mapVars == <<size, keys, values>>

MapTypeOK ==
    /\ size \in Nat
    /\ keys \in [0 .. size - 1 -> Keys]
    /\ values \in [0 .. size - 1 -> Vals]

MapInit ==
    /\ size = 0
    /\ keys = [i \in 0 .. -1 |-> NoVal] /\ values = [i \in 0 .. -1 |-> NoVal]

(* find_key: the first index with the key, -1 if there is none.             *)
FindKey(k) ==
    IF \E i \in 0 .. size - 1 : keys[i] = k
    THEN CHOOSE i \in 0 .. size - 1 :
            keys[i] = k /\ \A j \in 0 .. i - 1 : keys[j] # k
    ELSE -1

(* The array with one more element.                                         *)
Grown(arr, x) == [i \in 0 .. size |-> IF i = size THEN x ELSE arr[i]]

MapSet(k, v) ==
    IF FindKey(k) = -1
    THEN /\ size' = size + 1
         /\ keys' = Grown(keys, k)
         /\ values' = Grown(values, v)
    ELSE /\ values' = [values EXCEPT ![FindKey(k)] = v]
         /\ UNCHANGED <<size, keys>>

MapGet(k) == IF FindKey(k) = -1 THEN NoVal ELSE values[FindKey(k)]

(* remove_idx and realloc: the elements behind the index move up by one.    *)
Without(arr, idx) ==
    [i \in 0 .. size - 2 |-> IF i < idx THEN arr[i] ELSE arr[i + 1]]

(* Faulty variant of MapRemove: the last key takes the place of the removed *)
(* one, and the values move up.                                             *)
MapRemoveSwaps(k) ==
    IF FindKey(k) = -1 THEN UNCHANGED mapVars
    ELSE /\ size' = size - 1
         /\ keys' = [i \in 0 .. size - 2 |->
                        IF i = FindKey(k) THEN keys[size - 1] ELSE keys[i]]
         /\ values' = Without(values, FindKey(k))

MapRemove(k) ==
    IF FindKey(k) = -1 THEN UNCHANGED mapVars
    ELSE /\ size' = size - 1
         /\ keys' = Without(keys, FindKey(k))
         /\ values' = Without(values, FindKey(k))

(* A key is in the map once.                                                *)
MapInv == \A i, j \in 0 .. size - 1 : keys[i] = keys[j] => i = j

(* The map as a function.                                                   *)
Contents == [k \in Keys |-> MapGet(k)]
=============================================================================
