---------------------------- MODULE MCHashTable -----------------------------
(* Instances of HashTable for TLC.                                         *)
EXTENDS HashTable, TLC

CONSTANTS t1, t2, key1, KEY1, key2, val1, val2

(* key1 and key2 share a chain in a table of two, not in one of four.      *)
LowerCase == (key1 :> key1) @@ (KEY1 :> key1) @@ (key2 :> key2)
Hashes == (key1 :> 1) @@ (KEY1 :> 2) @@ (key2 :> 3)

SameThreads == Permutations(Thread) \cup Permutations(Value)

=============================================================================
