------------------------------ MODULE MCHashTable ------------------------------
(* HashTable with three usable slots, fewer than the pairs that are added, *)
(* and every hash function, collisions and the forbidden 0 among them.     *)
EXTENDS HashTable

SmallKeygen == 0..(table_size - 1)
=============================================================================
