------------------------------- MODULE HashTable -------------------------------
(***************************************************************************)
(* The open-addressing table of hash_tools.c, one probe a step: the calls  *)
(* of its only user follow each other, in any order and with any keys.     *)
(*                                                                         *)
(* A key is a model value; keygen gives the number that                    *)
(* _generate_hash_index folds out of its characters.  strcmp and the       *)
(* caller's key_size are taken to agree on where a key ends.               *)
(***************************************************************************)
EXTENDS Integers, FiniteSets

CONSTANTS Keys, Values,
          NumEntries,       \* hash_allocate's num_entries, every call's table_size
          KeygenValues,     \* keygen_value of some key
          NoTable, Empty, NoCall

ASSUME HashAssumption ==
  /\ NumEntries \in Nat /\ NumEntries >= 2
  /\ KeygenValues \subseteq Nat
  /\ Empty \notin Keys \X Values
  /\ NoTable \notin [0..(2 * NumEntries - 1) -> {Empty} \cup (Keys \X Values)]
  /\ NoCall \notin [op : {"add"}, key : Keys, value : Values]
                   \cup [op : {"fetch", "remove"}, key : Keys]

VARIABLES
  table,           \* NoTable, or slot -> entry or Empty
  keygen,          \* the hash function
  call,            \* arguments of the call in progress
  pc,              \* "idle", "add", "home" or "seek"
  probe_counter, step_counter,
  result,          \* of the last call
  fault            \* hash_free went past the caller's pointer

vars   == <<table, keygen, call, pc, probe_counter, step_counter, result, fault>>
probes == <<probe_counter, step_counter>>

table_size == 2 * NumEntries      \* "match actual allocation"
Slots      == 0..(table_size - 1)

Init == /\ table = NoTable
        /\ keygen \in [Keys -> KeygenValues]
        /\ call = NoCall /\ pc = "idle"
        /\ probe_counter = 0 /\ step_counter = 0
        /\ result = "none"
        /\ fault = FALSE

(* Mutant: the modulo is used as it is.                                    *)
PlainIndex(k) == keygen[k] % table_size

(* _generate_hash_index                                                    *)
HashIndex(k) ==
  LET r == keygen[k] % table_size IN IF r = 0 THEN 1 ELSE r

HasKey(s, k) == table[s] # Empty /\ table[s][1] = k

Ready == pc = "idle" /\ ~fault

-----------------------------------------------------------------------------
HashAllocate ==
  /\ Ready /\ table = NoTable
  /\ table' = [s \in Slots |-> Empty]
  /\ UNCHANGED <<keygen, call, pc, probes, result, fault>>

(* *table[cursor] takes the cursor'th pointer behind the caller's own      *)
(* pointer, not the cursor'th slot, and there are at least four slots.     *)
HashFree ==
  /\ Ready /\ table # NoTable
  /\ fault' = TRUE
  /\ UNCHANGED <<table, keygen, call, pc, probes, result>>

Invoke(c, first) ==
  /\ Ready /\ table # NoTable
  /\ call' = c /\ pc' = first
  /\ probe_counter' = HashIndex(c.key) /\ step_counter' = 0
  /\ result' = "none"
  /\ UNCHANGED <<table, keygen, fault>>

Return(r) == /\ pc' = "idle" /\ call' = NoCall /\ result' = r
             /\ UNCHANGED <<keygen, probes, fault>>

-----------------------------------------------------------------------------
(* hash_add_entry                                                          *)
HashAddEntry == \E k \in Keys, v \in Values :
                  Invoke([op |-> "add", key |-> k, value |-> v], "add")

(* A taken slot.  Wrapping to slot 1 counts as a step of its own.          *)
AddProbe ==
  /\ pc = "add" /\ table[probe_counter] # Empty
  /\ IF step_counter + 1 >= table_size THEN Return("full") /\ UNCHANGED table
     ELSE /\ IF probe_counter + 1 >= table_size
               THEN probe_counter' = 1 /\ step_counter' = step_counter + 2
               ELSE probe_counter' = probe_counter + 1 /\ step_counter' = step_counter + 1
          /\ UNCHANGED <<table, keygen, call, pc, result, fault>>

AddStore ==
  /\ pc = "add" /\ table[probe_counter] = Empty
  /\ \/ /\ table' = [table EXCEPT ![probe_counter] = <<call.key, call.value>>]
        /\ Return("ok")
     \/ Return("no_memory") /\ UNCHANGED table

-----------------------------------------------------------------------------
(* hash_fetch_entry, hash_remove_entry and _hash_seek_entry                *)
HashFetchEntry  == \E k \in Keys : Invoke([op |-> "fetch", key |-> k], "home")
HashRemoveEntry == \E k \in Keys : Invoke([op |-> "remove", key |-> k], "home")

Deliver(s) ==
  IF call.op = "fetch" THEN Return(table[s][2]) /\ UNCHANGED table
  ELSE Return("ok") /\ table' = [table EXCEPT ![s] = Empty]

TryHome ==
  /\ pc = "home"
  /\ IF HasKey(probe_counter, call.key) THEN Deliver(probe_counter)
     ELSE pc' = "seek" /\ UNCHANGED <<table, keygen, call, probes, result, fault>>

(* Where the loop body looks, and the count when it does.                  *)
Wraps == probe_counter + 1 >= table_size
SeekSlot == IF Wraps THEN 1 ELSE probe_counter + 1
SeekCount == IF Wraps THEN step_counter + 1 ELSE step_counter

Seeking == pc = "seek" /\ step_counter < table_size

(* Mutants: an empty slot ends the search; steps are not counted.          *)
SeekUntilEmpty ==
  /\ Seeking
  /\ IF table[SeekSlot] = Empty THEN Return("absent") /\ UNCHANGED table
     ELSE IF HasKey(SeekSlot, call.key) THEN Deliver(SeekSlot)
     ELSE /\ probe_counter' = SeekSlot /\ step_counter' = SeekCount + 1
          /\ UNCHANGED <<table, keygen, call, pc, result, fault>>
SeekUncounted ==
  /\ Seeking
  /\ IF HasKey(SeekSlot, call.key) THEN Deliver(SeekSlot)
     ELSE /\ probe_counter' = SeekSlot
          /\ UNCHANGED <<step_counter, table, keygen, call, pc, result, fault>>

SeekStep ==
  /\ Seeking
  /\ IF HasKey(SeekSlot, call.key) THEN Deliver(SeekSlot)
     ELSE /\ probe_counter' = SeekSlot /\ step_counter' = SeekCount + 1
          /\ UNCHANGED <<table, keygen, call, pc, result, fault>>

SeekFails == /\ pc = "seek" /\ step_counter >= table_size
             /\ Return("absent") /\ UNCHANGED table

Step == AddProbe \/ AddStore \/ TryHome \/ SeekStep \/ SeekFails

Next == \/ HashAllocate \/ HashFree
        \/ HashAddEntry \/ HashFetchEntry \/ HashRemoveEntry
        \/ Step

Spec == Init /\ [][Next]_vars

(* The caller's thread runs on.                                            *)
FairSpec == Spec /\ WF_vars(Step)
-----------------------------------------------------------------------------
(* hash_tools.c:14, "never allow the 0th index to be filled".              *)
TypeOK ==
  /\ table # NoTable => /\ table \in [Slots -> {Empty} \cup (Keys \X Values)]
                       /\ table[0] = Empty
  /\ keygen \in [Keys -> KeygenValues]
  /\ pc \in {"idle", "add", "home", "seek"}
  /\ probe_counter \in Slots
  /\ step_counter \in 0..(table_size + 1)
  /\ result \in {"none", "ok", "full", "no_memory", "absent"} \cup Values
  /\ fault \in BOOLEAN

(* Keys collide, the probes wrap, entries disappear and leave holes, and   *)
(* still the table is a bag: a full table is the only one that refuses an  *)
(* entry, a key that is present is found, one that is not is not.          *)
Taken(p) == IF table = NoTable THEN {} ELSE {s \in Slots : table[s] = p}

Held == [p \in Keys \X Values |-> Cardinality(Taken(p))]
Room == Cardinality(Taken(Empty) \ {0})

Map == INSTANCE MultiMap WITH Capacity <- table_size - 1, held <- Held, room <- Room
ImplementsMultiMap == Map!Spec

(* Every call returns.                                                     *)
CallsReturn == []<>(pc = "idle")
=============================================================================
