---------------------------- MODULE HashTable_proofs ----------------------------
(***************************************************************************)
(* Proofs about HashTable, for every size, every hash function and every   *)
(* set of keys and values: the table is the bounded bag of MultiMap.       *)
(***************************************************************************)
EXTENDS HashTable, FiniteSetTheorems, TLAPS

Entries == Keys \X Values

(* Where the search for the call's key began.                              *)
Home == HashIndex(call.key)

(* The counter tells whether the probe has wrapped: it counts the slots    *)
(* behind it, and one more for the jump to slot 1.                         *)
Straight == probe_counter >= Home /\ step_counter = probe_counter - Home
Wrapped  == step_counter = table_size - Home + probe_counter

(* The slots that were looked at before the one in hand.                   *)
Behind == IF Straight THEN Home..(probe_counter - 1)
          ELSE Home..(table_size - 1) \cup 1..(probe_counter - 1)

(* What goes with a call in progress.                                      *)
CallOK ==
  /\ pc = "idle" => call = NoCall
  /\ pc # "idle" => /\ table # NoTable /\ call \in Map!Calls
                    /\ probe_counter \in 1..(table_size - 1)
  /\ pc = "add" => call.op = "add"
  /\ pc \in {"home", "seek"} => call.op # "add"
  /\ pc = "home" => probe_counter = Home /\ step_counter = 0
  /\ pc \in {"add", "seek"} => Straight \/ Wrapped

(* An entry goes to the first free slot.                                   *)
AddInv == pc = "add" => \A s \in Behind : table[s] # Empty

(* What was looked at, the slot in hand included, holds another key.       *)
SeekInv == pc = "seek" =>
             \A s \in Behind \cup {probe_counter} : ~HasKey(s, call.key)

(* The inductive invariant.                                                *)
TableInv == TypeOK /\ CallOK /\ AddInv /\ SeekInv

-----------------------------------------------------------------------------
LEMMA ModuloIs ==
  ASSUME NEW a \in Nat, NEW b \in Nat \ {0}
  PROVE  a % b \in 0..(b - 1)
OBVIOUS

(* At least four slots, and no key at home in slot 0.                      *)
LEMMA Sizes ==
  /\ table_size \in Nat /\ table_size >= 4
  /\ TypeOK => \A k \in Keys : HashIndex(k) \in 1..(table_size - 1)
<1>1. table_size \in Nat /\ table_size >= 4
  BY HashAssumption DEF table_size
<1>2. ASSUME TypeOK, NEW k \in Keys PROVE HashIndex(k) \in 1..(table_size - 1)
  <2>1. keygen[k] \in Nat
    BY <1>2, HashAssumption DEF TypeOK
  <2>2. keygen[k] % table_size \in 0..(table_size - 1)
    BY <1>1, <2>1, ModuloIs
  <2> QED
    BY <1>1, <2>2 DEF HashIndex
<1> QED
  BY <1>1, <1>2

(* A call names a key, and an addition a value.                            *)
LEMMA CallIs ==
  ASSUME NEW c \in Map!Calls
  PROVE  /\ c.key \in Keys
         /\ c.op \in {"add", "fetch", "remove"}
         /\ c.op = "add" => c.value \in Values
         /\ c # NoCall
BY HashAssumption DEF Map!Calls

(* The numbers of a call in progress.                                      *)
LEMMA Numbers ==
  ASSUME TableInv, pc # "idle"
  PROVE  /\ table_size \in Nat /\ table_size >= 4
         /\ probe_counter \in 1..(table_size - 1) /\ probe_counter \in Slots
         /\ step_counter \in Nat
         /\ Home \in 1..(table_size - 1)
         /\ table \in [Slots -> {Empty} \cup Entries] /\ table[0] = Empty
         /\ call.key \in Keys
<1>1. call.key \in Keys /\ table # NoTable /\ probe_counter \in 1..(table_size - 1)
  BY CallIs DEF TableInv, CallOK
<1>2. Home \in 1..(table_size - 1)
  BY <1>1, Sizes DEF Home, TableInv
<1>3. probe_counter \in Slots /\ step_counter \in Nat
  BY Sizes DEF TableInv, TypeOK, Slots
<1> QED
  BY <1>1, <1>2, <1>3, Sizes DEF TableInv, TypeOK, Entries

LEMMA InitEstablishes == Init => TableInv
<1> SUFFICES ASSUME Init PROVE TableInv
  OBVIOUS
<1>1. 0 \in Slots /\ 0 \in 0..(table_size + 1)
  BY Sizes DEF Slots
<1> QED
  BY <1>1 DEF Init, TableInv, TypeOK, CallOK, AddInv, SeekInv

(* Between calls only the table is of interest.                            *)
LEMMA IdleKeeps ==
  ASSUME TypeOK', pc' = "idle", call' = NoCall
  PROVE  TableInv'
BY DEF TableInv, CallOK, AddInv, SeekInv

LEMMA AllocateKeeps ==
  ASSUME TableInv, HashAllocate
  PROVE  TableInv'
<1>1. /\ pc = "idle" /\ call = NoCall /\ table' = [s \in Slots |-> Empty]
      /\ UNCHANGED <<keygen, call, pc, probes, result, fault>>
  BY DEF HashAllocate, Ready, TableInv, CallOK
<1>2. 0 \in Slots
  BY Sizes DEF Slots
<1>3. table' \in [Slots -> {Empty} \cup (Keys \X Values)] /\ table'[0] = Empty
  BY <1>1, <1>2
<1>4. TypeOK'
  BY <1>1, <1>3 DEF TableInv, TypeOK, probes
<1> QED
  BY <1>1, <1>4, IdleKeeps

LEMMA FreeKeeps ==
  ASSUME TableInv, HashFree
  PROVE  TableInv'
<1>1. /\ pc = "idle" /\ call = NoCall /\ fault' = TRUE
      /\ UNCHANGED <<table, keygen, call, pc, probes, result>>
  BY DEF HashFree, Ready, TableInv, CallOK
<1>2. TypeOK'
  BY <1>1 DEF TableInv, TypeOK, probes
<1> QED
  BY <1>1, <1>2, IdleKeeps

(* A call starts at the home of its key, with nothing behind it.           *)
LEMMA InvokeKeeps ==
  ASSUME TableInv, NEW c \in Map!Calls, NEW first \in {"add", "home"},
         first = "add" <=> c.op = "add", Invoke(c, first)
  PROVE  TableInv'
<1>1. /\ pc' = first /\ call' = c /\ table # NoTable
      /\ probe_counter' = HashIndex(c.key) /\ step_counter' = 0 /\ result' = "none"
      /\ UNCHANGED <<table, keygen, fault>>
  BY DEF Invoke
<1>2. HashIndex(c.key) \in 1..(table_size - 1)
  BY CallIs, Sizes DEF TableInv
<1>3. Home' = probe_counter' /\ probe_counter' \in 1..(table_size - 1)
  BY <1>1, <1>2 DEF Home, HashIndex
<1>4. TypeOK'
  <2>1. probe_counter' \in Slots /\ 0 \in 0..(table_size + 1)
    BY <1>3, Sizes DEF Slots
  <2> QED
    BY <1>1, <2>1 DEF TableInv, TypeOK
<1>5. Straight' /\ Behind' = {}
  <2>1. step_counter' = probe_counter' - Home' /\ probe_counter' >= Home'
    BY <1>1, <1>3, Sizes
  <2>2. Straight'
    BY <2>1 DEF Straight
  <2>3. Behind' = Home'..(probe_counter' - 1)
    BY <2>2 DEF Behind
  <2>4. \A n \in 1..(table_size - 1) : n..(n - 1) = {}
    BY Sizes
  <2>5. Home'..(probe_counter' - 1) = {}
    BY <1>3, <2>4
  <2> QED
    BY <2>2, <2>3, <2>5
<1>6. CallOK'
  BY <1>1, <1>3, <1>5 DEF CallOK
<1>7. AddInv' /\ SeekInv'
  BY <1>1, <1>5 DEF AddInv, SeekInv
<1> QED
  BY <1>4, <1>6, <1>7 DEF TableInv

LEMMA CallsKeep ==
  ASSUME TableInv, HashAddEntry \/ HashFetchEntry \/ HashRemoveEntry
  PROVE  TableInv' /\ table' = table /\ call = NoCall /\ call' \in Map!Calls /\ result' = "none"
<1>1. CASE HashAddEntry
  <2>1. PICK k \in Keys, v \in Values : Invoke([op |-> "add", key |-> k, value |-> v], "add")
    BY <1>1 DEF HashAddEntry
  <2>2. [op |-> "add", key |-> k, value |-> v] \in Map!Calls
    BY DEF Map!Calls
  <2> QED
    BY <2>1, <2>2, InvokeKeeps DEF Invoke, Ready, TableInv, CallOK
<1>2. ASSUME NEW k \in Keys, NEW o \in {"fetch", "remove"}, Invoke([op |-> o, key |-> k], "home")
      PROVE  TableInv' /\ table' = table /\ call = NoCall /\ call' \in Map!Calls /\ result' = "none"
  <2>1. [op |-> o, key |-> k] \in Map!Calls /\ [op |-> o, key |-> k].op # "add"
    BY DEF Map!Calls
  <2> QED
    BY <1>2, <2>1, InvokeKeeps DEF Invoke, Ready, TableInv, CallOK
<1> QED
  BY <1>1, <1>2 DEF HashFetchEntry, HashRemoveEntry


(* The next slot is not taken for an earlier one: what lies behind grows   *)
(* by the slot in hand, and the count goes with it.                        *)
LEMMA ProbeAdvances ==
  ASSUME NEW T \in Nat, T >= 4, NEW h \in 1..(T - 1), NEW p \in 1..(T - 1), NEW c \in Nat,
         NEW q \in Nat, NEW d \in Nat, c < T,
         \/ p >= h /\ c = p - h
         \/ c = T - h + p,
         IF p + 1 >= T THEN q = 1 /\ d = c + 2 ELSE q = p + 1 /\ d = c + 1
  PROVE  /\ q \in 1..(T - 1) /\ d <= T + 1
         /\ p >= h /\ c = p - h /\ p + 1 < T => q >= h /\ d = q - h
         /\ ~(p >= h /\ c = p - h /\ p + 1 < T) => d = T - h + q /\ ~(q >= h /\ d = q - h)
OBVIOUS

LEMMA Advances ==
  ASSUME TableInv, pc \in {"add", "seek"}, step_counter < table_size,
         UNCHANGED <<call, keygen>>,
         IF probe_counter + 1 >= table_size
           THEN probe_counter' = 1 /\ step_counter' = step_counter + 2
           ELSE probe_counter' = probe_counter + 1 /\ step_counter' = step_counter + 1
  PROVE  /\ probe_counter' \in 1..(table_size - 1) /\ step_counter' \in 0..(table_size + 1)
         /\ Straight' \/ Wrapped'
         /\ Behind' = Behind \cup {probe_counter}
<1> DEFINE q == probe_counter'
           d == step_counter'
<1>1. /\ q \in Nat /\ d \in Nat /\ Home' = Home
      /\ IF probe_counter + 1 >= table_size THEN q = 1 /\ d = step_counter + 2
         ELSE q = probe_counter + 1 /\ d = step_counter + 1
  BY Numbers DEF Home, HashIndex
<1>2. Straight \/ Wrapped
  BY DEF TableInv, CallOK
<1>3. /\ Straight' <=> q >= Home /\ d = q - Home
      /\ Wrapped' <=> d = table_size - Home + q
      /\ Behind' = IF Straight' THEN Home..(q - 1) ELSE Home..(table_size - 1) \cup 1..(q - 1)
  BY <1>1 DEF Straight, Wrapped, Behind, table_size
<1> HIDE DEF q, d
<1>4. /\ q \in 1..(table_size - 1) /\ d <= table_size + 1
      /\ Straight /\ probe_counter + 1 < table_size => q >= Home /\ d = q - Home
      /\ ~(Straight /\ probe_counter + 1 < table_size) =>
           d = table_size - Home + q /\ ~(q >= Home /\ d = q - Home)
  <2>1. \/ probe_counter >= Home /\ step_counter = probe_counter - Home
        \/ step_counter = table_size - Home + probe_counter
    BY <1>2 DEF Straight, Wrapped
  <2> QED
    BY <1>1, <2>1, Numbers, ProbeAdvances DEF Straight
<1>5. Straight' \/ Wrapped'
  BY <1>3, <1>4
<1>6. CASE Straight /\ probe_counter + 1 < table_size
  <2>1. Straight' /\ q = probe_counter + 1
    BY <1>1, <1>3, <1>4, <1>6, Numbers
  <2>2. Behind' = Home..(q - 1) /\ Behind = Home..(probe_counter - 1)
    BY <1>3, <1>6, <2>1, Zenon DEF Behind
  <2>3. Home \in Nat /\ probe_counter \in Nat /\ probe_counter >= Home
    BY <1>6, Numbers DEF Straight
  <2>4. \A a, b \in Nat : b >= a => a..((b + 1) - 1) = (a..(b - 1)) \cup {b}
    OBVIOUS
  <2>5. Behind' = Behind \cup {probe_counter}
    BY <2>1, <2>2, <2>3, <2>4
  <2> QED
    BY <1>1, <1>4, <1>5, <2>5 DEF q, d
<1>7. CASE Straight /\ ~(probe_counter + 1 < table_size)
  <2>1. ~Straight' /\ q = 1 /\ probe_counter = table_size - 1
    BY <1>1, <1>3, <1>4, <1>7, Numbers
  <2>2. /\ Behind' = Home..(table_size - 1) \cup 1..(q - 1)
        /\ Behind = Home..(probe_counter - 1)
    BY <1>3, <1>7, <2>1, Zenon DEF Behind
  <2>3. Home \in Nat /\ probe_counter \in Nat /\ probe_counter >= Home
    BY <1>7, Numbers DEF Straight
  <2>4. \A a, b \in Nat : b >= a => (a..b) \cup (1..(1 - 1)) = (a..(b - 1)) \cup {b}
    OBVIOUS
  <2>5. Behind' = Behind \cup {probe_counter}
    BY <2>1, <2>2, <2>3, <2>4
  <2> QED
    BY <1>1, <1>4, <1>5, <2>5 DEF q, d
<1>8. CASE ~Straight
  <2>1. /\ Behind' = Home..(table_size - 1) \cup 1..(q - 1) /\ q = probe_counter + 1
        /\ Behind = Home..(table_size - 1) \cup 1..(probe_counter - 1)
    <3>1. step_counter = table_size - Home + probe_counter
      BY <1>2, <1>8 DEF Wrapped
    <3>2. probe_counter + 1 < table_size
      BY <3>1, Numbers
    <3> QED
      BY <1>1, <1>3, <1>4, <1>8, <3>2, Numbers DEF Behind
  <2>2. 1..(q - 1) = 1..(probe_counter - 1) \cup {probe_counter}
    BY <2>1, Numbers
  <2>3. Behind' = Behind \cup {probe_counter}
    BY <2>1, <2>2
  <2> QED
    BY <1>1, <1>4, <1>5, <2>3 DEF q, d
<1> QED
  BY <1>6, <1>7, <1>8, Numbers

(* A call returns, with at most one slot but never slot 0 changed.         *)
LEMMA ReturnKeeps ==
  ASSUME TableInv, NEW r \in {"ok", "full", "no_memory", "absent"} \cup Values, Return(r),
         \/ UNCHANGED table
         \/ /\ table # NoTable
            /\ \E s \in Slots \ {0}, e \in {Empty} \cup Entries : table' = [table EXCEPT ![s] = e]
  PROVE  TableInv'
<1>1. /\ pc' = "idle" /\ call' = NoCall /\ result' = r
      /\ UNCHANGED <<keygen, probe_counter, step_counter, fault>>
  BY DEF Return, probes
<1>2. table' # NoTable =>
        /\ table' \in [Slots -> {Empty} \cup (Keys \X Values)] /\ table'[0] = Empty
  <2>1. CASE UNCHANGED table
    BY <2>1 DEF TableInv, TypeOK
  <2>2. CASE table # NoTable /\ ~UNCHANGED table
    <3>1. PICK s \in Slots \ {0}, e \in {Empty} \cup Entries : table' = [table EXCEPT ![s] = e]
      BY <2>2
    <3>2. table \in [Slots -> {Empty} \cup (Keys \X Values)] /\ table[0] = Empty /\ 0 \in Slots
      BY <2>2, Sizes DEF TableInv, TypeOK, Slots
    <3> QED
      BY <3>1, <3>2 DEF Entries
  <2> QED
    BY <2>1, <2>2
<1>3. TypeOK'
  BY <1>1, <1>2 DEF TableInv, TypeOK
<1> QED
  BY <1>1, <1>3, IdleKeeps

LEMMA AddProbeKeeps ==
  ASSUME TableInv, AddProbe
  PROVE  TableInv'
<1>1. pc = "add" /\ table[probe_counter] # Empty
  BY DEF AddProbe
<1>2. CASE step_counter + 1 >= table_size
  BY <1>2, ReturnKeeps DEF AddProbe
<1>3. CASE ~(step_counter + 1 >= table_size)
  <2>1. /\ IF probe_counter + 1 >= table_size
             THEN probe_counter' = 1 /\ step_counter' = step_counter + 2
             ELSE probe_counter' = probe_counter + 1 /\ step_counter' = step_counter + 1
        /\ UNCHANGED <<table, keygen, call, pc, result, fault>>
    BY <1>3 DEF AddProbe
  <2>2. /\ probe_counter' \in 1..(table_size - 1) /\ step_counter' \in 0..(table_size + 1)
        /\ Straight' \/ Wrapped'
        /\ Behind' = Behind \cup {probe_counter}
    BY <1>1, <1>3, <2>1, Advances, Numbers
  <2>3. TypeOK'
    BY <2>1, <2>2, Sizes DEF TableInv, TypeOK, Slots
  <2>4. CallOK'
    BY <1>1, <2>1, <2>2 DEF TableInv, CallOK
  <2>5. AddInv'
    BY <1>1, <2>1, <2>2 DEF TableInv, AddInv
  <2>6. SeekInv'
    BY <1>1, <2>1 DEF SeekInv
  <2> QED
    BY <2>3, <2>4, <2>5, <2>6 DEF TableInv
<1> QED
  BY <1>2, <1>3

LEMMA AddStoreKeeps ==
  ASSUME TableInv, AddStore
  PROVE  TableInv'
<1>1. pc = "add" /\ table # NoTable /\ probe_counter \in Slots \ {0}
  BY Numbers DEF AddStore, TableInv, CallOK
<1>2. <<call.key, call.value>> \in Entries
  BY <1>1, CallIs DEF TableInv, CallOK, Entries
<1>3. CASE Return("ok") /\ table' = [table EXCEPT ![probe_counter] = <<call.key, call.value>>]
  BY <1>1, <1>2, <1>3, ReturnKeeps
<1>4. CASE Return("no_memory") /\ UNCHANGED table
  BY <1>4, ReturnKeeps
<1> QED
  BY <1>3, <1>4 DEF AddStore

(* A found entry is handed out or disappears.                              *)
LEMMA DeliverKeeps ==
  ASSUME TableInv, pc \in {"home", "seek"}, NEW s \in Slots \ {0},
         HasKey(s, call.key), Deliver(s)
  PROVE  TableInv'
<1>1. table # NoTable /\ table[s] \in Entries
  BY Numbers DEF TableInv, CallOK, HasKey
<1>2. CASE call.op = "fetch"
  <2>1. table[s][2] \in Values
    BY <1>1 DEF Entries
  <2> QED
    BY <1>2, <2>1, ReturnKeeps DEF Deliver
<1>3. CASE call.op # "fetch"
  BY <1>1, <1>3, ReturnKeeps DEF Deliver
<1> QED
  BY <1>2, <1>3

LEMMA TryHomeKeeps ==
  ASSUME TableInv, TryHome
  PROVE  TableInv'
<1>1. pc = "home" /\ probe_counter \in Slots \ {0}
  BY Numbers DEF TryHome
<1>2. CASE HasKey(probe_counter, call.key)
  BY <1>1, <1>2, DeliverKeeps DEF TryHome
<1>3. CASE ~HasKey(probe_counter, call.key)
  <2>1. pc' = "seek" /\ UNCHANGED <<table, keygen, call, probe_counter, step_counter, result, fault>>
    BY <1>3 DEF TryHome, probes
  <2>2. probe_counter = Home /\ step_counter = 0
    BY <1>1 DEF TableInv, CallOK
  <2>3. Home' = Home
    BY <2>1 DEF Home, HashIndex, table_size
  <2>4. Straight /\ Behind = {}
    BY <1>1, <2>2, Numbers DEF Straight, Behind
  <2>5. Straight' /\ Behind' = {}
    BY <2>1, <2>3, <2>4 DEF Straight, Behind
  <2>6. TypeOK'
    BY <2>1 DEF TableInv, TypeOK
  <2>7. CallOK'
    BY <1>1, <2>1, <2>5 DEF TableInv, CallOK
  <2>8. AddInv' /\ SeekInv'
    BY <1>3, <2>1, <2>5 DEF AddInv, SeekInv, HasKey
  <2> QED
    BY <2>6, <2>7, <2>8 DEF TableInv
<1> QED
  BY <1>2, <1>3

(* The slot the loop body looks at is never slot 0.                        *)
LEMMA SeekSlotIs ==
  ASSUME TableInv, Seeking
  PROVE  SeekSlot \in Slots \ {0} /\ pc = "seek"
BY Numbers DEF Seeking, SeekSlot, Wraps, Slots

LEMMA SeekStepKeeps ==
  ASSUME TableInv, SeekStep
  PROVE  TableInv'
<1>1. Seeking /\ pc = "seek" /\ step_counter < table_size
  BY DEF SeekStep, Seeking
<1>2. CASE HasKey(SeekSlot, call.key)
  BY <1>1, <1>2, SeekSlotIs, DeliverKeeps DEF SeekStep
<1>3. CASE ~HasKey(SeekSlot, call.key)
  <2>1. /\ probe_counter' = SeekSlot /\ step_counter' = SeekCount + 1
        /\ UNCHANGED <<table, keygen, call, pc, result, fault>>
    BY <1>3 DEF SeekStep
  <2>2. /\ probe_counter' \in 1..(table_size - 1) /\ step_counter' \in 0..(table_size + 1)
        /\ Straight' \/ Wrapped'
        /\ Behind' = Behind \cup {probe_counter}
    <3>1. IF probe_counter + 1 >= table_size
            THEN probe_counter' = 1 /\ step_counter' = step_counter + 2
            ELSE probe_counter' = probe_counter + 1 /\ step_counter' = step_counter + 1
      BY <1>1, <2>1, Numbers DEF SeekSlot, SeekCount, Wraps
    <3> QED
      BY <1>1, <2>1, <3>1, Advances
  <2>3. TypeOK'
    BY <2>1, <2>2, Sizes DEF TableInv, TypeOK, Slots
  <2>4. CallOK'
    BY <1>1, <2>1, <2>2 DEF TableInv, CallOK
  <2>5. SeekInv'
    <3>1. \A s \in Behind \cup {probe_counter} : ~HasKey(s, call.key)
      BY <1>1 DEF TableInv, SeekInv
    <3>2. \A s \in Behind' \cup {probe_counter'} : ~HasKey(s, call.key)
      BY <1>3, <2>1, <2>2, <3>1
    <3> QED
      BY <2>1, <3>2 DEF SeekInv, HasKey
  <2>6. AddInv'
    BY <1>1, <2>1 DEF AddInv
  <2> QED
    BY <2>3, <2>4, <2>5, <2>6 DEF TableInv
<1> QED
  BY <1>2, <1>3

LEMMA SeekFailsKeeps ==
  ASSUME TableInv, SeekFails
  PROVE  TableInv'
BY ReturnKeeps DEF SeekFails

LEMMA StutterKeeps ==
  ASSUME TableInv, UNCHANGED vars
  PROVE  TableInv'
<1>1. UNCHANGED <<table, keygen, call, pc, probe_counter, step_counter, result, fault>>
  BY DEF vars
<1>2. TypeOK' /\ UNCHANGED Home
  BY <1>1 DEF TableInv, TypeOK, Home, HashIndex, table_size
<1>3. UNCHANGED <<Behind, Straight, Wrapped>>
  BY <1>1, <1>2 DEF Straight, Wrapped, Behind
<1>4. CallOK'
  BY <1>1, <1>2, <1>3 DEF TableInv, CallOK
<1> QED
  BY <1>1, <1>2, <1>3, <1>4 DEF TableInv, AddInv, SeekInv, HasKey

LEMMA StepKeeps == TableInv /\ [Next]_vars => TableInv'
<1> SUFFICES ASSUME TableInv, [Next]_vars PROVE TableInv'
  OBVIOUS
<1>1. CASE HashAllocate \/ HashFree
  BY <1>1, AllocateKeeps, FreeKeeps
<1>2. CASE HashAddEntry \/ HashFetchEntry \/ HashRemoveEntry
  BY <1>2, CallsKeep
<1>3. CASE AddProbe \/ AddStore
  BY <1>3, AddProbeKeeps, AddStoreKeeps
<1>4. CASE TryHome \/ SeekStep \/ SeekFails
  BY <1>4, TryHomeKeeps, SeekStepKeeps, SeekFailsKeeps
<1>5. CASE UNCHANGED vars
  BY <1>5, StutterKeeps
<1> QED
  BY <1>1, <1>2, <1>3, <1>4, <1>5 DEF Next, Step

(* For every hash function and every sequence of calls the probe and its   *)
(* count stay as CallOK relates them.                                      *)
THEOREM Invariance == Spec => []TableInv
<1> QED
  BY InitEstablishes, StepKeeps, PTL DEF Spec

(* The probe stays inside the table and slot 0 is never filled             *)
(* (hash_tools.c:14, 60-90, 260-310).                                      *)
THEOREM TypeCorrect == Spec => []TypeOK
<1>1. TableInv => TypeOK
  BY DEF TableInv
<1> QED
  BY <1>1, Invariance, PTL

-----------------------------------------------------------------------------
(* Counting the slots that hold an entry, or nothing.                      *)
LEMMA TakenIsFinite ==
  ASSUME NEW p
  PROVE  /\ IsFiniteSet(Taken(p)) /\ Cardinality(Taken(p)) \in Nat
         /\ IsFiniteSet(Taken(p) \ {0}) /\ Cardinality(Taken(p) \ {0}) \in Nat
<1>1. IsFiniteSet(Slots) /\ Taken(p) \subseteq Slots
  BY Sizes, FS_Interval DEF Slots, Taken
<1>2. IsFiniteSet(Taken(p)) /\ IsFiniteSet(Taken(p) \ {0})
  BY <1>1, FS_Subset
<1> QED
  BY <1>2, FS_CardinalityType

LEMMA CountsPositive ==
  ASSUME NEW p
  PROVE  /\ Cardinality(Taken(p)) > 0 <=> \E s \in Slots : s \in Taken(p)
         /\ Cardinality(Taken(p)) = 0 <=> Taken(p) = {}
         /\ Cardinality(Taken(p) \ {0}) = 0 <=> Taken(p) \ {0} = {}
<1>1. /\ Cardinality(Taken(p)) = 0 <=> Taken(p) = {}
      /\ Cardinality(Taken(p) \ {0}) = 0 <=> Taken(p) \ {0} = {}
  BY TakenIsFinite, FS_EmptySet
<1>2. Taken(p) \subseteq Slots
  BY DEF Taken
<1>3. Cardinality(Taken(p)) > 0 <=> Cardinality(Taken(p)) # 0
  <2>1. \A n \in Nat : n > 0 <=> n # 0
    OBVIOUS
  <2> QED
    BY <2>1, TakenIsFinite
<1>4. Taken(p) # {} <=> \E s \in Slots : s \in Taken(p)
  BY <1>2
<1> QED
  BY <1>1, <1>3, <1>4

(* One slot is filled: its entry is there once more, and one less is free. *)
LEMMA StoreCounts ==
  ASSUME TypeOK, table # NoTable, table' # NoTable,
         NEW s \in Slots \ {0}, table[s] = Empty, NEW e \in Entries,
         table' = [table EXCEPT ![s] = e]
  PROVE  /\ Held' = [Held EXCEPT ![e] = @ + 1]
         /\ Room > 0 /\ Room' = Room - 1
<1>1. /\ Taken(e)' = Taken(e) \cup {s} /\ s \notin Taken(e)
      /\ \A p \in Entries \ {e} : Taken(p)' = Taken(p)
      /\ Taken(Empty)' = Taken(Empty) \ {s} /\ s \in Taken(Empty)
  BY HashAssumption DEF TypeOK, Taken, Entries, Slots, table_size
<1>2. Cardinality(Taken(e)') = Cardinality(Taken(e)) + 1
  BY <1>1, TakenIsFinite, FS_AddElement
<1>3. Held' = [Held EXCEPT ![e] = @ + 1]
  BY <1>1, <1>2 DEF Held, Entries
<1>4. Taken(Empty)' \ {0} = (Taken(Empty) \ {0}) \ {s} /\ s \in Taken(Empty) \ {0}
  BY <1>1
<1>5. Room' = Room - 1
  BY <1>4, TakenIsFinite, FS_RemoveElement DEF Room
<1>6. Room # 0 /\ Room \in Nat
  BY <1>4, CountsPositive, TakenIsFinite DEF Room
<1> QED
  BY <1>3, <1>5, <1>6

(* One slot is emptied.                                                    *)
LEMMA ClearCounts ==
  ASSUME TypeOK, table # NoTable, table' # NoTable,
         NEW s \in Slots \ {0}, NEW e \in Entries, table[s] = e,
         table' = [table EXCEPT ![s] = Empty]
  PROVE  /\ Held' = [Held EXCEPT ![e] = @ - 1]
         /\ Held[e] > 0 /\ Room' = Room + 1
<1>1. /\ Taken(e)' = Taken(e) \ {s} /\ s \in Taken(e)
      /\ \A p \in Entries \ {e} : Taken(p)' = Taken(p)
      /\ Taken(Empty)' = Taken(Empty) \cup {s} /\ s \notin Taken(Empty)
  BY HashAssumption DEF TypeOK, Taken, Entries, Slots, table_size
<1>2. Cardinality(Taken(e)') = Cardinality(Taken(e)) - 1
  <2>1. IsFiniteSet(Taken(e))
    BY TakenIsFinite
  <2>2. Cardinality(Taken(e) \ {s}) = Cardinality(Taken(e)) - 1
    BY <1>1, <2>1, FS_RemoveElement
  <2> QED
    BY <1>1, <2>2
<1>3. Held' = [Held EXCEPT ![e] = @ - 1]
  BY <1>1, <1>2 DEF Held, Entries
<1>4. Taken(Empty)' \ {0} = (Taken(Empty) \ {0}) \cup {s} /\ s \notin Taken(Empty) \ {0}
  BY <1>1
<1>5. Room' = Room + 1
  BY <1>4, TakenIsFinite, FS_AddElement DEF Room
<1>6. Held[e] > 0
  BY <1>1, CountsPositive DEF Held, Entries
<1> QED
  BY <1>3, <1>5, <1>6

-----------------------------------------------------------------------------
(* What the map sees of a return.                                          *)
LEMMA ReturnIsMapReturn ==
  ASSUME TableInv, pc # "idle", NEW r, Return(r)
  PROVE  /\ Map!Return /\ result' = r
         /\ call \in Map!Calls /\ call.key \in Keys
         /\ table # NoTable /\ table \in [Slots -> {Empty} \cup Entries]
BY CallIs, Numbers DEF TableInv, CallOK, Return, Map!Return

(* Nothing is refused while a slot is free: every slot but the 0th has     *)
(* been looked at when the count runs out.                                 *)
LEMMA RefusalIsFull ==
  ASSUME TableInv, AddProbe, step_counter + 1 >= table_size
  PROVE  Room = 0
<1>1. pc = "add" /\ table[probe_counter] # Empty /\ table # NoTable
  BY DEF AddProbe, TableInv, CallOK
<1>2. ~Straight /\ step_counter = table_size - Home + probe_counter
  BY <1>1, Numbers DEF TableInv, CallOK, Straight, Wrapped
<1>3. Behind = Home..(table_size - 1) \cup 1..(probe_counter - 1)
  BY <1>2 DEF Behind
<1>4. \A s \in Slots \ {0} : s \in Behind \cup {probe_counter}
  BY <1>1, <1>2, <1>3, Numbers DEF Slots
<1>5. \A s \in Slots \ {0} : table[s] # Empty
  BY <1>1, <1>4 DEF TableInv, AddInv
<1>6. Taken(Empty) \ {0} = {}
  BY <1>5 DEF Taken
<1> QED
  BY <1>6, CountsPositive DEF Room

(* A key that is not found is not there: the search was over every slot.   *)
LEMMA AbsenceIsTrue ==
  ASSUME TableInv, SeekFails, NEW v \in Values
  PROVE  ~Map!Present(v)
<1>1. pc = "seek" /\ step_counter >= table_size /\ call.key \in Keys /\ table # NoTable
  BY Numbers DEF SeekFails, TableInv, CallOK
<1>2. ~Straight /\ step_counter = table_size - Home + probe_counter
  BY <1>1, Numbers DEF TableInv, CallOK, Straight, Wrapped
<1>3. Behind = Home..(table_size - 1) \cup 1..(probe_counter - 1)
  BY <1>2 DEF Behind
<1>4. \A s \in Slots \ {0} : s \in Behind \cup {probe_counter}
  BY <1>1, <1>2, <1>3, Numbers DEF Slots
<1>5. \A s \in Slots \ {0} : ~HasKey(s, call.key)
  BY <1>1, <1>4 DEF TableInv, SeekInv
<1>6. Taken(<<call.key, v>>) = {}
  <2>1. <<call.key, v>> \in Keys \X Values /\ <<call.key, v>> # Empty
    BY <1>1, HashAssumption
  <2>2. ASSUME NEW s \in Slots, table[s] = <<call.key, v>> PROVE FALSE
    <3>1. s # 0
      BY <1>1, <2>1, <2>2, Numbers
    <3> QED
      BY <1>5, <2>1, <2>2, <3>1 DEF HasKey
  <2> QED
    BY <1>1, <2>2 DEF Taken
<1>7. Held[<<call.key, v>>] = 0
  <2>1. <<call.key, v>> \in Keys \X Values
    BY <1>1
  <2>2. Cardinality(Taken(<<call.key, v>>)) = 0
    BY <1>6, CountsPositive
  <2> QED
    BY <2>1, <2>2 DEF Held
<1>8. ~(Held[<<call.key, v>>] > 0)
  BY <1>7
<1> QED
  BY <1>8 DEF Map!Present

LEMMA FoundIsPresent ==
  ASSUME TableInv, pc \in {"home", "seek"}, NEW s \in Slots \ {0}, HasKey(s, call.key)
  PROVE  /\ table[s] \in Entries /\ table[s][2] \in Values
         /\ table[s] = <<call.key, table[s][2]>>
         /\ Map!Present(table[s][2])
<1>1. table[s] \in Entries /\ table # NoTable
  BY Numbers DEF TableInv, CallOK, HasKey
<1>2. table[s][2] \in Values /\ table[s] = <<call.key, table[s][2]>>
  BY <1>1 DEF HasKey, Entries
<1>3. s \in Taken(table[s])
  BY <1>1 DEF Taken
<1>4. Held[table[s]] > 0
  BY <1>1, <1>3, CountsPositive DEF Held, Entries
<1> QED
  BY <1>1, <1>2, <1>4 DEF Map!Present

LEMMA DeliverIsMapStep ==
  ASSUME TableInv, pc \in {"home", "seek"}, NEW s \in Slots \ {0},
         HasKey(s, call.key), Deliver(s)
  PROVE  Map!Fetch \/ Map!Remove
<1>1. call.op \in {"fetch", "remove"} /\ table # NoTable
  BY CallIs DEF TableInv, CallOK
<1>2. CASE call.op = "fetch"
  <2>1. Return(table[s][2]) /\ UNCHANGED table
    BY <1>2 DEF Deliver
  <2>2. UNCHANGED <<Held, Room>>
    BY <2>1 DEF Held, Room, Taken, Slots, table_size
  <2>3. Map!Return /\ result' = table[s][2]
    BY <2>1, ReturnIsMapReturn
  <2> QED
    BY <1>2, <2>2, <2>3, FoundIsPresent DEF Map!Fetch
<1>3. CASE call.op = "remove"
  <2>1. Return("ok") /\ table' = [table EXCEPT ![s] = Empty]
    BY <1>3 DEF Deliver
  <2>2. table' # NoTable
    BY <1>1, <2>1, HashAssumption DEF TableInv, TypeOK, Slots, table_size
  <2>3. Held' = [Held EXCEPT ![table[s]] = @ - 1] /\ Room' = Room + 1
    BY <1>1, <2>1, <2>2, ClearCounts, FoundIsPresent DEF TableInv
  <2>4. Map!Return /\ result' = "ok"
    BY <2>1, ReturnIsMapReturn
  <2>5. Held' = [Held EXCEPT ![<<call.key, table[s][2]>>] = @ - 1]
    BY <2>3, FoundIsPresent
  <2> QED
    BY <1>3, <2>3, <2>4, <2>5, FoundIsPresent DEF Map!Remove
<1> QED
  BY <1>1, <1>2, <1>3

LEMMA AddIsMapStep ==
  ASSUME TableInv, AddProbe \/ AddStore
  PROVE  Map!Add \/ UNCHANGED <<Held, Room, call, result>>
<1>1. pc = "add" /\ call.op = "add" /\ table # NoTable
  BY DEF AddProbe, AddStore, TableInv, CallOK
<1>2. ASSUME UNCHANGED table PROVE UNCHANGED <<Held, Room>>
  BY <1>2 DEF Held, Room, Taken, Slots, table_size
<1>3. CASE AddProbe /\ step_counter + 1 >= table_size
  <2>1. Return("full") /\ UNCHANGED table
    BY <1>3 DEF AddProbe
  <2> QED
    BY <1>1, <1>2, <1>3, <2>1, RefusalIsFull, ReturnIsMapReturn DEF Map!Add
<1>4. CASE AddProbe /\ ~(step_counter + 1 >= table_size)
  BY <1>2, <1>4 DEF AddProbe
<1>5. CASE AddStore /\ Return("no_memory") /\ UNCHANGED table
  BY <1>1, <1>2, <1>5, ReturnIsMapReturn DEF Map!Add
<1>6. CASE /\ AddStore /\ Return("ok")
           /\ table' = [table EXCEPT ![probe_counter] = <<call.key, call.value>>]
  <2>1. probe_counter \in Slots \ {0} /\ table[probe_counter] = Empty
    BY <1>1, <1>6, Numbers DEF AddStore
  <2>2. <<call.key, call.value>> \in Entries
    BY <1>1, CallIs DEF TableInv, CallOK, Entries
  <2>3. table' # NoTable
    BY <1>1, <1>6, <2>2, HashAssumption DEF TableInv, TypeOK, Slots, table_size, Entries
  <2>4. Held' = [Held EXCEPT ![<<call.key, call.value>>] = @ + 1] /\ Room > 0 /\ Room' = Room - 1
    BY <1>1, <1>6, <2>1, <2>2, <2>3, StoreCounts DEF TableInv
  <2> QED
    BY <1>1, <1>6, <2>4, ReturnIsMapReturn DEF Map!Add
<1> QED
  BY <1>3, <1>4, <1>5, <1>6 DEF AddStore

LEMMA SeekIsMapStep ==
  ASSUME TableInv, TryHome \/ SeekStep \/ SeekFails
  PROVE  [Map!Next]_<<Held, Room, call, result>>
<1>1. ASSUME UNCHANGED table PROVE UNCHANGED <<Held, Room>>
  BY <1>1 DEF Held, Room, Taken, Slots, table_size
<1>2. CASE TryHome
  <2>1. pc = "home" /\ probe_counter \in Slots \ {0}
    BY <1>2, Numbers DEF TryHome
  <2>2. CASE HasKey(probe_counter, call.key)
    BY <1>2, <2>1, <2>2, DeliverIsMapStep DEF TryHome, Map!Next
  <2>3. CASE ~HasKey(probe_counter, call.key)
    BY <1>1, <1>2, <2>3 DEF TryHome
  <2> QED
    BY <2>2, <2>3
<1>3. CASE SeekStep
  <2>1. SeekSlot \in Slots \ {0} /\ pc = "seek"
    BY <1>3, SeekSlotIs DEF SeekStep
  <2>2. CASE HasKey(SeekSlot, call.key)
    BY <1>3, <2>1, <2>2, DeliverIsMapStep DEF SeekStep, Map!Next
  <2>3. CASE ~HasKey(SeekSlot, call.key)
    BY <1>1, <1>3, <2>3 DEF SeekStep
  <2> QED
    BY <2>2, <2>3
<1>4. CASE SeekFails
  <2>1. pc = "seek" /\ Return("absent") /\ UNCHANGED table
    BY <1>4 DEF SeekFails
  <2>2. call.op # "add"
    BY <2>1 DEF TableInv, CallOK
  <2>3. Map!Absent
    BY <1>1, <1>4, <2>1, <2>2, AbsenceIsTrue, ReturnIsMapReturn DEF Map!Absent
  <2> QED
    BY <2>3 DEF Map!Next
<1> QED
  BY <1>2, <1>3, <1>4

LEMMA AllocateIsMapStep ==
  ASSUME TableInv, HashAllocate
  PROVE  Map!Allocate
<1>1. /\ table = NoTable /\ call = NoCall /\ table' = [s \in Slots |-> Empty]
      /\ UNCHANGED <<call, result>>
  BY DEF HashAllocate, Ready, TableInv, CallOK
<1>2. \A p : Taken(p) = {}
  BY <1>1 DEF Taken
<1>3. (\A p \in Entries : Held[p] = 0) /\ Room = 0
  BY <1>2, FS_EmptySet DEF Held, Room, Entries
<1>4. table' # NoTable
  BY <1>1, HashAssumption DEF Slots, table_size
<1>5. /\ Taken(Empty)' \ {0} = 1..(table_size - 1)
      /\ \A p \in Entries : Taken(p)' = {}
  BY <1>1, <1>4, Sizes, HashAssumption DEF Taken, Slots, Entries, table_size
<1>6. Room' = table_size - 1
  <2>1. Cardinality(1..(table_size - 1)) = table_size - 1
    BY Sizes, FS_Interval
  <2> QED
    BY <1>5, <2>1 DEF Room
<1>7. Held' = Held
  BY <1>2, <1>5 DEF Held, Entries
<1> QED
  BY <1>1, <1>3, <1>6, <1>7 DEF Map!Allocate, Entries

LEMMA StepIsMapStep ==
  TableInv /\ [Next]_vars => [Map!Next]_<<Held, Room, call, result>>
<1> SUFFICES ASSUME TableInv, [Next]_vars PROVE [Map!Next]_<<Held, Room, call, result>>
  OBVIOUS
<1>1. ASSUME UNCHANGED table PROVE UNCHANGED <<Held, Room>>
  BY <1>1 DEF Held, Room, Taken, Slots, table_size
<1>2. CASE HashAllocate
  BY <1>2, AllocateIsMapStep DEF Map!Next
<1>3. CASE HashFree \/ UNCHANGED vars
  BY <1>1, <1>3 DEF HashFree, vars
<1>4. CASE HashAddEntry \/ HashFetchEntry \/ HashRemoveEntry
  BY <1>1, <1>4, CallsKeep DEF Map!Next, Map!Invoke
<1>5. CASE AddProbe \/ AddStore
  BY <1>5, AddIsMapStep DEF Map!Next
<1>6. CASE TryHome \/ SeekStep \/ SeekFails
  BY <1>6, SeekIsMapStep
<1> QED
  BY <1>2, <1>3, <1>4, <1>5, <1>6 DEF Next, Step

(* The open-addressing table is a bounded bag, with any hash function, any *)
(* collisions and any holes that removals leave: an addition is refused    *)
(* only when every slot but the 0th is taken, a key that is held is found, *)
(* and one that is not is reported absent (hash_tools.c:11-318).           *)
THEOREM TableIsMultiMap == Spec => ImplementsMultiMap
<1>1. Init => Map!Init
  <2> SUFFICES ASSUME Init PROVE Map!Init
    OBVIOUS
  <2>1. \A p : Taken(p) = {}
    BY DEF Init, Taken
  <2> QED
    BY <2>1, FS_EmptySet DEF Init, Map!Init, Held, Room
<1> QED
  BY <1>1, Invariance, StepIsMapStep, PTL DEF Spec, ImplementsMultiMap, Map!Spec
=============================================================================
