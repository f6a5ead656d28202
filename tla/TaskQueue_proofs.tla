--------------------------- MODULE TaskQueue_proofs ---------------------------
(***************************************************************************)
(* Proofs about TaskQueue, for every set of addresses and descriptors and  *)
(* either kind of allocator.  IInv is the inductive invariant: the type    *)
(* invariant, the shape of the list, and the absence of stray stores under *)
(* a sparing allocator.                                                    *)
(***************************************************************************)
EXTENDS TaskQueue, SequenceTheorems, TLAPS

IInv == TypeOK /\ ListInv /\ SparedTailNeverFaults

-----------------------------------------------------------------------------
(* What Append does to the list of nodes.                                  *)
LEMMA AppendNode ==
  ASSUME NEW s \in Seq(Node), NEW a \in Node
  PROVE  /\ Append(s, a) \in Seq(Node)
         /\ Len(Append(s, a)) = Len(s) + 1
         /\ \A i \in 1..Len(s) : Append(s, a)[i] = s[i]
         /\ Append(s, a)[Len(s) + 1] = a
OBVIOUS

(* What Tail does to the list of nodes.                                    *)
LEMMA TailNodes ==
  ASSUME NEW s \in Seq(Node), s # <<>>
  PROVE  /\ Tail(s) \in Seq(Node)
         /\ Len(s) \in Nat \ {0}
         /\ Len(Tail(s)) = Len(s) - 1
         /\ \A i \in 1..(Len(s) - 1) : Tail(s)[i] = s[i + 1]
OBVIOUS

(* Every position of the list is an allocated block.                       *)
LEMMA PositionsAreLive ==
  ASSUME TypeOK, NodesAreLive
  PROVE  /\ Len(order) \in Nat
         /\ \A i \in 0..Len(order) : At(i) \in live
         /\ \A i, j \in 0..Len(order) : At(i) = At(j) => i = j
         /\ \A i \in 1..Len(order) : At(i) = order[i] /\ order[i] \in Node
         /\ At(0) = QueueHead
BY AddrAssumption DEF TypeOK, NodesAreLive, At, Position, Node

(* When *queue_tail is an allocated node it is the last one, whatever      *)
(* calloc has zeroed outside the list meanwhile.                           *)
LEMMA TailNodeIsLast ==
  ASSUME TypeOK, ListInv, ~fault,
         NEW n \in [Addr -> Addr \cup {Null, Garbage}],
         \A b \in Addr : b \in live => n[b] = next[b],
         \A b \in Addr : n[b] \in {next[b], Null},
         TailNode(n) \in live
  PROVE  TailNode(n) = At(Len(order))
<1>0. NodesAreLive /\ ChainFollowsOrder /\ TailTracksLast
  BY DEF ListInv
<1>1. Null \notin live /\ Garbage \notin live
  BY AddrAssumption DEF TypeOK
<1>2. CASE Len(order) = 0
  BY <1>0, <1>2 DEF TailTracksLast, TailNode, At, Position
<1>3. CASE Len(order) > 1
  <2>1. Len(order) - 1 \in 0..Len(order) /\ Len(order) - 1 # Len(order)
    BY <1>3 DEF TypeOK
  <2>2. queue_tail = At(Len(order) - 1) /\ queue_tail \in live
    BY <1>0, <1>3, <2>1, PositionsAreLive DEF TailTracksLast
  <2>3. next[queue_tail] = At(Len(order))
    BY <1>0, <2>1, <2>2, PositionsAreLive DEF ChainFollowsOrder
  <2>4. queue_tail # Root /\ queue_tail \in Addr
    BY <2>2, AddrAssumption DEF TypeOK
  <2> QED
    BY <2>2, <2>3, <2>4 DEF TailNode
<1>4. CASE Len(order) = 1
  <2>1. next[QueueHead] = At(1) /\ QueueHead \in live
    BY <1>0, <1>4, PositionsAreLive DEF ChainFollowsOrder
  <2>2. CASE queue_tail = QueueHead
    BY <1>4, <2>1, <2>2, AddrAssumption DEF TailNode, TypeOK
  <2>3. CASE queue_tail \in Addr \ live /\ next[queue_tail] \in {At(1), Garbage}
    BY <1>1, <1>4, <2>3, AddrAssumption DEF TailNode
  <2> QED
    BY <1>0, <1>4, <2>2, <2>3 DEF TailTracksLast
<1>5. Len(order) = 0 \/ Len(order) = 1 \/ Len(order) > 1
  <2>1. Len(order) \in Nat
    BY DEF TypeOK
  <2> QED
    BY <2>1
<1> QED
  BY <1>2, <1>3, <1>4, <1>5, Zenon

-----------------------------------------------------------------------------
(* The empty list of init_thread_handler satisfies the invariant.          *)
LEMMA InitEstablishes == Init => IInv
<1> SUFFICES ASSUME Init PROVE IInv
  OBVIOUS
<1> USE AddrAssumption
<1>1. TypeOK
  <2>1. order \in Seq(Node)
    BY DEF Init
  <2>2. /\ next \in [Addr -> Addr \cup {Null, Garbage}]
        /\ previous \in [Addr -> Addr \cup {Null}]
        /\ socket_descriptor \in [Addr -> Descriptors \cup {NoTask}]
    BY DEF Init
  <2>3. /\ live \in SUBSET Addr /\ queue_tail \in Addr \cup {Root}
        /\ result \in Descriptors \cup {NoTask} /\ num_connections \in Int
    BY DEF Init
  <2>4. fault \in BOOLEAN
    BY DEF Init
  <2>5. tail_spared \in BOOLEAN
    BY DEF Init
  <2> QED
    BY <2>1, <2>2, <2>3, <2>4, <2>5 DEF TypeOK
<1>2. ListInv
  <2>1. Len(order) = 0 /\ At(0) = QueueHead
    BY DEF Init, At, Position
  <2> QED
    BY <2>1 DEF Init, ListInv, NodesAreLive, ChainFollowsOrder, TailTracksLast
<1>3. SparedTailNeverFaults
  BY DEF Init, SparedTailNeverFaults
<1> QED
  BY <1>1, <1>2, <1>3 DEF IInv

(* A stray store leaves the list as it is, but its shape is no longer      *)
(* promised.                                                               *)
LEMMA FaultKeeps ==
  ASSUME TypeOK, Fault, tail_spared' = tail_spared
  PROVE  TypeOK' /\ ListInv'
BY DEF TypeOK, Fault, ListInv

(* A successful enqueue links the new node behind the last one.            *)
LEMMA EnqueueKeeps ==
  ASSUME IInv, NEW a \in Addr, NEW d \in Descriptors, EnqueueTask(a, d),
         tail_spared' = tail_spared
  PROVE  TypeOK' /\ ListInv'
<1> DEFINE zeroed == [next EXCEPT ![a] = Null]
           last   == TailNode(zeroed)
           k      == Len(order)
<1>0. TypeOK /\ ListInv /\ ~fault /\ a \notin live
  BY DEF IInv, EnqueueTask, Blocks
<1>1. CASE last \notin live
  <2>1. Fault
    BY <1>1 DEF EnqueueTask
  <2> QED
    BY <1>0, <2>1, FaultKeeps
<1>2. CASE last \in live
  <2>1. /\ next' = [zeroed EXCEPT ![last] = a]
        /\ previous' = [previous EXCEPT ![a] = last]
        /\ socket_descriptor' = [socket_descriptor EXCEPT ![a] = d]
        /\ live' = live \cup {a}
        /\ queue_tail' = last
        /\ num_connections' = num_connections + 1
        /\ order' = Append(order, a)
        /\ fault' = fault /\ result' = result
    BY <1>2 DEF EnqueueTask
  <2>2. NodesAreLive /\ ChainFollowsOrder /\ TailTracksLast
    BY <1>0 DEF ListInv
  <2>3. /\ k \in Nat
        /\ \A i \in 0..k : At(i) \in live
        /\ \A i, j \in 0..k : At(i) = At(j) => i = j
        /\ \A i \in 1..k : At(i) = order[i] /\ order[i] \in Node
        /\ At(0) = QueueHead
    BY <1>0, <2>2, PositionsAreLive
  <2>4. a \in Node
    BY <1>0, <2>3 DEF Node
  <2>5. last = At(k)
    <3>1. zeroed \in [Addr -> Addr \cup {Null, Garbage}]
      BY <1>0 DEF TypeOK
    <3>2. \A b \in Addr : b \in live => zeroed[b] = next[b]
      BY <1>0 DEF TypeOK
    <3>3. \A b \in Addr : zeroed[b] \in {next[b], Null}
      BY <1>0 DEF TypeOK
    <3> QED
      BY <1>0, <1>2, <3>1, <3>2, <3>3, TailNodeIsLast
  <2>6. /\ order' \in Seq(Node)
        /\ Len(order') = k + 1
        /\ \A i \in 1..k : order'[i] = order[i]
        /\ order'[k + 1] = a
    BY <1>0, <2>1, <2>4, AppendNode DEF TypeOK
  <2>7. TypeOK'
    BY <1>0, <1>2, <2>1, <2>6, AddrAssumption DEF TypeOK
  <2>8. \A i \in 0..k : Position(order', i) = At(i)
    BY <2>3, <2>6 DEF At, Position
  <2>9. Position(order', k + 1) = a
    BY <2>3, <2>6 DEF Position
  <2>10. NodesAreLive'
    BY <1>0, <2>1, <2>2, <2>3, <2>6 DEF NodesAreLive
  <2>11. ChainFollowsOrder'
    <3>1. /\ next'[last] = a /\ next'[a] = Null
          /\ \A b \in live : b # last => next'[b] = next[b]
      BY <1>0, <1>2, <2>1 DEF TypeOK
    <3>2. /\ previous'[a] = last
          /\ \A b \in live : previous'[b] = previous[b]
      BY <1>0, <2>1 DEF TypeOK
    <3>3. \A i \in 0..(k + 1) :
            next'[Position(order', i)] =
              IF i = k + 1 THEN Null ELSE Position(order', i + 1)
      <4> TAKE i \in 0..(k + 1)
      <4>1. CASE i = k + 1
        BY <2>9, <3>1, <4>1
      <4>2. CASE i = k
        BY <2>3, <2>5, <2>8, <2>9, <3>1, <4>2
      <4>3. CASE i < k
        <5>1. i \in 0..k /\ i + 1 \in 0..k /\ i # k /\ k \in 0..k
          BY <2>3, <4>3
        <5>2. At(i) # last /\ next[At(i)] = At(i + 1)
          BY <2>2, <2>3, <2>5, <5>1 DEF ChainFollowsOrder
        <5> QED
          BY <2>3, <2>8, <3>1, <4>3, <5>1, <5>2
      <4> QED
        BY <2>3, <4>1, <4>2, <4>3
    <3>4. \A i \in 1..(k + 1) :
            previous'[Position(order', i)] = Position(order', i - 1)
      BY <2>2, <2>3, <2>5, <2>8, <2>9, <3>2 DEF ChainFollowsOrder
    <3>5. num_connections' = k + 1
      BY <2>1, <2>2 DEF ChainFollowsOrder
    <3> QED
      BY <2>6, <3>3, <3>4, <3>5 DEF ChainFollowsOrder, At
  <2>12. TailTracksLast'
    BY <2>1, <2>3, <2>5, <2>6, <2>8 DEF TailTracksLast, At
  <2> QED
    BY <2>7, <2>10, <2>11, <2>12 DEF ListInv
<1> QED
  BY <1>1, <1>2

(* A pull unlinks the oldest node; a list of one whose queue_tail is stale *)
(* and overwritten stops at the store through its NULL link.               *)
LEMMA PullKeeps ==
  ASSUME IInv, PullTask,
         tail_spared' = tail_spared
  PROVE  TypeOK' /\ ListInv'
<1> DEFINE task == next[QueueHead]
           rest == next[task]
           k    == Len(order)
<1>0. TypeOK /\ ListInv /\ ~fault /\ task # Null
  BY DEF IInv, PullTask
<1>1. NodesAreLive /\ ChainFollowsOrder /\ TailTracksLast
  BY <1>0 DEF ListInv
<1>2. /\ k \in Nat
      /\ \A i \in 0..k : At(i) \in live
      /\ \A i, j \in 0..k : At(i) = At(j) => i = j
      /\ \A i \in 1..k : At(i) = order[i] /\ order[i] \in Node
      /\ At(0) = QueueHead
  BY <1>0, <1>1, PositionsAreLive
<1>10. k \in Nat
  BY <1>2
<1>3. k > 0 /\ task = At(1) /\ task \in Addr
  <2>1. k # 0
    BY <1>0, <1>1, <1>2 DEF ChainFollowsOrder
  <2> QED
    BY <1>1, <1>2, <2>1 DEF ChainFollowsOrder, Node
<1>4. rest = IF k = 1 THEN Null ELSE At(2)
  BY <1>1, <1>2, <1>3 DEF ChainFollowsOrder
<1>5. /\ order # <<>>
      /\ Tail(order) \in Seq(Node)
      /\ Len(Tail(order)) = k - 1
      /\ \A i \in 1..(k - 1) : Tail(order)[i] = order[i + 1]
  <2>1. order # <<>> /\ order \in Seq(Node)
    BY <1>0, <1>3 DEF TypeOK
  <2> QED
    BY <2>1, TailNodes
<1>6. \A i \in 1..(k - 1) : Position(Tail(order), i) = At(i + 1)
  BY <1>2, <1>5 DEF At, Position
<1>7. Position(Tail(order), 0) = At(0)
  BY DEF At, Position
<1>8. CASE task # TailNode(next) /\ rest = Null
  <2>1. Fault
    BY <1>8 DEF PullTask
  <2> QED
    BY <1>0, <2>1, FaultKeeps
<1>9. CASE ~(task # TailNode(next) /\ rest = Null)
  <2>1. /\ live' = live \ {task}
        /\ num_connections' = num_connections - 1
        /\ result' = socket_descriptor[task]
        /\ order' = Tail(order)
        /\ socket_descriptor' = socket_descriptor /\ fault' = fault
    BY <1>9 DEF PullTask
  <2>2. IF task = TailNode(next)
          THEN /\ next' = [next EXCEPT ![QueueHead] = Null]
               /\ queue_tail' = Root /\ previous' = previous
          ELSE /\ next' = [next EXCEPT ![QueueHead] = rest]
               /\ previous' = [previous EXCEPT ![rest] = QueueHead]
               /\ queue_tail' = queue_tail
    BY <1>9 DEF PullTask
  <2>3. NodesAreLive'
    <3>1. \A i, j \in 1..Len(order') : order'[i] = order'[j] => i = j
      BY <1>1, <1>2, <1>5, <2>1 DEF NodesAreLive
    <3>2. live' = {QueueHead} \cup {order'[i] : i \in 1..Len(order')}
      <4>1. \A i \in 1..(k - 1) : order'[i] = order[i + 1]
        BY <1>5, <2>1
      <4>2. {order'[i] : i \in 1..(k - 1)} = {order[i] : i \in 2..k}
        <5>1. \A i \in 2..k : i - 1 \in 1..(k - 1) /\ order'[i - 1] = order[i]
          BY <1>2, <4>1
        <5>2. \A i \in 1..(k - 1) : i + 1 \in 2..k
          BY <1>2
        <5>3. ASSUME NEW i \in 1..(k - 1)
              PROVE  order'[i] \in {order[j] : j \in 2..k}
          BY <4>1, <5>2
        <5>4. ASSUME NEW j \in 2..k
              PROVE  order[j] \in {order'[i] : i \in 1..(k - 1)}
          BY <5>1
        <5> QED
          BY <5>3, <5>4
      <4>3. live \ {task} = {QueueHead} \cup {order[i] : i \in 2..k}
        <5>1. task = order[1] /\ task # QueueHead
          BY <1>2, <1>3 DEF Node
        <5>2. \A i \in 2..k : order[i] # task
          BY <1>2, <1>1, <5>1 DEF NodesAreLive
        <5>3. live = {QueueHead} \cup {order[i] : i \in 1..k}
          BY <1>1 DEF NodesAreLive
        <5>4. \A i \in 1..k : i = 1 \/ i \in 2..k
          BY <1>2
        <5> QED
          BY <5>1, <5>2, <5>3, <5>4, <1>2
      <4> QED
        BY <1>5, <2>1, <4>2, <4>3
    <3> QED
      BY <3>1, <3>2 DEF NodesAreLive
  <2>4. k = 1 => task = TailNode(next)
    BY <1>4, <1>9
  <2>5. k > 1 => task # TailNode(next)
    <3> SUFFICES ASSUME k > 1 PROVE task # TailNode(next)
      OBVIOUS
    <3>1. k - 1 \in 0..k /\ k - 1 # k /\ k \in 0..k /\ 1 \in 0..k
      BY <1>2
    <3>2. queue_tail = At(k - 1) /\ queue_tail # Root
      BY <1>0, <1>1, <1>2, <3>1, AddrAssumption DEF TailTracksLast, TypeOK
    <3>3. TailNode(next) = At(k)
      BY <1>1, <1>2, <3>1, <3>2 DEF TailNode, ChainFollowsOrder
    <3> QED
      BY <1>2, <1>3, <3>1, <3>3
  <2>6. CASE k = 1
    <3>1. order' = <<>> /\ Len(order') = 0
      BY <1>5, <2>1, <2>6
    <3>2. next' = [next EXCEPT ![QueueHead] = Null] /\ queue_tail' = Root
          /\ previous' = previous
      BY <2>2, <2>4, <2>6
    <3>3. TypeOK'
      BY <1>0, <1>3, <2>1, <3>2, <1>5, AddrAssumption DEF TypeOK
    <3>4. ChainFollowsOrder'
      <4>1. num_connections' = 0
        BY <1>1, <2>1, <2>6 DEF ChainFollowsOrder
      <4>2. next'[At(0)'] = Null
        BY <1>0, <3>2, AddrAssumption DEF At, Position, TypeOK
      <4> QED
        BY <3>1, <4>1, <4>2 DEF ChainFollowsOrder
    <3>5. TailTracksLast'
      BY <3>1, <3>2 DEF TailTracksLast
    <3> QED
      BY <2>3, <3>3, <3>4, <3>5 DEF ListInv
  <2>7. CASE k > 1
    <3>1. /\ rest = At(2) /\ rest \in Addr /\ Len(order') = k - 1
          /\ 2 \in 0..k /\ 1 \in 0..k /\ 0 \in 0..k
      BY <1>2, <1>4, <1>5, <2>1, <2>7 DEF Node
    <3>2. /\ next' = [next EXCEPT ![QueueHead] = rest]
          /\ previous' = [previous EXCEPT ![rest] = QueueHead]
          /\ queue_tail' = queue_tail
      BY <2>2, <2>5, <2>7
    <3>3. TypeOK'
      BY <1>0, <1>3, <2>1, <3>1, <3>2, <1>5, AddrAssumption DEF TypeOK
    <3>4. \A b \in Addr : b # QueueHead => next'[b] = next[b]
      BY <1>0, <3>2 DEF TypeOK
    <3>5. \A b \in Addr : b # rest => previous'[b] = previous[b]
      BY <1>0, <3>2 DEF TypeOK
    <3>6. \A i \in 1..k : At(i) # QueueHead /\ At(i) \in Addr
      BY <1>2 DEF Node
    <3>7. ChainFollowsOrder'
      <4>1. next'[QueueHead] = rest /\ previous'[rest] = QueueHead
        BY <1>0, <3>1, <3>2, AddrAssumption DEF TypeOK
      <4>2. \A i \in 0..(k - 1) :
              next'[Position(order', i)] =
                IF i = k - 1 THEN Null ELSE Position(order', i + 1)
        <5> TAKE i \in 0..(k - 1)
        <5>1. CASE i = 0
          BY <1>2, <1>6, <1>7, <2>1, <2>7, <3>1, <4>1, <5>1
        <5>2. CASE i > 0
          <6>1. i + 1 \in 1..k /\ i \in 1..(k - 1)
            BY <1>2, <5>2
          <6>2. next'[At(i + 1)] = IF i + 1 = k THEN Null ELSE At(i + 1 + 1)
            BY <1>1, <3>4, <3>6, <6>1 DEF ChainFollowsOrder
          <6> QED
            BY <1>2, <1>6, <2>1, <6>1, <6>2
        <5> QED
          BY <1>2, <5>1, <5>2
      <4>3. \A i \in 1..(k - 1) :
              previous'[Position(order', i)] = Position(order', i - 1)
        <5> TAKE i \in 1..(k - 1)
        <5>1. CASE i = 1
          BY <1>2, <1>6, <1>7, <2>1, <3>1, <4>1, <5>1
        <5>2. CASE i > 1
          <6>1. i + 1 \in 1..k /\ i \in 1..k /\ i + 1 \in 0..k /\ i - 1 \in 1..(k - 1)
            BY <1>2, <5>2
          <6>2. At(i + 1) # rest
            BY <1>2, <3>1, <5>2, <6>1
          <6>3. previous'[At(i + 1)] = At(i)
            BY <1>1, <3>5, <3>6, <6>1, <6>2 DEF ChainFollowsOrder
          <6> QED
            BY <1>2, <1>6, <2>1, <6>1, <6>3
        <5> QED
          BY <1>2, <5>1, <5>2
      <4>4. num_connections' = k - 1
        BY <1>1, <2>1 DEF ChainFollowsOrder
      <4> QED
        BY <3>1, <4>2, <4>3, <4>4 DEF ChainFollowsOrder, At
    <3>8. TailTracksLast'
      <4>1. queue_tail' = At(k - 1)
        BY <1>1, <2>7, <3>2 DEF TailTracksLast
      <4>2. CASE k = 2
        <5>1. queue_tail' \in Addr \ live' /\ queue_tail' # QueueHead
          BY <1>3, <2>1, <3>6, <4>1, <4>2
        <5>2. next'[queue_tail'] = At(2)
          BY <1>3, <1>4, <3>1, <3>4, <4>1, <4>2, <5>1
        <5>3. Position(order', 1) = At(2)
          BY <1>6, <2>1, <4>2
        <5> QED
          BY <3>1, <4>2, <5>1, <5>2, <5>3 DEF TailTracksLast, At
      <4>3. CASE k > 2
        <5>1. Position(order', k - 2) = At(k - 1)
          BY <1>2, <1>6, <2>1, <4>3
        <5> QED
          BY <1>2, <3>1, <4>1, <4>3, <5>1 DEF TailTracksLast, At
      <4>4. \A n \in Nat : n > 1 => n = 2 \/ n > 2
        OBVIOUS
      <4> QED
        BY <1>10, <2>7, <4>2, <4>3, <4>4, Zenon
    <3> QED
      BY <2>3, <3>3, <3>7, <3>8 DEF ListInv
  <2>8. \A n \in Nat : n > 0 => n = 1 \/ n > 1
    OBVIOUS
  <2> QED
    BY <1>10, <1>3, <2>6, <2>7, <2>8, Zenon
<1> QED
  BY <1>8, <1>9

(* *queue_tail is the last node unless queue_tail is left in the freed     *)
(* block before a list of one, and even then while the block is untouched. *)
LEMMA TailNodeIsLive ==
  ASSUME TypeOK, ListInv, ~fault,
         NEW n \in [Addr -> Addr \cup {Null, Garbage}],
         \A b \in Addr : b \in live => n[b] = next[b],
         \/ ~(Dangling /\ Len(order) = 1)
         \/ tail_spared /\ (Dangling => n[queue_tail] = next[queue_tail])
  PROVE  TailNode(n) = At(Len(order)) /\ TailNode(n) \in live
<1> DEFINE k == Len(order)
<1>1. NodesAreLive /\ ChainFollowsOrder /\ TailTracksLast
  BY DEF ListInv
<1>2. /\ k \in Nat
      /\ \A i \in 0..k : At(i) \in live
      /\ \A i \in 1..k : At(i) = order[i] /\ order[i] \in Node
      /\ At(0) = QueueHead
  BY <1>1, PositionsAreLive
<1>3. k \in 0..k
  BY <1>2
<1>4. SUFFICES TailNode(n) = At(k)
  BY <1>2, <1>3
<1>5. CASE k = 0
  BY <1>1, <1>2, <1>5 DEF TailTracksLast, TailNode
<1>6. CASE k = 1
  <2>1. next[QueueHead] = At(1) /\ QueueHead \in live
    BY <1>1, <1>2, <1>6 DEF ChainFollowsOrder
  <2>2. CASE queue_tail = QueueHead
    BY <1>6, <2>1, <2>2, AddrAssumption DEF TailNode, TypeOK
  <2>3. CASE queue_tail \in Addr \ live
    <3>1. Dangling /\ queue_tail # Root
      BY <2>3, AddrAssumption DEF Dangling
    <3>2. tail_spared /\ n[queue_tail] = next[queue_tail]
      BY <1>6, <3>1
    <3>3. next[queue_tail] = At(1)
      BY <1>1, <1>6, <2>1, <2>3, <3>2 DEF TailTracksLast
    <3> QED
      BY <1>6, <3>1, <3>2, <3>3 DEF TailNode
  <2> QED
    BY <1>1, <1>6, <2>2, <2>3 DEF TailTracksLast
<1>7. CASE k > 1
  <2>1. k - 1 \in 0..k /\ k - 1 # k
    BY <1>2, <1>7
  <2>2. queue_tail = At(k - 1) /\ queue_tail \in live
    BY <1>1, <1>2, <1>7, <2>1 DEF TailTracksLast
  <2>3. next[queue_tail] = At(k)
    BY <1>1, <1>2, <2>1, <2>2 DEF ChainFollowsOrder
  <2> QED
    BY <2>2, <2>3, AddrAssumption DEF TypeOK, TailNode
<1>8. \A m \in Nat : m = 0 \/ m = 1 \/ m > 1
  OBVIOUS
<1> QED
  BY <1>2, <1>5, <1>6, <1>7, <1>8, Zenon

(* A store goes astray only from a list of one with a stale queue_tail,    *)
(* and never under a sparing allocator.                                    *)
LEMMA FaultNeedsStaleTail ==
  ASSUME IInv, ~fault, Next, fault'
  PROVE  Dangling /\ Len(order) = 1 /\ ~tail_spared
<1> DEFINE stale == Dangling /\ Len(order) = 1 /\ ~tail_spared
<1>0. TypeOK /\ ListInv
  BY DEF IInv
<1>1. ASSUME NEW a \in Addr, NEW d \in Descriptors, EnqueueTask(a, d)
      PROVE  stale
  <2> DEFINE zeroed == [next EXCEPT ![a] = Null]
  <2>1. TailNode(zeroed) \notin live
    BY <1>1 DEF EnqueueTask
  <2>2. zeroed \in [Addr -> Addr \cup {Null, Garbage}]
    BY <1>0 DEF TypeOK
  <2>3. \A b \in Addr : b # a => zeroed[b] = next[b]
    BY <1>0 DEF TypeOK
  <2>4. a \notin live /\ (tail_spared => a # queue_tail)
    BY <1>1 DEF EnqueueTask, Blocks
  <2>5. tail_spared => (Dangling => zeroed[queue_tail] = next[queue_tail])
    BY <1>0, <2>3, <2>4 DEF TypeOK, Dangling
  <2>6. \A b \in Addr : b \in live => zeroed[b] = next[b]
    BY <2>3, <2>4
  <2> HIDE DEF zeroed
  <2> QED
    BY <1>0, <2>1, <2>2, <2>5, <2>6, TailNodeIsLive
<1>2. ASSUME EnqueueTaskFails \/ PullTask
      PROVE  stale
  <2>1. ~stale => TailNode(next) = At(Len(order)) /\ TailNode(next) \in live
    BY <1>0, TailNodeIsLive DEF TypeOK
  <2>2. CASE EnqueueTaskFails
    BY <2>1, <2>2 DEF EnqueueTaskFails
  <2>3. CASE PullTask
    <3> DEFINE task == next[QueueHead]
    <3>1. task # TailNode(next) /\ next[task] = Null /\ task # Null
      BY <2>3 DEF PullTask
    <3>2. NodesAreLive /\ ChainFollowsOrder
      BY <1>0 DEF ListInv
    <3>3. /\ Len(order) \in Nat /\ At(0) = QueueHead
          /\ \A i \in 0..Len(order) : At(i) \in live
      BY <1>0, <3>2, PositionsAreLive
    <3>4. Len(order) # 0 /\ task = At(1)
      BY <3>1, <3>2, <3>3 DEF ChainFollowsOrder
    <3>5. Len(order) = 1
      <4>1. 1 \in 0..Len(order)
        BY <3>3, <3>4
      <4>2. Len(order) # 1 => 2 \in 0..Len(order) /\ next[At(1)] = At(2)
        BY <3>2, <3>3, <3>4, <4>1 DEF ChainFollowsOrder
      <4> QED
        BY <1>0, <3>1, <3>3, <3>4, <4>2, AddrAssumption DEF TypeOK
    <3> QED
      BY <2>1, <3>1, <3>4, <3>5
  <2> QED
    BY <1>2, <2>2, <2>3
<1>3. ASSUME PullNothing \/ OverwriteFreed
      PROVE  FALSE
  BY <1>3 DEF PullNothing, OverwriteFreed
<1> QED
  BY <1>1, <1>2, <1>3 DEF Next

(* A failed enqueue rewrites the NULL that already ends the list.          *)
LEMMA EnqueueFailsKeeps ==
  ASSUME IInv, EnqueueTaskFails,
         tail_spared' = tail_spared
  PROVE  TypeOK' /\ ListInv'
<1>0. TypeOK /\ ListInv /\ ~fault
  BY DEF IInv, EnqueueTaskFails
<1>1. CASE TailNode(next) \notin live
  BY <1>0, <1>1, FaultKeeps DEF EnqueueTaskFails
<1>2. CASE TailNode(next) \in live
  <2>1. NodesAreLive /\ ChainFollowsOrder /\ TailTracksLast
    BY <1>0 DEF ListInv
  <2>2. TailNode(next) = At(Len(order))
    BY <1>0, <1>2, TailNodeIsLast DEF TypeOK
  <2>3. Len(order) \in 0..Len(order)
    BY <1>0 DEF TypeOK
  <2>4. next[At(Len(order))] = Null
    BY <2>1, <2>3 DEF ChainFollowsOrder
  <2>5. next' = next
    BY <1>0, <1>2, <2>2, <2>4 DEF EnqueueTaskFails, TypeOK
  <2>6. /\ previous' = previous /\ socket_descriptor' = socket_descriptor
        /\ live' = live /\ queue_tail' = queue_tail
        /\ num_connections' = num_connections /\ fault' = fault
        /\ result' = result /\ order' = order
    BY <1>2 DEF EnqueueTaskFails
  <2> QED
    BY <1>0, <2>5, <2>6 DEF TypeOK, ListInv, NodesAreLive,
       ChainFollowsOrder, TailTracksLast, At, Position
<1> QED
  BY <1>1, <1>2

(* Overwriting the stale block touches no node of the list.                *)
LEMMA OverwriteKeeps ==
  ASSUME IInv, OverwriteFreed,
         tail_spared' = tail_spared
  PROVE  TypeOK' /\ ListInv'
<1>0. TypeOK /\ ListInv /\ ~fault
  BY DEF IInv, OverwriteFreed
<1>1. NodesAreLive /\ ChainFollowsOrder /\ TailTracksLast
  BY <1>0 DEF ListInv
<1>2. /\ Len(order) \in Nat
      /\ \A i \in 0..Len(order) : At(i) \in live
  BY <1>0, <1>1, PositionsAreLive
<1>3. /\ queue_tail \in Addr \ live /\ ~tail_spared
      /\ next' = [next EXCEPT ![queue_tail] = Garbage]
      /\ previous' = previous /\ socket_descriptor' = socket_descriptor
      /\ live' = live /\ queue_tail' = queue_tail
      /\ num_connections' = num_connections /\ fault' = fault
      /\ result' = result /\ order' = order
  BY <1>0 DEF OverwriteFreed, Dangling, TypeOK
<1>4. next'[queue_tail] = Garbage /\ \A b \in live : next'[b] = next[b]
  BY <1>0, <1>3 DEF TypeOK
<1>5. TypeOK'
  BY <1>0, <1>3 DEF TypeOK
<1>6. NodesAreLive'
  BY <1>1, <1>3 DEF NodesAreLive
<1>7. ChainFollowsOrder'
  BY <1>1, <1>2, <1>3, <1>4 DEF ChainFollowsOrder, At, Position
<1>8. TailTracksLast'
  BY <1>1, <1>3, <1>4 DEF TailTracksLast, At, Position
<1> QED
  BY <1>5, <1>6, <1>7, <1>8 DEF ListInv

-----------------------------------------------------------------------------
(* IInv is inductive.                                                      *)
LEMMA StepKeeps == IInv /\ [Next]_vars => IInv'
<1> SUFFICES ASSUME IInv, [Next]_vars PROVE IInv'
  OBVIOUS
<1>0. tail_spared' = tail_spared
  BY DEF Next, vars
<1>1. TypeOK' /\ ListInv'
  <2>1. ASSUME NEW a \in Addr, NEW d \in Descriptors, EnqueueTask(a, d)
        PROVE  TypeOK' /\ ListInv'
    BY <1>0, <2>1, EnqueueKeeps
  <2>2. CASE EnqueueTaskFails
    BY <1>0, <2>2, EnqueueFailsKeeps
  <2>3. CASE PullNothing
    BY <1>0, <2>3 DEF IInv, PullNothing, TypeOK, ListInv, NodesAreLive,
       ChainFollowsOrder, TailTracksLast, At, Position
  <2>4. CASE PullTask
    BY <1>0, <2>4, PullKeeps
  <2>5. CASE OverwriteFreed
    BY <1>0, <2>5, OverwriteKeeps
  <2>6. CASE UNCHANGED vars
    BY <2>6 DEF IInv, vars, TypeOK, ListInv, NodesAreLive,
       ChainFollowsOrder, TailTracksLast, At, Position
  <2> QED
    BY <2>1, <2>2, <2>3, <2>4, <2>5, <2>6 DEF Next
<1>2. SparedTailNeverFaults'
  <2>1. CASE fault
    BY <1>0, <2>1 DEF IInv, SparedTailNeverFaults
  <2>2. CASE ~fault /\ Next
    BY <1>0, <2>2, FaultNeedsStaleTail DEF SparedTailNeverFaults
  <2>3. CASE UNCHANGED vars
    BY <2>3 DEF IInv, SparedTailNeverFaults, vars
  <2> QED
    BY <2>1, <2>2, <2>3
<1> QED
  BY <1>1, <1>2 DEF IInv

(* In every execution of enqueue_task and _pull_next_task, in any order    *)
(* and under any allocator, every variable keeps its type.                 *)
THEOREM TypeCorrect == Spec => []TypeOK
<1>1. IInv => TypeOK
  BY DEF IInv
<1> QED
  BY <1>1, InitEstablishes, StepKeeps, PTL DEF Spec

(* In every execution the list stays well formed until a store goes astray. *)
THEOREM ListStaysWellFormed == Spec => []ListInv
<1>1. IInv => ListInv
  BY DEF IInv
<1> QED
  BY <1>1, InitEstablishes, StepKeeps, PTL DEF Spec

(* Under a sparing allocator no store ever goes astray.                    *)
THEOREM SparedTailIsSafe == Spec => []SparedTailNeverFaults
<1>1. IInv => SparedTailNeverFaults
  BY DEF IInv
<1> QED
  BY <1>1, InitEstablishes, StepKeeps, PTL DEF Spec

(* Every stray store comes from a list of one task whose queue_tail the    *)
(* pull before left in a freed block.                                      *)
THEOREM OnlyStaleTailFaults == Spec => FaultOnlyThroughStaleTail
<1>1. IInv /\ [Next]_vars => [fault' /\ ~fault => Dangling /\ Len(order) = 1]_vars
  BY FaultNeedsStaleTail
<1> QED
  BY <1>1, InitEstablishes, StepKeeps, PTL DEF Spec, FaultOnlyThroughStaleTail

-----------------------------------------------------------------------------
(* The descriptors behind a list of nodes, and how they follow an Append   *)
(* or a Tail of the nodes.                                                 *)
LEMMA ReadIsSeq ==
  ASSUME NEW T, NEW f \in [Addr -> T], NEW s \in Seq(Node)
  PROVE  Read(s, f) \in Seq(T) /\ Len(Read(s, f)) = Len(s)
<1>1. \A i \in 1..Len(s) : f[s[i]] \in T
  BY DEF Node
<1> QED
  BY <1>1 DEF Read

(* g holds d in block a, and what f holds in the blocks of s.              *)
HoldsOneMore(T, f, g, s, a, d) ==
  /\ f \in [Addr -> T] /\ g \in [Addr -> T] /\ s \in Seq(Node) /\ a \in Node /\ d \in T
  /\ g[a] = d /\ \A i \in 1..Len(s) : g[s[i]] = f[s[i]]

LEMMA ReadAppend ==
  ASSUME NEW T, NEW f, NEW g, NEW s, NEW a, NEW d, HoldsOneMore(T, f, g, s, a, d)
  PROVE  Read(Append(s, a), g) = Append(Read(s, f), d)
<1>0. /\ f \in [Addr -> T] /\ g \in [Addr -> T] /\ s \in Seq(Node) /\ a \in Node /\ d \in T
      /\ g[a] = d /\ \A i \in 1..Len(s) : g[s[i]] = f[s[i]]
  BY DEF HoldsOneMore
<1>1. Read(s, f) \in Seq(T) /\ Len(Read(s, f)) = Len(s)
  BY <1>0, ReadIsSeq
<1>2. /\ Append(s, a) \in Seq(Node) /\ Len(Append(s, a)) = Len(s) + 1
      /\ \A i \in 1..Len(s) : Append(s, a)[i] = s[i]
      /\ Append(s, a)[Len(s) + 1] = a
  BY <1>0, AppendNode
<1>3. Read(Append(s, a), g) \in Seq(T) /\ Len(Read(Append(s, a), g)) = Len(s) + 1
  BY <1>0, <1>2, ReadIsSeq
<1>4. \A i \in 1..(Len(s) + 1) : Read(Append(s, a), g)[i] = Append(Read(s, f), d)[i]
  BY <1>0, <1>1, <1>2 DEF Read
<1>5. Append(Read(s, f), d) \in Seq(T) /\ Len(Append(Read(s, f), d)) = Len(s) + 1
  BY <1>0, <1>1
<1> QED
  BY <1>3, <1>4, <1>5, SeqEqual

LEMMA ReadTail ==
  ASSUME NEW T, NEW f \in [Addr -> T], NEW s \in Seq(Node), s # <<>>
  PROVE  /\ Read(Tail(s), f) = Tail(Read(s, f))
         /\ Read(s, f) # <<>> /\ Head(Read(s, f)) = f[s[1]]
<1>1. Read(s, f) \in Seq(T) /\ Len(Read(s, f)) = Len(s)
  BY ReadIsSeq
<1>2. /\ Tail(s) \in Seq(Node) /\ Len(s) \in Nat \ {0}
      /\ Len(Tail(s)) = Len(s) - 1
      /\ \A i \in 1..(Len(s) - 1) : Tail(s)[i] = s[i + 1]
  BY TailNodes
<1>3. Read(Tail(s), f) \in Seq(T) /\ Len(Read(Tail(s), f)) = Len(s) - 1
  BY <1>2, ReadIsSeq
<1>4. Read(s, f) # <<>> /\ Head(Read(s, f)) = f[s[1]]
  BY <1>1, <1>2 DEF Read
<1>5. Tail(Read(s, f)) \in Seq(T) /\ Len(Tail(Read(s, f))) = Len(s) - 1
  BY <1>1, <1>4
<1>6. \A i \in 1..(Len(s) - 1) : Read(Tail(s), f)[i] = Tail(Read(s, f))[i]
  BY <1>1, <1>2 DEF Read
<1> QED
  BY <1>3, <1>4, <1>5, <1>6, SeqEqual

(* The nodes of the list have the fields of their type.                    *)
LEMMA ListFields ==
  ASSUME IInv, ~fault
  PROVE  /\ socket_descriptor \in [Addr -> Descriptors \cup {NoTask}]
         /\ order \in Seq(Node) /\ Len(order) \in Nat
         /\ next \in [Addr -> Addr \cup {Null, Garbage}]
         /\ NodesAreLive /\ ChainFollowsOrder
BY DEF IInv, TypeOK, ListInv

(* An enqueue that stores where it should appends its descriptor to what   *)
(* the list holds.                                                         *)
LEMMA EnqueueAppends ==
  ASSUME IInv, NEW a \in Addr, NEW d \in Descriptors, EnqueueTask(a, d), ~fault'
  PROVE  /\ Read(order, socket_descriptor)' = Append(Read(order, socket_descriptor), d)
         /\ num_connections' = num_connections + 1 /\ UNCHANGED result
<1> DEFINE T == Descriptors \cup {NoTask}
<1>0. ~fault
  BY DEF EnqueueTask
<1>1. /\ order' = Append(order, a) /\ result' = result
      /\ num_connections' = num_connections + 1
      /\ socket_descriptor' = [socket_descriptor EXCEPT ![a] = d]
      /\ a \notin live
  BY DEF EnqueueTask, Blocks, Fault
<1>2. /\ QueueHead \in live
      /\ \A i \in 1..Len(order) : order[i] \in live /\ order[i] \in Addr
  BY <1>0, ListFields DEF NodesAreLive, Node
<1>3. /\ a \in Node /\ d \in T /\ socket_descriptor' \in [Addr -> T]
      /\ socket_descriptor'[a] = d
      /\ \A i \in 1..Len(order) :
           socket_descriptor'[order[i]] = socket_descriptor[order[i]]
  BY <1>0, <1>1, <1>2, ListFields DEF Node
<1>4. HoldsOneMore(T, socket_descriptor, socket_descriptor', order, a, d)
  BY <1>0, <1>3, ListFields DEF HoldsOneMore
<1>5. Read(Append(order, a), socket_descriptor')
        = Append(Read(order, socket_descriptor), d)
  <2> HIDE DEF T
  <2> QED
    BY <1>4, ReadAppend
<1> QED
  BY <1>1, <1>5

(* The dummy's link is the oldest node, or NULL.                           *)
LEMMA HeadLink ==
  ASSUME IInv, ~fault
  PROVE  next[QueueHead] = IF Len(order) = 0 THEN Null ELSE order[1]
<1>1. next[At(0)] = IF Len(order) = 0 THEN Null ELSE At(1)
  BY ListFields DEF ChainFollowsOrder
<1> QED
  BY <1>1 DEF At, Position

(* A pull that stores where it should hands out the oldest descriptor.     *)
LEMMA PullTakes ==
  ASSUME IInv, PullTask, ~fault'
  PROVE  /\ Read(order, socket_descriptor) # <<>>
         /\ result' = Head(Read(order, socket_descriptor))
         /\ Read(order, socket_descriptor)' = Tail(Read(order, socket_descriptor))
         /\ num_connections' = num_connections - 1
<1>1. /\ order' = Tail(order) /\ socket_descriptor' = socket_descriptor
      /\ result' = socket_descriptor[next[QueueHead]]
      /\ num_connections' = num_connections - 1
      /\ next[QueueHead] # Null /\ ~fault
  BY DEF PullTask, Fault
<1>2. Len(order) # 0 /\ next[QueueHead] = order[1]
  BY <1>1, HeadLink
<1>3. order # <<>>
  BY <1>2
<1> QED
  BY <1>1, <1>2, <1>3, ListFields, ReadTail

(* The branch "no task found" sees an empty list.                          *)
LEMMA NothingIsThere ==
  ASSUME IInv, PullNothing
  PROVE  Read(order, socket_descriptor) = <<>>
<1>1. next[QueueHead] = Null /\ ~fault
  BY DEF PullNothing
<1>2. Len(order) # 0 => order[1] \in Addr
  BY <1>1, ListFields DEF Node
<1>3. Len(order) = 0
  BY <1>1, <1>2, HeadLink, AddrAssumption
<1>4. Read(order, socket_descriptor) \in Seq(Descriptors \cup {NoTask})
  BY <1>1, ListFields, ReadIsSeq
<1>5. Len(Read(order, socket_descriptor)) = 0
  BY <1>1, <1>3, ListFields, ReadIsSeq
<1> QED
  BY <1>4, <1>5, EmptySeq

(* Every operation on the blocks is an operation on the FIFO queue, or     *)
(* leaves it alone.                                                        *)
LEMMA StepIsFifoStep ==
  ASSUME IInv, [Next]_vars
  PROVE  [Fifo!Next]_<<Read(order, socket_descriptor), result>>
<1> USE DEF Fifo!Next, Fifo!Put, Fifo!Take, Fifo!TakeNothing
<1>1. ASSUME Fault \/ EnqueueTaskFails \/ OverwriteFreed \/ UNCHANGED vars
      PROVE  UNCHANGED <<Read(order, socket_descriptor), result>>
  <2>1. UNCHANGED <<order, socket_descriptor, result>>
    BY <1>1 DEF Fault, EnqueueTaskFails, OverwriteFreed, vars
  <2> QED
    BY <2>1
<1>2. ASSUME NEW a \in Addr, NEW d \in Descriptors, EnqueueTask(a, d), ~Fault
      PROVE  Fifo!Put(d)
  <2>1. ~fault'
    BY <1>2 DEF EnqueueTask
  <2> QED
    BY <1>2, <2>1, EnqueueAppends
<1>3. ASSUME PullTask, ~Fault
      PROVE  Fifo!Take
  <2>1. ~fault'
    BY <1>3 DEF PullTask
  <2> QED
    BY <1>3, <2>1, PullTakes
<1>4. ASSUME PullNothing
      PROVE  Fifo!TakeNothing
  <2>1. result' = NoTask /\ UNCHANGED <<order, socket_descriptor>>
    BY <1>4 DEF PullNothing
  <2>2. UNCHANGED Read(order, socket_descriptor)
    BY <2>1
  <2> QED
    BY <1>4, <2>1, <2>2, NothingIsThere
<1> QED
  BY <1>1, <1>2, <1>3, <1>4 DEF Next

(* The linked list implements the FIFO queue the orchestrator promises:    *)
(* until a store goes astray every pull hands out the oldest descriptor,   *)
(* exactly once, whatever calloc returns.                                  *)
THEOREM ListImplementsFifo == Spec => ImplementsFifo
<1>1. Init => Fifo!Init
  <2> SUFFICES ASSUME Init PROVE Fifo!Init
    OBVIOUS
  <2>1. order = <<>> /\ result = NoTask
    BY DEF Init
  <2>2. Read(order, socket_descriptor) = <<>>
    BY <2>1 DEF Read
  <2> QED
    BY <2>1, <2>2 DEF Fifo!Init
<1>2. IInv /\ [Next]_vars => [Fifo!Next]_(Fifo!vars)
  BY StepIsFifoStep DEF Fifo!vars
<1> QED
  BY <1>1, <1>2, InitEstablishes, StepKeeps, PTL DEF Spec, ImplementsFifo, Fifo!Spec
=============================================================================
