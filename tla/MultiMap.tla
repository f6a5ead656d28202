-------------------------------- MODULE MultiMap --------------------------------
(***************************************************************************)
(* What hash_tools.c promises its one caller: a bag of key-value pairs of  *)
(* bounded size.  Adding never replaces; fetching and removing pick some   *)
(* pair with the key, and fail exactly when there is none.                 *)
(***************************************************************************)
EXTENDS Integers

CONSTANTS Keys, Values, Capacity, NoCall

VARIABLES held,     \* how often each pair is held
          room,     \* pairs that can still be added
          call,     \* the call in progress, or NoCall
          result    \* what the last call that returned said

Calls == [op : {"add"}, key : Keys, value : Values] \cup [op : {"fetch", "remove"}, key : Keys]

Init == /\ held = [p \in Keys \X Values |-> 0]
        /\ room = 0 /\ call = NoCall /\ result = "none"

(* The table gets its slots.                                               *)
Allocate == /\ \A p \in Keys \X Values : held[p] = 0
            /\ room = 0 /\ call = NoCall /\ room' = Capacity
            /\ UNCHANGED <<held, call, result>>

Invoke == /\ call = NoCall /\ call' \in Calls
          /\ result' = "none"
          /\ UNCHANGED <<held, room>>

Return == call # NoCall /\ call' = NoCall

Add == /\ Return /\ call.op = "add"
       /\ \/ /\ room > 0 /\ room' = room - 1
             /\ held' = [held EXCEPT ![<<call.key, call.value>>] = @ + 1]
             /\ result' = "ok"
          \/ room = 0 /\ result' = "full" /\ UNCHANGED <<held, room>>
          \/ result' = "no_memory" /\ UNCHANGED <<held, room>>

Present(v) == held[call.key, v] > 0

Fetch == /\ Return /\ call.op = "fetch"
         /\ \E v \in Values : Present(v) /\ result' = v
         /\ UNCHANGED <<held, room>>

Remove == /\ Return /\ call.op = "remove"
          /\ \E v \in Values : /\ Present(v)
                               /\ held' = [held EXCEPT ![<<call.key, v>>] = @ - 1]
          /\ room' = room + 1 /\ result' = "ok"

Absent == /\ Return /\ call.op # "add"
          /\ \A v \in Values : ~Present(v)
          /\ result' = "absent"
          /\ UNCHANGED <<held, room>>

Next == Allocate \/ Invoke \/ Add \/ Fetch \/ Remove \/ Absent

Spec == Init /\ [][Next]_<<held, room, call, result>>
=============================================================================
