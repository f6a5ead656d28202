------------------------------ MODULE RequestTask ------------------------------
(***************************************************************************)
(* What thread_runner, and with it the pool and the event loop, expect of  *)
(* the processing of a task: the request is read, parsed at most once,     *)
(* the call returns and the descriptor is closed once; and all of it ends, *)
(* unless the code leaves defined behaviour on the way.                    *)
(***************************************************************************)
VARIABLES phase,     \* "reading", "parsing", "returned", "closed" or "undefined"
          blocks     \* what _process_request has allocated

vars == <<phase, blocks>>

Init == phase = "reading" /\ blocks = {}

Allocate == /\ phase = "reading" /\ blocks = {}
            /\ blocks' = {"buffer"} /\ UNCHANGED phase

(* The handler gets the buffer and a response, and both are there until it *)
(* returns.                                                                *)
Parse == /\ phase = "reading" /\ blocks = {"buffer"}
         /\ phase' = "parsing" /\ blocks' = {"buffer", "response"}

(* Not enough memory, or no request: only for want of a response may the   *)
(* buffer be left behind.                                                  *)
GiveUp == /\ phase = "reading" /\ phase' = "returned"
          /\ blocks' \in {{}, blocks}

Return == /\ phase = "parsing" /\ phase' = "returned"
          /\ blocks' = {}

Close == /\ phase = "returned" /\ phase' = "closed"
         /\ UNCHANGED blocks

Undefined == /\ phase \in {"reading", "parsing"} /\ phase' = "undefined"
             /\ UNCHANGED blocks

Next == Allocate \/ Parse \/ GiveUp \/ Return \/ Close \/ Undefined

Spec == Init /\ [][Next]_vars /\ WF_vars(Next)
=============================================================================
