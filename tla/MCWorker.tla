-------------------------------- MODULE MCWorker --------------------------------
(* Worker with requests of two or three bytes: with and without a body,    *)
(* cut short, too long; and messages with one header more than there is    *)
(* room for.                                                               *)
EXTENDS Worker

FewRequests ==
  {[header |-> h, declared |-> d, echo |-> 0, length |-> n] :
     <<h, d, n>> \in {<<2, -1, 2>>, <<1, 1, 2>>, <<1, 2, 3>>, <<0, -1, 2>>, <<2, 4, 3>>}}
=============================================================================
